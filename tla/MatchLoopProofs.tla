---------------------------- MODULE MatchLoopProofs ----------------------------
(***************************************************************************)
(* The loops of matchOrder as they are written, for every set of symbols,  *)
(* prices and quantities and for every bound: the scan finds the best      *)
(* order, no book shows an exhausted order outside the update that reports *)
(* it, and every step is a step of MatchingEngine or changes nothing of    *)
(* it.  Steps outside the loops are steps of MatchingEngine as they stand, *)
(* so what is proved of those is used for them.                            *)
(***************************************************************************)
EXTENDS MatchLoop, MatchingEngineProofs

-----------------------------------------------------------------------------
(* The invariant of the loops.                                             *)

\* b is the best of the first n orders of a book, or 0 if none of them crosses.
BestOf(book, n, side, price, b) ==
  IF b = 0
    THEN \A j \in 1..n : ~ Crosses(side, price, book[j])
    ELSE /\ b \in 1..n
         /\ Crosses(side, price, book[b])
         /\ \A j \in 1..n :
              Crosses(side, price, book[j]) =>
                /\ ~ Better(side, book[j].price, book[b].price)
                /\ j < b => Better(side, book[b].price, book[j].price)

Places == {"out", "loop", "scan", "trade", "update", "return"}

LoopTyped ==
  /\ TypeOK /\ LogTyped
  /\ pc \in Places /\ idx \in Nat /\ bestIdx \in Nat
  /\ pc = "out" <=> call = Idle

Scanned ==
  /\ pc \in {"scan", "trade", "return"} => call.remaining > 0
  /\ pc = "scan" =>
       idx \in 1..Len(Book) + 1 /\ BestOf(Book, idx - 1, call.side, call.price, bestIdx)
  /\ pc = "trade" => bestIdx # 0 /\ BestOf(Book, Len(Book), call.side, call.price, bestIdx)
  /\ pc = "return" => BestOf(Book, Len(Book), call.side, call.price, 0)
  /\ pc = "update" => bestIdx \in DOMAIN Book

LoopInv == LoopTyped /\ Scanned /\ ExhaustedOnlyWhileReported

-----------------------------------------------------------------------------
(* The call in progress, its book and its best order.                      *)

LEMMA CallInLoop ==
  ASSUME LoopTyped, pc # "out"
  PROVE  /\ call # Idle /\ call \in Calls
         /\ call.id \in OrderIds /\ call.symbol \in Symbols /\ call.side \in Sides
         /\ call.price \in Int /\ call.remaining \in Nat /\ call.kind \in {"add", "amend"}
         /\ Book \in Seq(Orders) /\ Len(Book) \in Nat /\ DOMAIN Book = 1..Len(Book)
         /\ \A j \in DOMAIN Book :
              /\ Book[j] \in Orders /\ Book[j].id \in OrderIds /\ Book[j].side \in Sides
              /\ Book[j].price \in Int /\ Book[j].remaining \in Nat
BY CallTyped, BookTyped DEF LoopTyped, Book

\* The part of the book that was seen, compared as the code compares it.
LEMMA BestOfSeen ==
  ASSUME NEW book \in Seq(Orders), NEW n \in 0..Len(book), NEW side, NEW price, NEW b \in Nat
  PROVE  BestOf(book, n, side, price, b) <=>
           IF b = 0 THEN NoneCrosses(SubSeq(book, 1, n), side, price)
           ELSE b \in DOMAIN SubSeq(book, 1, n) /\ IsBest(SubSeq(book, 1, n), side, price, b)
<1> DEFINE seen == SubSeq(book, 1, n)
<1>1. Len(book) \in Nat /\ \A j \in 1..Len(book) : book[j] \in Orders
  BY LenProperties, ElementOfSeq
<1>2. n \in Int /\ \A j \in 1..n : book[j] \in Orders
  BY <1>1
<1>3. /\ seen \in Seq(Orders)
      /\ Len(seen) = IF 1 <= n THEN n - 1 + 1 ELSE 0
      /\ \A j \in 1..n - 1 + 1 : seen[j] = book[1 + j - 1]
  BY <1>2, SubSeqProperties
<1> HIDE DEF seen
<1>4. DOMAIN seen = 1..n /\ \A j \in 1..n : seen[j] = book[j]
  <2>1. Len(seen) = n
    BY <1>1, <1>3
  <2>2. \A j \in 1..n : j \in 1..n - 1 + 1 /\ 1 + j - 1 = j
    BY <1>2
  <2> QED
    BY <1>3, <2>1, <2>2, LenProperties
<1>5. b \in 1..n \/ b \notin 1..n
  OBVIOUS
<1>6. BestOf(book, n, side, price, b) <=>
        IF b = 0 THEN NoneCrosses(seen, side, price)
        ELSE b \in DOMAIN seen /\ IsBest(seen, side, price, b)
  BY <1>4 DEF BestOf, NoneCrosses, IsBest
<1> QED
  BY <1>6 DEF seen

\* The whole book was seen.
LEMMA BestOfBook ==
  ASSUME NEW book \in Seq(Orders), NEW side, NEW price, NEW b \in Nat
  PROVE  /\ b # 0 => (BestOf(book, Len(book), side, price, b) <=>
                        b \in DOMAIN book /\ IsBest(book, side, price, b))
         /\ BestOf(book, Len(book), side, price, 0) <=> NoneCrosses(book, side, price)
BY LenProperties DEF BestOf, NoneCrosses, IsBest

\* The body of the for loop keeps best_idx best.
LEMMA ScanKeepsBest ==
  ASSUME LoopTyped, pc = "scan", idx \in 1..Len(Book),
         BestOf(Book, idx - 1, call.side, call.price, bestIdx)
  PROVE  BestOf(Book, idx, call.side, call.price, NextBest) /\ NextBest \in Nat
<1>1. /\ call.side \in Sides /\ Len(Book) \in Nat /\ bestIdx \in Nat
      /\ \A j \in 1..Len(Book) : Book[j].price \in Int
  BY CallInLoop DEF LoopTyped
<1>2. \A j \in 1..idx : j \in 1..idx - 1 \/ j = idx
  BY <1>1
<1>3. idx \in Nat /\ idx # 0 /\ \A j \in 1..idx - 1 : j < idx /\ j \in 1..idx
  BY <1>1
<1> DEFINE hit == Crosses(call.side, call.price, Book[idx])
<1>4. CASE ~ hit
  BY <1>2, <1>3, <1>4, <1>1 DEF BestOf, NextBest
<1>5. CASE hit /\ bestIdx = 0
  <2>1. NextBest = idx
    BY <1>5 DEF NextBest
  <2>2. ~ Better(call.side, Book[idx].price, Book[idx].price)
    BY <1>1 DEF Better
  <2> QED
    BY <1>2, <1>3, <1>5, <2>1, <2>2 DEF BestOf
<1>6. CASE hit /\ bestIdx # 0 /\ Better(call.side, Book[idx].price, Book[bestIdx].price)
  <2>1. NextBest = idx
    BY <1>6 DEF NextBest
  <2>2. ASSUME NEW j \in 1..idx - 1, Crosses(call.side, call.price, Book[j])
        PROVE  Better(call.side, Book[idx].price, Book[j].price)
    <3>1. ~ Better(call.side, Book[j].price, Book[bestIdx].price)
      BY <1>6, <2>2 DEF BestOf
    <3>2. /\ Book[j].price \in Int /\ Book[idx].price \in Int /\ Book[bestIdx].price \in Int
      BY <1>1, <1>6 DEF BestOf
    <3> QED
      BY <1>1, <1>6, <3>1, <3>2 DEF Better, Sides
  <2>3. \A j \in 1..idx - 1 : Book[j].price \in Int /\ Book[idx].price \in Int
    BY <1>1
  <2>4. \A j \in 1..idx - 1 : Better(call.side, Book[idx].price, Book[j].price)
                                => ~ Better(call.side, Book[j].price, Book[idx].price)
    BY <1>1, <2>3 DEF Better, Sides
  <2>5. ~ Better(call.side, Book[idx].price, Book[idx].price)
    BY <1>1 DEF Better
  <2> QED
    BY <1>2, <1>3, <1>6, <2>1, <2>2, <2>4, <2>5 DEF BestOf
<1>7. CASE hit /\ bestIdx # 0 /\ ~ Better(call.side, Book[idx].price, Book[bestIdx].price)
  <2>1. NextBest = bestIdx
    BY <1>7 DEF NextBest
  <2>2. bestIdx \in 1..idx - 1 /\ ~ (idx < bestIdx)
    BY <1>3, <1>7, <1>1 DEF BestOf
  <2> QED
    BY <1>1, <1>2, <1>3, <1>7, <2>1, <2>2 DEF BestOf
<1> QED
  BY <1>4, <1>5, <1>6, <1>7

\* What sending the trade does: the lots leave both orders.
LEMMA TradeEffect ==
  ASSUME LoopTyped, Scanned, SendTrade
  PROVE  LET resting == Book[bestIdx]
             qty == Smaller(call.remaining, resting.remaining)
             new == [Book EXCEPT ![bestIdx].remaining = resting.remaining - qty]
         IN  /\ bestIdx \in DOMAIN Book
             /\ qty \in Nat /\ qty <= call.remaining /\ resting.remaining - qty \in Nat
             /\ call' = [call EXCEPT !.remaining = call.remaining - qty]
             /\ call' \in Calls /\ call'.symbol = call.symbol
             /\ new \in Seq(Orders) /\ DOMAIN new = DOMAIN Book
             /\ books' = [books EXCEPT ![call.symbol] = new]
             /\ Book' = new
             /\ books' \in [Symbols -> Seq(Orders)]
             /\ \A s \in Symbols \ {call.symbol} : books'[s] = books[s]
             /\ closed' = closed
<1> DEFINE resting == Book[bestIdx]
           qty == Smaller(call.remaining, resting.remaining)
           left == resting.remaining - qty
           new == [Book EXCEPT ![bestIdx].remaining = left]
           buyId == IF call.side = "Buy" THEN call.id ELSE resting.id
           sellId == IF call.side = "Buy" THEN resting.id ELSE call.id
           t == Trade(buyId, sellId, call.symbol, resting.price, qty)
<1>1. pc = "trade" /\ pc # "out"
  BY DEF SendTrade
<1>2. /\ call \in Calls /\ call.symbol \in Symbols /\ call.remaining \in Nat
      /\ Book \in Seq(Orders) /\ DOMAIN Book = 1..Len(Book)
      /\ \A j \in DOMAIN Book : Book[j].remaining \in Nat
  BY <1>1, CallInLoop
<1>3. bestIdx \in DOMAIN Book
  BY <1>1, <1>2 DEF Scanned, BestOf
<1>4. qty \in Nat /\ qty <= call.remaining /\ left \in Nat
  BY <1>2, <1>3 DEF Smaller
<1>5. new \in Seq(Orders) /\ DOMAIN new = DOMAIN Book
  BY <1>2, <1>3, <1>4, RefillProperties
<1>6. /\ books' = [books EXCEPT ![call.symbol] = new]
      /\ call' = [call EXCEPT !.remaining = call.remaining - qty]
      /\ closed' = closed \cup TerminalIds(<<t>>)
  BY DEF SendTrade, Book, CallBack
<1>7. closed' = closed
  <2>1. t.event = "Trade"
    BY DEF Trade
  <2> HIDE DEF t
  <2>2. TerminalIds(<<t>>) = {}
    BY <2>1 DEF TerminalIds
  <2> QED
    BY <1>6, <2>2
<1> HIDE DEF new
<1>8. /\ books' \in [Symbols -> Seq(Orders)]
      /\ books'[call.symbol] = new
      /\ \A s \in Symbols \ {call.symbol} : books'[s] = books[s]
  BY <1>2, <1>5, <1>6 DEF LoopTyped, TypeOK
<1>9. call' \in Calls /\ call'.symbol = call.symbol
  <2> DEFINE r == call.remaining - qty
  <2>1. r \in Nat
    BY <1>2, <1>4
  <2> HIDE DEF r
  <2> QED
    BY <1>2, <1>6, <2>1 DEF Calls, r
<1>10. Book' = new
  BY <1>8, <1>9 DEF Book
<1> QED
  BY <1>3, <1>4, <1>5, <1>6, <1>7, <1>8, <1>9, <1>10 DEF new

\* What sending the update does: an exhausted order leaves the book.
LEMMA UpdateEffect ==
  ASSUME LoopTyped, Scanned, pc = "update"
  PROVE  /\ bestIdx \in DOMAIN Book
         /\ AfterUpdate \in Seq(Orders)
         /\ UpdateOfResting \in Events
         /\ TerminalIds(<<UpdateOfResting>>) =
              IF Book[bestIdx].remaining = 0 THEN {Book[bestIdx].id} ELSE {}
<1>1. /\ bestIdx \in DOMAIN Book /\ Book \in Seq(Orders)
      /\ Book[bestIdx].id \in OrderIds /\ Book[bestIdx].remaining \in Nat
  BY CallInLoop DEF Scanned
<1>2. AfterUpdate \in Seq(Orders)
  BY <1>1, EraseProperties DEF AfterUpdate
<1> DEFINE status == IF Book[bestIdx].remaining = 0 THEN "Filled" ELSE "Accepted"
           id == Book[bestIdx].id
           left == Book[bestIdx].remaining
<1>3. UpdateOfResting = OrderUpdate(id, status, left)
  BY DEF UpdateOfResting
<1>4. status \in {"Filled", "Cancelled", "Accepted"} /\ id \in OrderIds /\ left \in Nat
  BY <1>1
<1>5. status \in {"Filled", "Cancelled"} <=> left = 0
  OBVIOUS
<1> HIDE DEF status, id, left
<1>6. UpdateOfResting \in Events
  BY <1>3, <1>4 DEF OrderUpdate, Events
<1>7. TerminalIds(<<UpdateOfResting>>) = IF left = 0 THEN {id} ELSE {}
  BY <1>3, <1>5, TerminalOfUpdate
<1> QED
  BY <1>1, <1>2, <1>6, <1>7 DEF id, left

-----------------------------------------------------------------------------
(* The invariant holds.                                                    *)

\* Between calls, and after them, only the engine's own rules are at work.
LEMMA LeaveIsReturn ==
  ASSUME LoopTyped, Scanned, LeaveCall
  PROVE  ReturnFilled \/ ReturnResting
<1>1. CASE pc = "loop" /\ call.remaining = 0 /\ ReturnFilled
  BY <1>1
<1>2. CASE pc = "return" /\ RestRemainder
  <2>1. pc # "out" /\ call.remaining > 0 /\ BestOf(Book, Len(Book), call.side, call.price, 0)
    BY <1>2 DEF Scanned
  <2>2. call # Idle /\ Book \in Seq(Orders)
    BY <2>1, CallInLoop
  <2>3. NoneCrosses(Book, call.side, call.price)
    BY <2>1, <2>2, BestOfBook
  <2> QED
    BY <1>2, <2>1, <2>2, <2>3 DEF ReturnResting, Book
<1> QED
  BY <1>1, <1>2 DEF LeaveCall

\* A step of the engine outside the loops.
LEMMA EngineStepKeeps ==
  ASSUME LoopInv, pc # "update", Next, LogTyped',
         pc' \in {"out", "loop"}, pc' = "out" <=> call' = Idle, UNCHANGED <<idx, bestIdx>>
  PROVE  LoopInv'
<1>1. TypeOK /\ TypeOK'
  BY TypeKept DEF LoopInv, LoopTyped
<1>2. LoopTyped'
  BY <1>1 DEF LoopInv, LoopTyped, Places
<1>3. Scanned'
  BY DEF Scanned
<1>4. HasQuantity
  <2>1. \A s \in Symbols : \A i \in DOMAIN books[s] :
          books[s][i].remaining # 0 /\ books[s][i].remaining \in Nat
    BY <1>1, BookTyped DEF LoopInv, ExhaustedOnlyWhileReported
  <2> QED
    BY <2>1 DEF HasQuantity
<1>5. HasQuantity'
  BY <1>1, <1>4, QuantityKept
<1>6. ExhaustedOnlyWhileReported'
  <2>1. \A n : n > 0 => n # 0
    OBVIOUS
  <2> QED
    BY <1>5, <2>1 DEF HasQuantity, ExhaustedOnlyWhileReported
<1> QED
  BY <1>2, <1>3, <1>6 DEF LoopInv

LEMMA EnterKeeps ==
  ASSUME LoopInv, EnterCall
  PROVE  LoopInv'
<1>1. LogTyped'
  BY LogKept DEF EnterCall, LoopInv, LoopTyped
<1>2. /\ pc # "update" /\ Next
      /\ pc' \in {"out", "loop"} /\ (pc' = "out" <=> call' = Idle)
      /\ UNCHANGED <<idx, bestIdx>>
  BY DEF EnterCall
<1> QED
  BY <1>1, <1>2, EngineStepKeeps

LEMMA LeaveKeeps ==
  ASSUME LoopInv, LeaveCall
  PROVE  LoopInv'
<1>1. ReturnFilled \/ ReturnResting
  BY LeaveIsReturn DEF LoopInv
<1>2. Next
  BY <1>1 DEF Next, Advance
<1>3. call' = Idle
  BY <1>1 DEF ReturnFilled, ReturnResting, RestRemainder
<1>4. pc # "update" /\ pc' = "out" /\ UNCHANGED <<idx, bestIdx>>
  BY DEF LeaveCall
<1>5. LogTyped'
  BY <1>2, LogKept DEF LoopInv, LoopTyped
<1> QED
  BY <1>2, <1>3, <1>4, <1>5, EngineStepKeeps

\* The three steps that move the index only.
LEMMA ScanKeeps ==
  ASSUME LoopInv, BeginScan \/ ScanOne \/ EndScan
  PROVE  LoopInv'
<1>1. /\ UNCHANGED vars /\ Book' = Book /\ pc # "out" /\ pc' # "out" /\ pc # "update"
      /\ pc' \in Places \ {"update"}
  BY DEF BeginScan, ScanOne, EndScan, vars, Book, Places
<1>2. /\ LoopTyped /\ Scanned /\ call.remaining \in Nat
      /\ Len(Book) \in Nat /\ idx \in Nat /\ bestIdx \in Nat
  BY <1>1, CallInLoop DEF LoopInv, LoopTyped
<1>3. ExhaustedOnlyWhileReported'
  BY <1>1 DEF LoopInv, ExhaustedOnlyWhileReported, vars
<1>4. (TypeOK /\ LogTyped)'
  BY <1>1, <1>2 DEF LoopTyped, TypeOK, LogTyped, vars
<1>5. CASE BeginScan
  <2>1. idx' = 1 /\ bestIdx' = 0 /\ pc' = "scan" /\ call' = call /\ call.remaining > 0
    BY <1>5 DEF BeginScan, vars
  <2>2. BestOf(Book', idx' - 1, call'.side, call'.price, bestIdx')
    BY <2>1 DEF BestOf
  <2> QED
    BY <1>1, <1>2, <1>3, <1>4, <2>1, <2>2 DEF LoopInv, LoopTyped, Scanned, vars
<1>6. CASE ScanOne
  <2>1. /\ idx \in 1..Len(Book) /\ pc = "scan" /\ call.remaining > 0
        /\ BestOf(Book, idx - 1, call.side, call.price, bestIdx)
    BY <1>2, <1>6 DEF ScanOne, Scanned
  <2>2. BestOf(Book, idx, call.side, call.price, NextBest) /\ NextBest \in Nat
    BY <1>2, <2>1, ScanKeepsBest
  <2>3. /\ idx' = idx + 1 /\ bestIdx' = NextBest /\ pc' = "scan" /\ call' = call
        /\ idx' \in 1..Len(Book) + 1 /\ idx' - 1 = idx
    BY <1>2, <1>6, <2>1 DEF ScanOne, vars
  <2> QED
    BY <1>1, <1>2, <1>3, <1>4, <2>1, <2>2, <2>3 DEF LoopInv, LoopTyped, Scanned, vars
<1>7. CASE EndScan
  <2>1. /\ idx - 1 = Len(Book) /\ call.remaining > 0
        /\ BestOf(Book, Len(Book), call.side, call.price, bestIdx)
    BY <1>2, <1>7 DEF EndScan, Scanned
  <2>2. /\ pc' = IF bestIdx = 0 THEN "return" ELSE "trade"
        /\ UNCHANGED <<idx, bestIdx>> /\ call' = call
    BY <1>7 DEF EndScan, vars
  <2> QED
    BY <1>1, <1>2, <1>3, <1>4, <2>1, <2>2 DEF LoopInv, LoopTyped, Scanned, vars
<1> QED
  BY <1>5, <1>6, <1>7

LEMMA TradeKeeps ==
  ASSUME LoopInv, SendTrade
  PROVE  LoopInv'
<1> DEFINE resting == Book[bestIdx]
           qty == Smaller(call.remaining, resting.remaining)
           left == resting.remaining - qty
           new == [Book EXCEPT ![bestIdx].remaining = left]
           buyId == IF call.side = "Buy" THEN call.id ELSE resting.id
           sellId == IF call.side = "Buy" THEN resting.id ELSE call.id
           t == Trade(buyId, sellId, call.symbol, resting.price, qty)
<1>1. /\ pc = "trade" /\ pc' = "update" /\ UNCHANGED <<idx, bestIdx>>
      /\ UNCHANGED <<nextOrderId, ret, rank, nextRank>>
      /\ LoopTyped /\ Scanned
  BY DEF SendTrade, KeepRanks, LoopInv
<1>2. /\ call.id \in OrderIds /\ call.symbol \in Symbols /\ Book \in Seq(Orders)
      /\ \A j \in DOMAIN Book : /\ Book[j].id \in OrderIds /\ Book[j].price \in Int
  BY <1>1, CallInLoop
<1>3. /\ bestIdx \in DOMAIN Book
      /\ qty \in Nat /\ left \in Nat
      /\ call' \in Calls /\ call'.symbol = call.symbol
      /\ DOMAIN new = DOMAIN Book
      /\ Book' = new
      /\ books' \in [Symbols -> Seq(Orders)]
      /\ \A s \in Symbols \ {call.symbol} : books'[s] = books[s]
      /\ closed' = closed
  BY <1>1, TradeEffect
<1>4. TypeOK'
  BY <1>1, <1>3 DEF LoopTyped, TypeOK
<1>5. t \in Events
  <2>1. buyId \in OrderIds /\ sellId \in OrderIds /\ resting.price \in Int
    BY <1>2, <1>3
  <2> HIDE DEF buyId, sellId, qty, resting
  <2> QED
    BY <1>2, <1>3, <2>1 DEF Trade, Events
<1>6. LogTyped'
  <2>1. log' = log \o <<t>>
    BY DEF SendTrade, CallBack, Book
  <2> HIDE DEF t
  <2> QED
    BY <1>1, <1>5, <2>1, ConcatProperties DEF LoopTyped, LogTyped
<1>7. LoopTyped'
  BY <1>1, <1>3, <1>4, <1>6, CallsNotIdle DEF LoopTyped, Places
<1>8. Scanned'
  BY <1>1, <1>3 DEF Scanned
<1>9. ExhaustedOnlyWhileReported'
  <2> SUFFICES ASSUME NEW s \in Symbols, NEW i \in DOMAIN books'[s], books'[s][i].remaining = 0
               PROVE  s = call.symbol /\ i = bestIdx
    BY <1>1, <1>3 DEF ExhaustedOnlyWhileReported
  <2>1. CASE s # call.symbol
    BY <1>1, <1>3, <2>1 DEF LoopInv, ExhaustedOnlyWhileReported
  <2>2. CASE s = call.symbol /\ i # bestIdx
    <3>1. books'[s] = new
      BY <1>3, <2>2 DEF Book
    <3>2. i \in DOMAIN Book /\ new[i] = Book[i]
      BY <1>3, <2>2, <3>1
    <3> QED
      BY <1>1, <1>2, <2>2, <3>1, <3>2 DEF LoopInv, ExhaustedOnlyWhileReported, Book
  <2> QED
    BY <2>1, <2>2
<1> QED
  BY <1>7, <1>8, <1>9 DEF LoopInv

LEMMA UpdateKeeps ==
  ASSUME LoopInv, SendUpdate
  PROVE  LoopInv'
<1>1. /\ pc = "update" /\ pc' = "loop" /\ UNCHANGED <<idx, bestIdx>>
      /\ UNCHANGED <<nextOrderId, call, ret, rank, nextRank>>
      /\ LoopTyped /\ Scanned
      /\ books' = [books EXCEPT ![call.symbol] = AfterUpdate]
      /\ log' = log \o <<UpdateOfResting>>
      /\ closed' = closed \cup TerminalIds(<<UpdateOfResting>>)
  BY DEF SendUpdate, KeepRanks, LoopInv, CallBack
<1>2. /\ call # Idle /\ call.symbol \in Symbols /\ Book \in Seq(Orders)
      /\ \A j \in DOMAIN Book : Book[j].id \in OrderIds
  BY <1>1, CallInLoop
<1>3. /\ bestIdx \in DOMAIN Book
      /\ AfterUpdate \in Seq(Orders)
      /\ UpdateOfResting \in Events
      /\ TerminalIds(<<UpdateOfResting>>) =
           IF Book[bestIdx].remaining = 0 THEN {Book[bestIdx].id} ELSE {}
  BY <1>1, UpdateEffect
<1>4. /\ books' \in [Symbols -> Seq(Orders)]
      /\ books'[call.symbol] = AfterUpdate
      /\ \A s \in Symbols \ {call.symbol} : books'[s] = books[s]
  BY <1>1, <1>2, <1>3 DEF LoopTyped, TypeOK
<1>5. TypeOK'
  BY <1>1, <1>2, <1>3, <1>4 DEF LoopTyped, TypeOK
<1>6. LogTyped'
  <2> DEFINE u == UpdateOfResting
  <2> HIDE DEF u
  <2>1. log' = log \o <<u>> /\ u \in Events
    BY <1>1, <1>3 DEF u
  <2> QED
    BY <1>1, <2>1, ConcatProperties DEF LoopTyped, LogTyped
<1>7. LoopTyped'
  BY <1>1, <1>2, <1>5, <1>6 DEF LoopTyped, Places
<1>8. Scanned'
  BY <1>1 DEF Scanned
<1>9. ASSUME NEW s \in Symbols, NEW i \in DOMAIN books'[s]
      PROVE  books'[s][i].remaining # 0
  <2>1. CASE s # call.symbol
    BY <1>1, <1>4, <1>9, <2>1 DEF LoopInv, ExhaustedOnlyWhileReported
  <2>2. CASE s = call.symbol /\ Book[bestIdx].remaining # 0
    BY <1>1, <1>2, <1>4, <1>9, <2>2 DEF LoopInv, ExhaustedOnlyWhileReported, AfterUpdate, Book
  <2>3. CASE s = call.symbol /\ Book[bestIdx].remaining = 0
    <3> DEFINE new == RemoveAt(Book, bestIdx)
    <3>1. PICK f : Thins(new, Book, f)
                   /\ \A j \in DOMAIN new : f[j] # bestIdx /\ new[j] = Book[f[j]]
      BY <1>2, <1>3, EraseThins
    <3> HIDE DEF new
    <3>2. books'[s] = new
      BY <1>4, <2>3 DEF AfterUpdate, new
    <3>3. f[i] \in DOMAIN Book /\ f[i] # bestIdx /\ books'[s][i] = Book[f[i]]
      BY <1>9, <3>1, <3>2 DEF Thins
    <3> QED
      BY <1>2, <3>3 DEF LoopInv, ExhaustedOnlyWhileReported, Book
  <2> QED
    BY <2>1, <2>2, <2>3
<1>10. ExhaustedOnlyWhileReported'
  BY <1>9 DEF ExhaustedOnlyWhileReported
<1> QED
  BY <1>7, <1>8, <1>10 DEF LoopInv

\* At every line of matchOrder the locals agree with the book: best_idx is the
\* best of what was scanned so far, and an order has nothing left only between
\* its decrement and its erasure.
THEOREM LoopInvariant == LoopSpec => []LoopInv
<1>1. LoopInit => LoopInv
  <2> SUFFICES ASSUME LoopInit PROVE LoopInv
    OBVIOUS
  <2>1. TypeOK /\ LogTyped
    BY InitTyped, EmptySeq DEF LoopInit, Init, LogTyped
  <2> QED
    BY <2>1 DEF LoopInit, Init, LoopInv, LoopTyped, Scanned, ExhaustedOnlyWhileReported, Places
<1>2. LoopInv /\ [LoopNext]_allVars => LoopInv'
  <2> SUFFICES ASSUME LoopInv, [LoopNext]_allVars PROVE LoopInv'
    OBVIOUS
  <2>1. CASE UNCHANGED allVars
    BY <2>1 DEF allVars, LoopInv, LoopTyped, Scanned, ExhaustedOnlyWhileReported, TypeOK,
                LogTyped, Book, BestOf
  <2> QED
    BY <2>1, EnterKeeps, LeaveKeeps, ScanKeeps, TradeKeeps, UpdateKeeps DEF LoopNext, LoopStep
<1> QED
  BY <1>1, <1>2, PTL DEF LoopSpec

\* best_idx is best among the orders scanned so far, and a fill uses it only
\* after the whole book was seen.
THEOREM ScanIsBest == LoopSpec => []ScanFindsBest
<1>1. LoopInv => ScanFindsBest
  <2> SUFFICES ASSUME LoopInv PROVE ScanFindsBest
    OBVIOUS
  <2>1. LoopTyped /\ Scanned /\ idx \in Nat /\ bestIdx \in Nat
    BY DEF LoopInv, LoopTyped
  <2>2. CASE pc = "scan"
    <3>1. /\ Book \in Seq(Orders) /\ idx - 1 \in 0..Len(Book)
          /\ BestOf(Book, idx - 1, call.side, call.price, bestIdx)
      BY <2>1, <2>2, CallInLoop DEF Scanned
    <3> DEFINE n == idx - 1
    <3> HIDE DEF n
    <3>2. IF bestIdx = 0 THEN NoneCrosses(SubSeq(Book, 1, n), call.side, call.price)
          ELSE /\ bestIdx \in DOMAIN SubSeq(Book, 1, n)
               /\ IsBest(SubSeq(Book, 1, n), call.side, call.price, bestIdx)
      BY <2>1, <3>1, BestOfSeen DEF n
    <3> QED
      BY <2>2, <3>2 DEF ScanFindsBest, n
  <2>3. CASE pc = "trade" \/ pc = "return"
    <3>1. Book \in Seq(Orders)
      BY <2>1, <2>3, CallInLoop
    <3> QED
      BY <2>1, <2>3, <3>1, BestOfBook DEF Scanned, ScanFindsBest
  <2>4. CASE pc \notin {"scan", "trade", "return"}
    BY <2>4 DEF ScanFindsBest
  <2> QED
    BY <2>2, <2>3, <2>4
<1> QED
  BY <1>1, LoopInvariant, PTL

\* A book shows an exhausted order only while its Filled update is delivered.
THEOREM ExhaustedIsReported == LoopSpec => []ExhaustedOnlyWhileReported
<1>1. LoopInv => ExhaustedOnlyWhileReported
  BY DEF LoopInv
<1> QED
  BY <1>1, LoopInvariant, PTL

-----------------------------------------------------------------------------
(* Every step of the loops is a step of the engine, or none.               *)

\* The rules of the engine are the same seen from either side.
LEMMA SameRules ==
  /\ Engine!Idle = Idle
  /\ \A a, b : Engine!Smaller(a, b) = Smaller(a, b)
  /\ \A book, side, price, i : Engine!IsBest(book, side, price, i) <=> IsBest(book, side, price, i)
  /\ \A book, side, price : Engine!NoneCrosses(book, side, price) <=> NoneCrosses(book, side, price)
  /\ \A events : Engine!TerminalIds(events) = TerminalIds(events)
BY DEF Engine!Idle, Idle, Engine!Smaller, Smaller, Engine!IsBest, IsBest,
       Engine!NoneCrosses, NoneCrosses, Engine!Crosses, Crosses, Engine!Better, Better,
       Engine!TerminalIds, TerminalIds

LEMMA SameEvents ==
  /\ \A b, s, m, p, q : Engine!Trade(b, s, m, p, q) = Trade(b, s, m, p, q)
  /\ \A id, status, left : Engine!OrderUpdate(id, status, left) = OrderUpdate(id, status, left)
  /\ \A id, status : Engine!Ack(id, status) = Ack(id, status)
  /\ \A ok : Engine!Cancelled(ok) = Cancelled(ok) /\ Engine!Amended(ok) = Amended(ok)
BY DEF Engine!Trade, Trade, Engine!OrderUpdate, OrderUpdate, Engine!Ack, Ack,
       Engine!Cancelled, Cancelled, Engine!Amended, Amended

LEMMA SameGuards ==
  /\ \A m, p, q : Engine!ValidRequest(m, p, q) <=> ValidRequest(m, p, q)
  /\ \A p, q : Engine!ValidAmendment(p, q) <=> ValidAmendment(p, q)
  /\ \A o, p, q : Engine!KeepsPriority(o, p, q) <=> KeepsPriority(o, p, q)
  /\ Engine!Sides = Sides
  /\ \A book, i : Engine!RemoveAt(book, i) = RemoveAt(book, i)
BY DEF Engine!RemoveAt, RemoveAt, Engine!ValidRequest, ValidRequest,
       Engine!ValidAmendment, ValidAmendment,
       Engine!KeepsPriority, KeepsPriority, Engine!Sides, Sides

\* Outside the update the engine sees the variables as they are.
LEMMA NothingPending ==
  ASSUME pc # "update"
  PROVE  FilledBooks = books /\ FilledLog = log /\ FilledClosed = closed
BY DEF FilledBooks, FilledLog, FilledClosed

LEMMA NothingPendingNext ==
  ASSUME pc' # "update"
  PROVE  FilledBooks' = books' /\ FilledLog' = log' /\ FilledClosed' = closed'
BY DEF FilledBooks, FilledLog, FilledClosed

\* A step of the engine while no update is pending.
LEMMA EngineStep ==
  ASSUME Next, pc # "update", pc' # "update"
  PROVE  Engine!Next
<1> USE NothingPending, NothingPendingNext, SameRules, SameEvents, SameGuards
<1>1. \A id, m, i : Engine!At(id, m, i) <=> At(id, m, i)
  BY DEF Engine!At, At
<1>2. \A id : Engine!Resting(id) <=> Resting(id)
  BY <1>1 DEF Engine!Resting, Resting
<1>3. \A events : Engine!BeginCall(events) <=> BeginCall(events)
  BY DEF Engine!BeginCall, BeginCall
<1>4. \A events : Engine!CallBack(events) <=> CallBack(events)
  BY DEF Engine!CallBack, CallBack
<1>5. /\ \A id : Engine!TakeRank(id) <=> TakeRank(id)
      /\ Engine!KeepRanks <=> KeepRanks
  BY DEF Engine!TakeRank, TakeRank, Engine!KeepRanks, KeepRanks
<1>6. \A m, p, q : AddRejected(m, p, q) => Engine!AddRejected(m, p, q)
  BY <1>3, <1>5 DEF Engine!AddRejected, AddRejected
<1>7. \A m, d, p, q : AddOrder(m, d, p, q) => Engine!AddOrder(m, d, p, q)
  BY <1>3, <1>5 DEF Engine!AddOrder, AddOrder
<1>8. \A id : CancelMissed(id) => Engine!CancelMissed(id)
  BY <1>2, <1>3, <1>5 DEF Engine!CancelMissed, CancelMissed
<1>9. \A id, m, i : CancelOrder(id, m, i) => Engine!CancelOrder(id, m, i)
  BY <1>1, <1>3, <1>5 DEF Engine!CancelOrder, CancelOrder
<1>10. \A id, p, q : AmendMissed(id, p, q) => Engine!AmendMissed(id, p, q)
  BY <1>2, <1>3, <1>5 DEF Engine!AmendMissed, AmendMissed
<1>11. ASSUME NEW id, NEW m, NEW i, NEW p, NEW q, AmendInPlace(id, m, i, p, q)
       PROVE  Engine!AmendInPlace(id, m, i, p, q)
  <2>1. FilledBooks' = [FilledBooks EXCEPT ![m][i].remaining = q]
    <3>1. books' = [books EXCEPT ![m][i].remaining = q]
      BY <1>11 DEF AmendInPlace
    <3>2. books = FilledBooks /\ books' = FilledBooks'
      OBVIOUS
    <3> QED
      BY ONLY <3>1, <3>2
  <2>2. IF p # FilledBooks[m][i].price \/ q > FilledBooks[m][i].remaining
          THEN nextRank <= MaxRanks /\ Engine!TakeRank(id)
          ELSE Engine!KeepRanks
    BY <1>5, <1>11 DEF AmendInPlace
  <2> QED
    BY <1>1, <1>3, <1>11, <2>1, <2>2 DEF Engine!AmendInPlace, AmendInPlace
<1>12. \A id, m, i, p, q : AmendRematch(id, m, i, p, q) => Engine!AmendRematch(id, m, i, p, q)
  BY <1>1, <1>3, <1>5 DEF Engine!AmendRematch, AmendRematch
<1>13. \A i : Fill(i) => Engine!Fill(i)
  BY ZenonT(40), <1>4 DEF Engine!Fill, Fill
<1>14. MatchStep => Engine!MatchStep
  BY <1>5, <1>13 DEF Engine!MatchStep, MatchStep
<1>15. ReturnFilled => Engine!ReturnFilled
  BY <1>4, <1>5 DEF Engine!ReturnFilled, ReturnFilled
<1>16. RestRemainder => Engine!RestRemainder
  BY <1>4, <1>5 DEF Engine!RestRemainder, RestRemainder
<1>17. ReturnResting => Engine!ReturnResting
  BY <1>16 DEF Engine!ReturnResting, ReturnResting
<1> QED
  BY <1>6, <1>7, <1>8, <1>9, <1>10, <1>11, <1>12, <1>14, <1>15, <1>17
     DEF Engine!Next, Next, Engine!Advance, Advance

\* Erasing an order does not depend on what it had left.
LEMMA EraseRefilled ==
  ASSUME NEW book \in Seq(Orders), NEW i \in DOMAIN book, NEW r \in Nat
  PROVE  RemoveAt([book EXCEPT ![i].remaining = r], i) = RemoveAt(book, i)
<1> DEFINE e == [book[i] EXCEPT !.remaining = r]
           new == [book EXCEPT ![i] = e]
           a == RemoveAt(new, i)
           b == RemoveAt(book, i)
<1>1. /\ Len(book) \in Nat /\ DOMAIN book = 1..Len(book) /\ i \in 1..Len(book)
      /\ book[i] \in Orders
  BY LenProperties, ElementOfSeq
<1>2. e \in Orders
  BY <1>1 DEF Orders
<1> HIDE DEF e
<1>3. /\ new \in Seq(Orders) /\ Len(new) = Len(book)
      /\ \A j \in 1..Len(book) : new[j] = IF j = i THEN e ELSE book[j]
  BY <1>1, <1>2, ExceptSeq
<1>4. i \in DOMAIN new
  BY <1>1, <1>3, LenProperties
<1> HIDE DEF new
<1>5. /\ a \in Seq(Orders) /\ Len(a) = Len(book) - 1
      /\ \A j \in 1..Len(book) - 1 : a[j] = IF j < i THEN new[j] ELSE new[j + 1]
  BY <1>3, <1>4, EraseProperties
<1>6. /\ b \in Seq(Orders) /\ Len(b) = Len(book) - 1
      /\ \A j \in 1..Len(book) - 1 : b[j] = IF j < i THEN book[j] ELSE book[j + 1]
  BY EraseProperties
<1> HIDE DEF a, b
<1>7. \A j \in 1..Len(book) - 1 : a[j] = b[j]
  <2> TAKE j \in 1..Len(book) - 1
  <2>1. j \in 1..Len(book) /\ j + 1 \in 1..Len(book)
    BY <1>1
  <2>2. CASE j < i
    BY <1>1, <1>3, <1>5, <1>6, <2>1, <2>2
  <2>3. CASE ~ (j < i)
    <3>1. j + 1 # i
      BY <1>1, <2>3
    <3> QED
      BY <1>3, <1>5, <1>6, <2>1, <2>3, <3>1
  <2> QED
    BY <2>2, <2>3
<1>8. a = b
  BY <1>5, <1>6, <1>7, SeqEqual
<1> QED
  BY <1>8 DEF a, b, new, e

\* Two callbacks, one after the other.
LEMMA TwoCallbacks ==
  ASSUME NEW S, NEW s \in Seq(S), NEW t \in S, NEW u \in S
  PROVE  (s \o <<t>>) \o <<u>> = s \o <<t, u>>
<1>1. <<t>> \in Seq(S) /\ <<u>> \in Seq(S)
  OBVIOUS
<1>2. (s \o <<t>>) \o <<u>> = s \o (<<t>> \o <<u>>)
  BY <1>1, ConcatAssociative
<1>3. <<t>> \o <<u>> = <<t, u>>
  <2> DEFINE one == <<t>>
             last == <<u>>
             both == one \o last
             two == <<t, u>>
  <2>1. /\ one \in Seq(S) /\ Len(one) = 1 /\ one[1] = t
        /\ last \in Seq(S) /\ Len(last) = 1 /\ last[1] = u
        /\ two \in Seq(S) /\ Len(two) = 2 /\ two[1] = t /\ two[2] = u
    OBVIOUS
  <2> HIDE DEF one, last, two
  <2>2. /\ both \in Seq(S) /\ Len(both) = 2
        /\ both[1] = t /\ both[2] = u
    <3>1. /\ both \in Seq(S) /\ Len(both) = Len(one) + Len(last)
          /\ \A i \in 1..Len(one) + Len(last) :
               both[i] = IF i <= Len(one) THEN one[i] ELSE last[i - Len(one)]
      BY <2>1, ConcatProperties
    <3> HIDE DEF both
    <3> QED
      BY <2>1, <3>1
  <2> HIDE DEF both
  <2>3. both = two
    BY <2>1, <2>2, SeqEqual
  <2> QED
    BY <2>3 DEF both, one, last, two
<1> QED
  BY <1>2, <1>3

\* Sending the trade is the engine's fill of the order the scan found.
LEMMA TradeIsFill ==
  ASSUME LoopInv, LoopInv', SendTrade
  PROVE  Engine!MatchStep
<1> DEFINE resting == Book[bestIdx]
           qty == Smaller(call.remaining, resting.remaining)
           left == resting.remaining - qty
           new == [Book EXCEPT ![bestIdx].remaining = left]
           buyId == IF call.side = "Buy" THEN call.id ELSE resting.id
           sellId == IF call.side = "Buy" THEN resting.id ELSE call.id
           status == IF left = 0 THEN "Filled" ELSE "Accepted"
           t == Trade(buyId, sellId, call.symbol, resting.price, qty)
           u == OrderUpdate(resting.id, status, left)
<1>1. /\ pc = "trade" /\ pc' = "update" /\ bestIdx' = bestIdx
      /\ UNCHANGED <<nextOrderId, ret>> /\ UNCHANGED <<rank, nextRank>>
      /\ LoopTyped /\ Scanned /\ LoopTyped' /\ Scanned'
      /\ log' = log \o <<t>>
  BY DEF SendTrade, KeepRanks, LoopInv, CallBack, Book
<1>2. /\ call # Idle /\ call.remaining > 0
      /\ call.id \in OrderIds /\ call.symbol \in Symbols /\ Book \in Seq(Orders)
      /\ \A j \in DOMAIN Book : /\ Book[j].id \in OrderIds /\ Book[j].price \in Int
                                /\ Book[j].remaining \in Nat
  BY <1>1, CallInLoop DEF Scanned
<1>3. /\ bestIdx \in DOMAIN Book
      /\ qty \in Nat /\ left \in Nat
      /\ call' = [call EXCEPT !.remaining = call.remaining - qty]
      /\ call'.symbol = call.symbol
      /\ DOMAIN new = DOMAIN Book
      /\ books' = [books EXCEPT ![call.symbol] = new]
      /\ Book' = new
      /\ closed' = closed
  BY <1>1, TradeEffect
<1>4. IsBest(Book, call.side, call.price, bestIdx)
  BY <1>1, <1>2, BestOfBook DEF Scanned, LoopTyped
<1>5. t \in Events /\ u \in Events
  <2>1. /\ buyId \in OrderIds /\ sellId \in OrderIds /\ resting.price \in Int
        /\ resting.id \in OrderIds /\ status \in {"Filled", "Cancelled", "Accepted"}
    BY <1>2, <1>3
  <2> HIDE DEF buyId, sellId, qty, resting, left, status
  <2> QED
    BY <1>2, <1>3, <2>1 DEF Trade, OrderUpdate, Events
<1>6. new[bestIdx].id = resting.id /\ new[bestIdx].remaining = left
  <2> HIDE DEF left, resting
  <2>1. \A j \in DOMAIN Book :
          new[j].id = Book[j].id
          /\ new[j].remaining = IF j = bestIdx THEN left ELSE Book[j].remaining
    BY <1>2, <1>3, RefillProperties
  <2> HIDE DEF new
  <2> QED
    BY <1>3, <2>1 DEF resting
<1>7. UpdateOfResting' = u
  <2> HIDE DEF new
  <2> QED
    BY <1>1, <1>3, <1>6 DEF UpdateOfResting
<1>8. FilledLog' = log \o <<t, u>>
  <2>1. FilledLog' = log' \o <<u>>
    BY <1>1, <1>7 DEF FilledLog
  <2> HIDE DEF t, u
  <2>2. (log \o <<t>>) \o <<u>> = log \o <<t, u>>
    BY ZenonT(40), <1>1, <1>5, TwoCallbacks DEF LoopTyped, LogTyped
  <2> QED
    BY <1>1, <2>1, <2>2
<1>9. FilledClosed' = closed \cup TerminalIds(<<t, u>>)
  <2>1. FilledClosed' = closed \cup TerminalIds(<<u>>)
    BY <1>1, <1>3, <1>7 DEF FilledClosed
  <2> DEFINE price == resting.price
             id == resting.id
             symbol == call.symbol
  <2>2. t = Trade(buyId, sellId, symbol, price, qty) /\ u = OrderUpdate(id, status, left)
    OBVIOUS
  <2> DEFINE closes == IF status \in {"Filled", "Cancelled"} THEN {id} ELSE {}
  <2> HIDE DEF t, u, price, id, symbol, buyId, sellId, status, left, qty, resting
  <2>3. TerminalIds(<<Trade(buyId, sellId, symbol, price, qty), OrderUpdate(id, status, left)>>)
          = closes
    BY TerminalOfFill
  <2>4. TerminalIds(<<OrderUpdate(id, status, left)>>) = closes
    BY TerminalOfUpdate
  <2> HIDE DEF closes
  <2> QED
    BY <2>1, <2>2, <2>3, <2>4
<1>10. FilledBooks' = [books EXCEPT ![call.symbol] =
                         IF left = 0 THEN RemoveAt(Book, bestIdx) ELSE new]
  <2>1. FilledBooks' = [books' EXCEPT ![call.symbol] = AfterUpdate']
    BY <1>1, <1>3 DEF FilledBooks
  <2>2. AfterUpdate' = IF left = 0 THEN RemoveAt(new, bestIdx) ELSE new
    <3> HIDE DEF new
    <3> QED
      BY <1>1, <1>3, <1>6 DEF AfterUpdate
  <2>3. RemoveAt(new, bestIdx) = RemoveAt(Book, bestIdx)
    BY <1>2, <1>3, EraseRefilled
  <2> HIDE DEF new, left
  <2>4. AfterUpdate' = IF left = 0 THEN RemoveAt(Book, bestIdx) ELSE new
    BY <2>2, <2>3
  <2> QED
    BY <1>3, <2>1, <2>4
<1>11. FilledBooks = books /\ FilledLog = log /\ FilledClosed = closed
  BY <1>1, NothingPending
<1>12. Engine!CallBack(<<t, u>>)
  <2> HIDE DEF t, u
  <2> QED
    BY <1>8, <1>9, <1>11, SameRules DEF Engine!CallBack
<1>13. Engine!Fill(bestIdx)
  <2>1. FilledBooks' = [FilledBooks EXCEPT ![call.symbol] =
                          IF left = 0 THEN RemoveAt(FilledBooks[call.symbol], bestIdx)
                          ELSE [FilledBooks[call.symbol] EXCEPT ![bestIdx].remaining = left]]
    BY <1>10, <1>11 DEF Book
  <2> QED
    BY <1>3, <1>11, <1>12, <2>1, SameRules, SameEvents, SameGuards DEF Engine!Fill, Book
<1>14. Engine!KeepRanks
  BY <1>1 DEF Engine!KeepRanks
<1> QED
  BY <1>1, <1>2, <1>3, <1>4, <1>11, <1>13, <1>14, SameRules DEF Engine!MatchStep, Book

\* The update was part of that fill: sending it changes nothing of the engine.
LEMMA UpdateIsStutter ==
  ASSUME LoopInv, SendUpdate
  PROVE  UNCHANGED Engine!vars
<1>1. /\ pc = "update" /\ pc' = "loop"
      /\ UNCHANGED <<nextOrderId, call, ret, rank, nextRank>>
      /\ books' = [books EXCEPT ![call.symbol] = AfterUpdate]
      /\ log' = log \o <<UpdateOfResting>>
      /\ closed' = closed \cup TerminalIds(<<UpdateOfResting>>)
  BY DEF SendUpdate, KeepRanks, CallBack
<1>2. FilledBooks' = FilledBooks /\ FilledLog' = FilledLog /\ FilledClosed' = FilledClosed
  BY <1>1 DEF FilledBooks, FilledLog, FilledClosed
<1> QED
  BY <1>1, <1>2 DEF Engine!vars

\* So is the scan.
LEMMA ScanIsStutter ==
  ASSUME BeginScan \/ ScanOne \/ EndScan
  PROVE  UNCHANGED Engine!vars
<1>1. UNCHANGED vars /\ pc # "update" /\ pc' # "update"
  BY DEF BeginScan, ScanOne, EndScan, vars
<1> QED
  BY <1>1, NothingPending, NothingPendingNext DEF vars, Engine!vars

LEMMA LoopStepIsEngineStep ==
  ASSUME LoopInv, LoopInv', [LoopNext]_allVars
  PROVE  [Engine!Next]_(Engine!vars)
<1>1. CASE EnterCall
  BY <1>1, EngineStep DEF EnterCall
<1>2. CASE LeaveCall
  <2>1. Next
    BY <1>2, LeaveIsReturn DEF LoopInv, Next, Advance
  <2> QED
    BY <1>2, <2>1, EngineStep DEF LeaveCall
<1>3. CASE SendTrade
  BY <1>3, TradeIsFill DEF Engine!Next, Engine!Advance
<1>4. CASE SendUpdate
  BY <1>4, UpdateIsStutter
<1>5. CASE BeginScan \/ ScanOne \/ EndScan
  BY <1>5, ScanIsStutter
<1>6. CASE UNCHANGED allVars
  <2>1. FilledBooks' = FilledBooks /\ FilledLog' = FilledLog /\ FilledClosed' = FilledClosed
    BY <1>6 DEF allVars, FilledBooks, FilledLog, FilledClosed, AfterUpdate, UpdateOfResting, Book
  <2> QED
    BY <1>6, <2>1 DEF allVars, Engine!vars
<1> QED
  BY <1>1, <1>2, <1>3, <1>4, <1>5, <1>6 DEF LoopNext, LoopStep

\* The loops as they are written do what MatchingEngine says of them: every
\* behaviour is one of the engine, but for the fairness of ImplementsEngine.
THEOREM LoopsImplementEngine == LoopSpec => Engine!Init /\ [][Engine!Next]_(Engine!vars)
<1>1. LoopInit => Engine!Init
  <2> SUFFICES ASSUME LoopInit PROVE Engine!Init
    OBVIOUS
  <2>1. pc # "update" /\ Init
    BY DEF LoopInit
  <2> QED
    BY <2>1, NothingPending, SameRules DEF Init, Engine!Init, OrderIds, Engine!OrderIds
<1>2. LoopInv /\ LoopInv' /\ [LoopNext]_allVars => [Engine!Next]_(Engine!vars)
  BY LoopStepIsEngineStep
<1> QED
  BY <1>1, <1>2, LoopInvariant, PTL DEF LoopSpec

=============================================================================
