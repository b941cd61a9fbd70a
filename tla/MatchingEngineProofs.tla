------------------------ MODULE MatchingEngineProofs ------------------------
(*****************************************************************************)
(* Theorems about the matching engine, for every set of symbols, prices      *)
(* and quantities and for every bound: its types, that no book is crossed,   *)
(* that every order is accounted for, and that it implements the life of     *)
(* an order.  The proofs about single steps are of two kinds: what a step    *)
(* does to the vectors is reduced to what it does to the sets of ids that    *)
(* rest and that are being matched (StepOfLife), and the invariants are      *)
(* then proved from those sets alone.                                        *)
(*****************************************************************************)
EXTENDS MatchingEngineRefinement, SequenceTheorems, TLAPS

-----------------------------------------------------------------------------
(* Lemmas about the operations the engine performs on a vector of orders.  *)

\* vector::erase: the elements behind position i move up by one.
LEMMA EraseProperties ==
  ASSUME NEW S, NEW s \in Seq(S), NEW i \in DOMAIN s
  PROVE  /\ RemoveAt(s, i) \in Seq(S)
         /\ Len(RemoveAt(s, i)) = Len(s) - 1
         /\ \A j \in 1..Len(s) - 1 : RemoveAt(s, i)[j] = IF j < i THEN s[j] ELSE s[j + 1]
<1> DEFINE head == SubSeq(s, 1, i - 1)
           tail == SubSeq(s, i + 1, Len(s))
<1>1. /\ Len(s) \in Nat
      /\ i \in 1..Len(s)
      /\ \A j \in 1..Len(s) : s[j] \in S
  BY LenProperties, ElementOfSeq
<1>2. /\ head \in Seq(S)
      /\ Len(head) = i - 1
      /\ \A j \in 1..i - 1 : head[j] = s[j]
  <2>1. /\ head \in Seq(S)
        /\ Len(head) = IF 1 <= i - 1 THEN i - 1 - 1 + 1 ELSE 0
        /\ \A j \in 1..i - 1 - 1 + 1 : head[j] = s[1 + j - 1]
    <3>1. \A j \in 1..i - 1 : s[j] \in S
      BY <1>1
    <3> QED
      BY <1>1, <3>1, SubSeqProperties
  <2> QED
    BY <1>1, <2>1
<1>3. /\ tail \in Seq(S)
      /\ Len(tail) = Len(s) - i
      /\ \A j \in 1..Len(s) - i : tail[j] = s[i + j]
  <2>1. /\ tail \in Seq(S)
        /\ Len(tail) = IF i + 1 <= Len(s) THEN Len(s) - (i + 1) + 1 ELSE 0
        /\ \A j \in 1..Len(s) - (i + 1) + 1 : tail[j] = s[i + 1 + j - 1]
    <3>1. \A j \in i + 1..Len(s) : s[j] \in S
      BY <1>1
    <3> QED
      BY <1>1, <3>1, SubSeqProperties
  <2> QED
    BY <1>1, <2>1
<1> DEFINE rest == head \o tail
<1>4. /\ rest \in Seq(S)
      /\ Len(rest) = Len(head) + Len(tail)
      /\ \A j \in 1..Len(head) + Len(tail) :
           rest[j] = IF j <= Len(head) THEN head[j] ELSE tail[j - Len(head)]
  BY <1>2, <1>3, ConcatProperties
<1>5. RemoveAt(s, i) = rest
  BY DEF RemoveAt
<1> HIDE DEF head, tail, rest
<1>6. Len(rest) = Len(s) - 1
  BY <1>1, <1>2, <1>3, <1>4
<1>7. ASSUME NEW j \in 1..Len(s) - 1
      PROVE  rest[j] = IF j < i THEN s[j] ELSE s[j + 1]
  <2>1. rest[j] = IF j <= Len(head) THEN head[j] ELSE tail[j - Len(head)]
    BY <1>1, <1>4, <1>6
  <2>2. CASE j < i
    BY <1>1, <1>2, <2>1, <2>2
  <2>3. CASE j >= i
    <3>1. /\ j - Len(head) \in 1..Len(s) - i
          /\ i + (j - Len(head)) = j + 1
          /\ ~ (j <= Len(head))
          /\ ~ (j < i)
      BY SMTT(40), <1>1, <1>2, <2>3
    <3> QED
      BY <1>3, <2>1, <3>1
  <2> QED
    BY <1>1, <2>2, <2>3
<1> QED
  BY <1>4, <1>5, <1>6, <1>7

\* An assignment to remaining_quantity leaves everything else of the vector.
LEMMA RefillProperties ==
  ASSUME NEW book \in Seq(Orders), NEW i \in DOMAIN book, NEW r \in Nat
  PROVE  LET new == [book EXCEPT ![i].remaining = r]
         IN  /\ new \in Seq(Orders)
             /\ Len(new) = Len(book)
             /\ DOMAIN new = DOMAIN book
             /\ \A j \in DOMAIN book :
                  /\ new[j].id = book[j].id
                  /\ new[j].side = book[j].side
                  /\ new[j].price = book[j].price
                  /\ new[j].remaining = IF j = i THEN r ELSE book[j].remaining
<1> DEFINE e == [book[i] EXCEPT !.remaining = r]
           new == [book EXCEPT ![i] = e]
<1>1. i \in 1..Len(book) /\ DOMAIN book = 1..Len(book)
  BY LenProperties
<1>2. book[i] \in Orders
  BY <1>1, ElementOfSeq
<1>3. /\ e \in Orders
      /\ e.id = book[i].id /\ e.side = book[i].side
      /\ e.price = book[i].price /\ e.remaining = r
  BY <1>2 DEF Orders
<1>4. /\ new \in Seq(Orders)
      /\ Len(new) = Len(book)
      /\ \A j \in 1..Len(book) : new[j] = IF j = i THEN e ELSE book[j]
  BY <1>1, <1>3, ExceptSeq
<1>5. DOMAIN new = DOMAIN book
  BY <1>4, LenProperties
<1>6. new = [book EXCEPT ![i].remaining = r]
  OBVIOUS
<1> HIDE DEF e, new
<1>7. \A j \in DOMAIN book :
        /\ new[j].id = book[j].id
        /\ new[j].side = book[j].side
        /\ new[j].price = book[j].price
        /\ new[j].remaining = IF j = i THEN r ELSE book[j].remaining
  BY <1>1, <1>3, <1>4
<1> QED
  BY <1>4, <1>5, <1>6, <1>7

\* Which ids the callbacks of a step close.
LEMMA TerminalOfNone == TerminalIds(<<>>) = {}
BY DEF TerminalIds

LEMMA TerminalOfUpdate ==
  ASSUME NEW id, NEW status, NEW left
  PROVE  TerminalIds(<<OrderUpdate(id, status, left)>>) =
           IF status \in {"Filled", "Cancelled"} THEN {id} ELSE {}
BY DEF TerminalIds, OrderUpdate

LEMMA TerminalOfFill ==
  ASSUME NEW buy, NEW sell, NEW symbol, NEW price, NEW qty, NEW id, NEW status, NEW left
  PROVE  TerminalIds(<<Trade(buy, sell, symbol, price, qty), OrderUpdate(id, status, left)>>) =
           IF status \in {"Filled", "Cancelled"} THEN {id} ELSE {}
<1> DEFINE t == Trade(buy, sell, symbol, price, qty)
           u == OrderUpdate(id, status, left)
           events == <<t, u>>
<1>1. DOMAIN events = {1, 2} /\ events[1] = t /\ events[2] = u
  OBVIOUS
<1>2. t.event = "Trade" /\ u.event = "OrderUpdate" /\ u.id = id /\ u.status = status
  BY DEF Trade, OrderUpdate
<1> HIDE DEF t, u, events
<1>3. TerminalIds(events) = IF status \in {"Filled", "Cancelled"} THEN {id} ELSE {}
  BY <1>1, <1>2 DEF TerminalIds
<1> QED
  BY <1>3 DEF events, t, u

-----------------------------------------------------------------------------
(* Type correctness.                                                       *)

LEMMA CallTyped ==
  ASSUME TypeOK, call # Idle
  PROVE  /\ call \in Calls
         /\ call.id \in OrderIds /\ call.symbol \in Symbols /\ call.side \in Sides
         /\ call.price \in Int /\ call.quantity \in Nat /\ call.remaining \in Nat
         /\ call.kind \in {"add", "amend"}
BY DEF TypeOK, Calls

LEMMA CallsNotIdle ==
  ASSUME NEW c \in Calls
  PROVE  c # Idle
BY DEF Calls, Idle

LEMMA BookTyped ==
  ASSUME TypeOK, NEW s \in Symbols
  PROVE  /\ books[s] \in Seq(Orders)
         /\ Len(books[s]) \in Nat
         /\ DOMAIN books[s] = 1..Len(books[s])
         /\ \A i \in DOMAIN books[s] :
              /\ books[s][i] \in Orders
              /\ books[s][i].id \in OrderIds /\ books[s][i].side \in Sides
              /\ books[s][i].price \in Int /\ books[s][i].remaining \in Nat
<1>1. books[s] \in Seq(Orders)
  BY DEF TypeOK
<1>2. \A i \in DOMAIN books[s] : books[s][i] \in Orders
  BY <1>1, ElementOfSeq, LenProperties
<1> QED
  BY <1>1, <1>2, LenProperties DEF Orders

\* A fill moves the same number of lots out of the call's order and out of
\* the resting order, which leaves the book if it has none left.
LEMMA FillEffect ==
  ASSUME TypeOK, call # Idle, NEW i \in DOMAIN books[call.symbol], Fill(i)
  PROVE  LET resting == books[call.symbol][i]
             qty == Smaller(call.remaining, resting.remaining)
         IN  /\ qty \in Nat /\ qty <= call.remaining /\ qty <= resting.remaining
             /\ call' = [call EXCEPT !.remaining = call.remaining - qty]
             /\ call' \in Calls
             /\ \A s \in Symbols \ {call.symbol} : books'[s] = books[s]
             /\ books' \in [Symbols -> Seq(Orders)]
             /\ IF qty = resting.remaining
                  THEN /\ books'[call.symbol] = RemoveAt(books[call.symbol], i)
                       /\ closed' = closed \cup {resting.id}
                  ELSE /\ books'[call.symbol] =
                            [books[call.symbol] EXCEPT ![i].remaining = resting.remaining - qty]
                       /\ closed' = closed
<1> DEFINE book == books[call.symbol]
           resting == book[i]
           qty == Smaller(call.remaining, resting.remaining)
           left == resting.remaining - qty
           new == IF left = 0 THEN RemoveAt(book, i) ELSE [book EXCEPT ![i].remaining = left]
           buyId == IF call.side = "Buy" THEN call.id ELSE resting.id
           sellId == IF call.side = "Buy" THEN resting.id ELSE call.id
           status == IF left = 0 THEN "Filled" ELSE "Accepted"
<1>1. /\ call \in Calls /\ call.symbol \in Symbols /\ call.remaining \in Nat
      /\ book \in Seq(Orders) /\ resting \in Orders /\ resting.remaining \in Nat
  BY CallTyped, BookTyped
<1>2. qty \in Nat /\ qty <= call.remaining /\ qty <= resting.remaining /\ left \in Nat
  BY <1>1 DEF Smaller
<1>3. /\ call' = [call EXCEPT !.remaining = call.remaining - qty]
      /\ books' = [books EXCEPT ![call.symbol] = new]
      /\ closed' = closed \cup TerminalIds(
           <<Trade(buyId, sellId, call.symbol, resting.price, qty),
             OrderUpdate(resting.id, status, left)>>)
  BY DEF Fill, CallBack
<1>4. closed' = closed \cup (IF status \in {"Filled", "Cancelled"} THEN {resting.id} ELSE {})
  <2> DEFINE price == resting.price
             id == resting.id
             symbol == call.symbol
  <2>1. closed' = closed \cup TerminalIds(
           <<Trade(buyId, sellId, symbol, price, qty), OrderUpdate(id, status, left)>>)
    BY <1>3
  <2> HIDE DEF status, qty, resting, buyId, sellId, left, price, id, symbol
  <2>2. TerminalIds(<<Trade(buyId, sellId, symbol, price, qty), OrderUpdate(id, status, left)>>)
          = IF status \in {"Filled", "Cancelled"} THEN {id} ELSE {}
    BY TerminalOfFill
  <2>3. closed' = closed \cup (IF status \in {"Filled", "Cancelled"} THEN {id} ELSE {})
    BY <2>1, <2>2
  <2> QED
    BY <2>3 DEF id
<1>5. new \in Seq(Orders)
  <2>1. CASE left = 0
    BY <1>1, <2>1, EraseProperties
  <2>2. CASE left # 0
    BY <1>1, <1>2, <2>2, RefillProperties
  <2> QED
    BY <2>1, <2>2
<1>6. /\ books' \in [Symbols -> Seq(Orders)]
      /\ books'[call.symbol] = new
      /\ \A s \in Symbols \ {call.symbol} : books'[s] = books[s]
  <2> HIDE DEF new
  <2> QED
    BY <1>1, <1>3, <1>5 DEF TypeOK
<1>7. call' \in Calls
  <2>1. call.remaining - qty \in Nat
    BY <1>1, <1>2
  <2> HIDE DEF qty
  <2> QED
    BY <1>1, <1>3, <2>1 DEF Calls
<1>8. left = 0 <=> qty = resting.remaining
  BY <1>1, <1>2
<1>9. CASE left = 0
  BY <1>2, <1>3, <1>4, <1>6, <1>7, <1>8, <1>9
<1>10. CASE left # 0
  BY <1>2, <1>3, <1>4, <1>6, <1>7, <1>8, <1>10
<1> QED
  BY <1>9, <1>10

\* No step takes a variable out of its type.
LEMMA TypeKept ==
  ASSUME TypeOK, [Next]_vars
  PROVE  TypeOK'
<1> USE MaxOrdersAssumption, MaxRanksAssumption, PricesAssumption, QuantitiesAssumption
<1>1. ASSUME NEW symbol \in Symbols \cup {EmptySymbol}, NEW price \in Prices,
             NEW quantity \in Quantities, AddRejected(symbol, price, quantity)
      PROVE  TypeOK'
  BY <1>1, TerminalOfNone DEF TypeOK, AddRejected, BeginCall, KeepRanks
<1>2. ASSUME NEW symbol \in Symbols \cup {EmptySymbol}, NEW price \in Prices,
             NEW quantity \in Quantities, NEW side \in Sides,
             AddOrder(symbol, side, price, quantity)
      PROVE  TypeOK'
  <2>1. nextOrderId \in OrderIds /\ nextOrderId' \in 1..MaxOrders + 1
    BY <1>2 DEF TypeOK, AddOrder, OrderIds
  <2>2. call' \in Calls
    BY <1>2, <2>1 DEF AddOrder, ValidRequest, Calls
  <2>3. rank' \in [OrderIds -> Nat] /\ nextRank' \in Nat
    BY <1>2, <2>1 DEF TypeOK, AddOrder, TakeRank
  <2>4. books' \in [Symbols -> Seq(Orders)] /\ closed' \subseteq OrderIds
    BY <1>2, TerminalOfNone DEF TypeOK, AddOrder, BeginCall
  <2> QED
    BY <2>1, <2>2, <2>3, <2>4 DEF TypeOK
<1>3. ASSUME NEW id \in 0..MaxOrders, CancelMissed(id)
      PROVE  TypeOK'
  BY <1>3, TerminalOfNone DEF TypeOK, CancelMissed, BeginCall, KeepRanks
<1>4. ASSUME NEW id \in 0..MaxOrders, NEW symbol \in Symbols,
             NEW i \in DOMAIN books[symbol], CancelOrder(id, symbol, i)
      PROVE  TypeOK'
  <2>1. books' = [books EXCEPT ![symbol] = RemoveAt(books[symbol], i)]
    BY <1>4 DEF CancelOrder
  <2>2. RemoveAt(books[symbol], i) \in Seq(Orders)
    BY BookTyped, EraseProperties
  <2>3. books' \in [Symbols -> Seq(Orders)]
    BY <2>1, <2>2 DEF TypeOK
  <2>4. id \in OrderIds
    BY <1>4, BookTyped DEF CancelOrder, At
  <2>5. closed' = closed \cup {id}
    BY <1>4, TerminalOfUpdate DEF CancelOrder, BeginCall
  <2> QED
    BY <1>4, <2>3, <2>4, <2>5 DEF TypeOK, CancelOrder, KeepRanks
<1>5. ASSUME NEW id \in 0..MaxOrders, NEW price \in Prices, NEW quantity \in Quantities,
             AmendMissed(id, price, quantity)
      PROVE  TypeOK'
  BY <1>5, TerminalOfNone DEF TypeOK, AmendMissed, BeginCall, KeepRanks
<1>6. ASSUME NEW id \in 0..MaxOrders, NEW price \in Prices, NEW quantity \in Quantities,
             NEW symbol \in Symbols, NEW i \in DOMAIN books[symbol],
             AmendInPlace(id, symbol, i, price, quantity)
      PROVE  TypeOK'
  <2>1. books' = [books EXCEPT ![symbol] = [books[symbol] EXCEPT ![i].remaining = quantity]]
    BY <1>6 DEF AmendInPlace
  <2>2. [books[symbol] EXCEPT ![i].remaining = quantity] \in Seq(Orders)
    BY BookTyped, RefillProperties
  <2>3. books' \in [Symbols -> Seq(Orders)]
    BY <2>1, <2>2 DEF TypeOK
  <2>4. id \in OrderIds
    BY <1>6, BookTyped DEF AmendInPlace, At
  <2>5. rank' \in [OrderIds -> Nat] /\ nextRank' \in Nat
    BY SMTT(40), <1>6, <2>4 DEF TypeOK, AmendInPlace, TakeRank, KeepRanks
  <2> QED
    BY <1>6, <2>3, <2>5, TerminalOfNone DEF TypeOK, AmendInPlace, BeginCall
<1>7. ASSUME NEW id \in 0..MaxOrders, NEW price \in Prices, NEW quantity \in Quantities,
             NEW symbol \in Symbols, NEW i \in DOMAIN books[symbol],
             AmendRematch(id, symbol, i, price, quantity)
      PROVE  TypeOK'
  <2>1. books' = [books EXCEPT ![symbol] = RemoveAt(books[symbol], i)]
    BY <1>7 DEF AmendRematch
  <2>2. RemoveAt(books[symbol], i) \in Seq(Orders)
    BY BookTyped, EraseProperties
  <2>3. books' \in [Symbols -> Seq(Orders)]
    BY <2>1, <2>2 DEF TypeOK
  <2>4. id \in OrderIds /\ books[symbol][i].side \in Sides
    BY <1>7, BookTyped DEF AmendRematch, At
  <2>5. call' \in Calls
    BY <1>7, <2>4 DEF AmendRematch, Calls
  <2>6. rank' \in [OrderIds -> Nat] /\ nextRank' \in Nat
    BY <1>7, <2>4 DEF TypeOK, AmendRematch, TakeRank
  <2> QED
    BY <1>7, <2>3, <2>5, <2>6, TerminalOfNone DEF TypeOK, AmendRematch, BeginCall
<1>8. CASE MatchStep
  <2>1. PICK i \in DOMAIN books[call.symbol] : Fill(i)
    BY <1>8 DEF MatchStep
  <2>2. call # Idle
    BY <1>8 DEF MatchStep
  <2>3. books[call.symbol][i].id \in OrderIds
    BY <2>2, CallTyped, BookTyped
  <2>4. /\ call' \in Calls
        /\ books' \in [Symbols -> Seq(Orders)]
        /\ closed' \subseteq OrderIds
    BY <2>1, <2>2, <2>3, FillEffect DEF TypeOK
  <2> QED
    BY <1>8, <2>4 DEF TypeOK, MatchStep, KeepRanks
<1>9. CASE ReturnFilled
  <2>1. call.id \in OrderIds
    BY <1>9, CallTyped DEF ReturnFilled
  <2>2. closed' = closed \cup {call.id}
    BY <1>9, TerminalOfUpdate DEF ReturnFilled, CallBack
  <2> QED
    BY <1>9, <2>1, <2>2 DEF TypeOK, ReturnFilled, KeepRanks
<1>10. CASE ReturnResting
  <2> DEFINE o == [id |-> call.id, side |-> call.side,
                   price |-> call.price, remaining |-> call.remaining]
  <2>1. books' = [books EXCEPT ![call.symbol] = Append(books[call.symbol], o)]
    BY <1>10 DEF ReturnResting, RestRemainder
  <2>2. o \in Orders /\ call.symbol \in Symbols
    BY <1>10, CallTyped DEF ReturnResting, Orders
  <2> HIDE DEF o
  <2>3. Append(books[call.symbol], o) \in Seq(Orders)
    BY <2>2, BookTyped, AppendProperties
  <2>4. books' \in [Symbols -> Seq(Orders)]
    BY <2>1, <2>2, <2>3 DEF TypeOK
  <2>5. closed' = closed
    <3>1. TerminalIds(<<OrderUpdate(call.id, "Accepted", call.remaining)>>) = {}
      BY TerminalOfUpdate
    <3> QED
      BY <1>10, <3>1, TerminalOfNone DEF ReturnResting, RestRemainder, CallBack
  <2> QED
    BY <1>10, <2>4, <2>5 DEF TypeOK, ReturnResting, RestRemainder, KeepRanks
<1>11. CASE UNCHANGED vars
  BY <1>11 DEF TypeOK, vars
<1> QED
  BY <1>1, <1>2, <1>3, <1>4, <1>5, <1>6, <1>7, <1>8, <1>9, <1>10, <1>11 DEF Next, Advance

LEMMA InitTyped ==
  ASSUME Init
  PROVE  TypeOK
<1>1. books \in [Symbols -> Seq(Orders)]
  BY EmptySeq DEF Init
<1>2. nextOrderId \in 1..MaxOrders + 1
  BY MaxOrdersAssumption DEF Init
<1> QED
  BY <1>1, <1>2 DEF Init, TypeOK

\* Books, ranks, ids and the call keep their types, whatever the requests: no
\* remaining quantity goes below zero.
THEOREM TypeCorrect == Spec => []TypeOK
<1>1. Init => TypeOK
  BY InitTyped
<1>2. TypeOK /\ [Next]_vars => TypeOK'
  BY TypeKept
<1> QED
  BY <1>1, <1>2, PTL DEF Spec

-----------------------------------------------------------------------------
(* A vector that a step only thinned: its elements are elements of the old *)
(* vector, in the old order, f giving the old position of each.            *)

Thins(new, old, f) ==
  /\ f \in [DOMAIN new -> DOMAIN old]
  /\ \A j \in DOMAIN new :
       /\ new[j].id = old[f[j]].id
       /\ new[j].side = old[f[j]].side
       /\ new[j].price = old[f[j]].price
  /\ \A j, k \in DOMAIN new : j < k => f[j] < f[k]

\* Erasing position i keeps every other position, and nothing else.
LEMMA EraseThins ==
  ASSUME NEW book \in Seq(Orders), NEW i \in DOMAIN book
  PROVE  \E f : /\ Thins(RemoveAt(book, i), book, f)
                /\ \A j \in DOMAIN RemoveAt(book, i) :
                     f[j] # i /\ RemoveAt(book, i)[j] = book[f[j]]
                /\ \A k \in DOMAIN book \ {i} : \E j \in DOMAIN RemoveAt(book, i) : f[j] = k
<1> DEFINE new == RemoveAt(book, i)
           f == [j \in DOMAIN new |-> IF j < i THEN j ELSE j + 1]
<1>1. /\ Len(book) \in Nat /\ DOMAIN book = 1..Len(book) /\ i \in 1..Len(book)
      /\ DOMAIN new = 1..Len(book) - 1
      /\ \A j \in 1..Len(book) - 1 : new[j] = IF j < i THEN book[j] ELSE book[j + 1]
  BY EraseProperties, LenProperties
<1> HIDE DEF new
<1>2. \A j \in DOMAIN new : f[j] = IF j < i THEN j ELSE j + 1
  OBVIOUS
<1>3. f \in [DOMAIN new -> DOMAIN book]
  BY <1>1
<1> HIDE DEF f
<1>4. \A j \in DOMAIN new : f[j] # i /\ new[j] = book[f[j]]
  BY <1>1, <1>2
<1>5. \A j, k \in DOMAIN new : j < k => f[j] < f[k]
  BY <1>1, <1>2
<1>6. ASSUME NEW k \in DOMAIN book \ {i}
      PROVE  \E j \in DOMAIN new : f[j] = k
  <2>1. CASE k < i
    BY <1>1, <1>2, <2>1
  <2>2. CASE k > i
    <3>1. k - 1 \in DOMAIN new /\ ~ (k - 1 < i) /\ (k - 1) + 1 = k
      BY <1>1, <2>2
    <3> QED
      BY <1>2, <3>1
  <2> QED
    BY <1>1, <2>1, <2>2
<1>7. Thins(new, book, f)
  BY <1>3, <1>4, <1>5 DEF Thins
<1> QED
  BY <1>4, <1>6, <1>7 DEF new

LEMMA RefillThins ==
  ASSUME NEW book \in Seq(Orders), NEW i \in DOMAIN book, NEW r \in Nat
  PROVE  \E f : Thins([book EXCEPT ![i].remaining = r], book, f)
<1> DEFINE new == [book EXCEPT ![i].remaining = r]
           f == [j \in DOMAIN book |-> j]
<1>1. /\ DOMAIN new = DOMAIN book
      /\ \A j \in DOMAIN book :
           new[j].id = book[j].id /\ new[j].side = book[j].side /\ new[j].price = book[j].price
  BY RefillProperties
<1> HIDE DEF new
<1>2. Thins(new, book, f)
  BY <1>1 DEF Thins
<1> QED
  BY <1>2 DEF new

LEMMA SameThins ==
  ASSUME NEW book
  PROVE  \E f : Thins(book, book, f)
<1>1. Thins(book, book, [j \in DOMAIN book |-> j])
  BY DEF Thins
<1> QED
  BY <1>1

\* Only the return of a call with a remainder puts an order into a book.
LEMMA BooksThin ==
  ASSUME TypeOK, [Next]_vars, ~ ReturnResting
  PROVE  \A s \in Symbols : \E f : Thins(books'[s], books[s], f)
<1> USE QuantitiesAssumption
<1>1. ASSUME UNCHANGED books
      PROVE  \A s \in Symbols : \E f : Thins(books'[s], books[s], f)
  BY <1>1, SameThins
<1>2. ASSUME NEW symbol \in Symbols, NEW i \in DOMAIN books[symbol],
             books' = [books EXCEPT ![symbol] = RemoveAt(books[symbol], i)]
      PROVE  \A s \in Symbols : \E f : Thins(books'[s], books[s], f)
  <2> TAKE s \in Symbols
  <2>1. CASE s = symbol
    <3>1. books'[s] = RemoveAt(books[s], i)
      BY <1>2, <2>1 DEF TypeOK
    <3>2. \E f : Thins(RemoveAt(books[s], i), books[s], f)
      BY <1>2, <2>1, BookTyped, EraseThins
    <3> QED
      BY <3>1, <3>2
  <2>2. CASE s # symbol
    BY <1>2, <2>2, SameThins DEF TypeOK
  <2> QED
    BY <2>1, <2>2
<1>3. ASSUME NEW symbol \in Symbols, NEW i \in DOMAIN books[symbol], NEW r \in Nat,
             books' = [books EXCEPT ![symbol] = [books[symbol] EXCEPT ![i].remaining = r]]
      PROVE  \A s \in Symbols : \E f : Thins(books'[s], books[s], f)
  <2> TAKE s \in Symbols
  <2>1. CASE s = symbol
    <3>1. books'[s] = [books[s] EXCEPT ![i].remaining = r]
      BY <1>3, <2>1 DEF TypeOK
    <3>2. \E f : Thins([books[s] EXCEPT ![i].remaining = r], books[s], f)
      BY <1>3, <2>1, BookTyped, RefillThins
    <3> QED
      BY <3>1, <3>2
  <2>2. CASE s # symbol
    BY <1>3, <2>2, SameThins DEF TypeOK
  <2> QED
    BY <2>1, <2>2
<1>4. CASE MatchStep
  <2>1. PICK i \in DOMAIN books[call.symbol] : Fill(i)
    BY <1>4 DEF MatchStep
  <2> DEFINE resting == books[call.symbol][i]
             left == resting.remaining - Smaller(call.remaining, resting.remaining)
  <2>2. call.symbol \in Symbols /\ call # Idle
    BY <1>4, CallTyped DEF MatchStep
  <2>3. left \in Nat
    <3>1. resting.remaining \in Nat /\ call.remaining \in Nat
      BY <2>2, BookTyped, CallTyped
    <3> QED
      BY <3>1 DEF Smaller
  <2>4. CASE left = 0
    BY <1>2, <2>1, <2>2, <2>4 DEF Fill
  <2>5. CASE left # 0
    <3>1. books' = [books EXCEPT ![call.symbol] = [books[call.symbol] EXCEPT ![i].remaining = left]]
      BY <2>1, <2>5 DEF Fill
    <3> HIDE DEF left
    <3> QED
      BY <1>3, <2>2, <2>3, <3>1
  <2> QED
    BY <2>4, <2>5
<1>5. ASSUME NEW id \in 0..MaxOrders, NEW symbol \in Symbols, NEW i \in DOMAIN books[symbol],
             CancelOrder(id, symbol, i)
      PROVE  \A s \in Symbols : \E f : Thins(books'[s], books[s], f)
  BY <1>2, <1>5 DEF CancelOrder
<1>6. ASSUME NEW id \in 0..MaxOrders, NEW price \in Prices, NEW quantity \in Quantities,
             NEW symbol \in Symbols, NEW i \in DOMAIN books[symbol],
             AmendInPlace(id, symbol, i, price, quantity)
      PROVE  \A s \in Symbols : \E f : Thins(books'[s], books[s], f)
  <2>1. books' = [books EXCEPT ![symbol] = [books[symbol] EXCEPT ![i].remaining = quantity]]
    BY <1>6 DEF AmendInPlace
  <2> QED
    BY <1>3, <2>1
<1>7. ASSUME NEW id \in 0..MaxOrders, NEW price \in Prices, NEW quantity \in Quantities,
             NEW symbol \in Symbols, NEW i \in DOMAIN books[symbol],
             AmendRematch(id, symbol, i, price, quantity)
      PROVE  \A s \in Symbols : \E f : Thins(books'[s], books[s], f)
  BY <1>2, <1>7 DEF AmendRematch
<1> QED
  BY <1>1, <1>4, <1>5, <1>6, <1>7
     DEF Next, Advance, AddRejected, AddOrder, CancelMissed, AmendMissed, ReturnFilled, vars

-----------------------------------------------------------------------------
(* No book is ever crossed.                                                *)

\* Erasing and refilling cannot cross a book, and an order is put into one
\* only when no order of the other side crosses its price.
THEOREM Uncrossed == Spec => []BooksUncrossed
<1>1. Init => BooksUncrossed
  BY DEF Init, BooksUncrossed
<1>2. TypeOK /\ BooksUncrossed /\ [Next]_vars => BooksUncrossed'
  <2> SUFFICES ASSUME TypeOK, BooksUncrossed, [Next]_vars
               PROVE  BooksUncrossed'
    OBVIOUS
  <2>1. CASE ReturnResting
    <3> DEFINE o == [id |-> call.id, side |-> call.side,
                     price |-> call.price, remaining |-> call.remaining]
               book == books[call.symbol]
    <3>1. /\ call.symbol \in Symbols /\ o \in Orders /\ o.side = call.side
          /\ o.price = call.price /\ o.price \in Int /\ o.side \in Sides
      BY <2>1, CallTyped DEF ReturnResting, Orders
    <3>2. /\ books' = [books EXCEPT ![call.symbol] = Append(book, o)]
          /\ NoneCrosses(book, call.side, call.price)
      BY <2>1 DEF ReturnResting, RestRemainder
    <3>3. /\ \A s \in Symbols \ {call.symbol} : books'[s] = books[s]
          /\ books'[call.symbol] = Append(book, o)
      BY <3>1, <3>2 DEF TypeOK
    <3> HIDE DEF o
    <3>4. /\ DOMAIN Append(book, o) = 1..Len(book) + 1
          /\ Append(book, o)[Len(book) + 1] = o
          /\ \A j \in 1..Len(book) : Append(book, o)[j] = book[j]
      BY <3>1, BookTyped, AppendProperties, LenProperties
    <3>5. /\ Len(book) \in Nat /\ DOMAIN book = 1..Len(book)
          /\ \A j \in DOMAIN book : book[j].price \in Int
      BY <3>1, BookTyped
    <3>6. ASSUME NEW i \in DOMAIN Append(book, o), NEW j \in DOMAIN Append(book, o),
                 Append(book, o)[i].side = "Buy", Append(book, o)[j].side = "Sell"
          PROVE  Append(book, o)[i].price < Append(book, o)[j].price
      <4>1. CASE i \in DOMAIN book /\ j \in DOMAIN book
        BY <3>1, <3>4, <3>5, <3>6, <4>1 DEF BooksUncrossed
      <4>2. CASE i = Len(book) + 1 /\ j \in DOMAIN book
        BY SMTT(40), <3>1, <3>2, <3>4, <3>5, <3>6, <4>2 DEF NoneCrosses, Crosses
      <4>3. CASE i \in DOMAIN book /\ j = Len(book) + 1
        BY SMTT(40), <3>1, <3>2, <3>4, <3>5, <3>6, <4>3 DEF NoneCrosses, Crosses
      <4>4. ~ (i = Len(book) + 1 /\ j = Len(book) + 1)
        BY <3>6
      <4>5. /\ i \in DOMAIN book \/ i = Len(book) + 1
            /\ j \in DOMAIN book \/ j = Len(book) + 1
        BY <3>4, <3>5, <3>6
      <4> QED
        BY <4>1, <4>2, <4>3, <4>4, <4>5
    <3> QED
      BY ZenonT(40), <3>3, <3>6 DEF BooksUncrossed
  <2>2. CASE ~ ReturnResting
    <3> SUFFICES ASSUME NEW s \in Symbols, NEW i \in DOMAIN books'[s], NEW j \in DOMAIN books'[s],
                        books'[s][i].side = "Buy", books'[s][j].side = "Sell"
                 PROVE  books'[s][i].price < books'[s][j].price
      BY DEF BooksUncrossed
    <3>1. PICK f : Thins(books'[s], books[s], f)
      BY <2>2, BooksThin
    <3> QED
      BY <3>1 DEF Thins, BooksUncrossed
  <2> QED
    BY <2>1, <2>2
<1> QED
  BY <1>1, <1>2, TypeCorrect, PTL DEF Spec

-----------------------------------------------------------------------------
(* What the operations on vectors do to the set of resting ids.            *)

\* An id is at most once in all books.
IdsDistinct ==
  \A s, t \in Symbols : \A i \in DOMAIN books[s], j \in DOMAIN books[t] :
    books[s][i].id = books[t][j].id => s = t /\ i = j

\* The order being matched is in no book, and every id was handed out before.
Placed ==
  /\ IdsDistinct
  /\ RestingIds \cap CallIds = {}
  /\ RestingIds \cup CallIds \subseteq 1..nextOrderId - 1

LEMMA RestingAt ==
  ASSUME TypeOK, NEW id
  PROVE  id \in RestingIds <=>
           \E s \in Symbols : \E i \in DOMAIN books[s] : books[s][i].id = id
BY BookTyped DEF RestingIds, Resting, At

LEMMA RestingAtNext ==
  ASSUME TypeOK', NEW id
  PROVE  id \in RestingIds' <=>
           \E s \in Symbols : \E i \in DOMAIN books'[s] : books'[s][i].id = id
<1>1. \A s \in Symbols : \A i \in DOMAIN books'[s] : books'[s][i].id \in OrderIds
  <2> TAKE s \in Symbols
  <2>1. books'[s] \in Seq(Orders)
    BY DEF TypeOK
  <2>2. \A i \in DOMAIN books'[s] : books'[s][i] \in Orders
    BY <2>1, ElementOfSeq, LenProperties
  <2> QED
    BY <2>2 DEF Orders
<1> QED
  BY <1>1 DEF RestingIds, Resting, At

\* Erasing an order takes its id, and no other, out of the books.
LEMMA RestingAfterErase ==
  ASSUME TypeOK, TypeOK', IdsDistinct,
         NEW symbol \in Symbols, NEW i \in DOMAIN books[symbol],
         books' = [books EXCEPT ![symbol] = RemoveAt(books[symbol], i)]
  PROVE  RestingIds' = RestingIds \ {books[symbol][i].id}
<1> DEFINE book == books[symbol]
           new == RemoveAt(book, i)
           gone == book[i].id
<1>1. PICK f : /\ Thins(new, book, f)
               /\ \A j \in DOMAIN new : f[j] # i /\ new[j] = book[f[j]]
               /\ \A k \in DOMAIN book \ {i} : \E j \in DOMAIN new : f[j] = k
  <2>1. book \in Seq(Orders) /\ i \in DOMAIN book
    BY BookTyped
  <2> HIDE DEF book
  <2> QED
    BY <2>1, EraseThins
<1>2. books'[symbol] = new /\ \A s \in Symbols \ {symbol} : books'[s] = books[s]
  BY DEF TypeOK
<1>3. \A j \in DOMAIN new : f[j] \in DOMAIN book
  BY <1>1 DEF Thins
<1> HIDE DEF new
<1>4. ASSUME NEW id \in RestingIds'
      PROVE  id \in RestingIds /\ id # gone
  <2>1. PICK s \in Symbols : \E j \in DOMAIN books'[s] : books'[s][j].id = id
    BY <1>4, RestingAtNext
  <2>2. PICK j \in DOMAIN books'[s] : books'[s][j].id = id
    BY <2>1
  <2>3. CASE s = symbol
    <3>1. f[j] \in DOMAIN book /\ book[f[j]].id = id /\ f[j] # i
      BY <1>1, <1>2, <1>3, <2>2, <2>3
    <3> QED
      BY <3>1, RestingAt DEF IdsDistinct
  <2>4. CASE s # symbol
    BY <1>2, <2>2, <2>4, RestingAt DEF IdsDistinct
  <2> QED
    BY <2>3, <2>4
<1>5. ASSUME NEW id \in RestingIds, id # gone
      PROVE  id \in RestingIds'
  <2>1. PICK s \in Symbols : \E j \in DOMAIN books[s] : books[s][j].id = id
    BY <1>5, RestingAt
  <2>2. PICK j \in DOMAIN books[s] : books[s][j].id = id
    BY <2>1
  <2>3. CASE s = symbol
    <3>1. j \in DOMAIN book \ {i}
      BY <1>5, <2>2, <2>3
    <3>2. PICK k \in DOMAIN new : f[k] = j
      BY <1>1, <3>1
    <3>3. new[k].id = id
      BY <1>1, <2>2, <2>3, <3>2
    <3> QED
      BY <1>2, <3>3, RestingAtNext
  <2>4. CASE s # symbol
    BY <1>2, <2>2, <2>4, RestingAtNext
  <2> QED
    BY <2>3, <2>4
<1> QED
  BY <1>4, <1>5

\* Changing what is left of an order does not move any.
LEMMA RestingAfterRefill ==
  ASSUME TypeOK, TypeOK', NEW symbol \in Symbols, NEW i \in DOMAIN books[symbol], NEW r \in Nat,
         books' = [books EXCEPT ![symbol] = [books[symbol] EXCEPT ![i].remaining = r]]
  PROVE  RestingIds' = RestingIds
<1>1. \A s \in Symbols : /\ DOMAIN books'[s] = DOMAIN books[s]
                         /\ \A j \in DOMAIN books[s] : books'[s][j].id = books[s][j].id
  <2> TAKE s \in Symbols
  <2>1. CASE s = symbol
    <3>1. books'[s] = [books[s] EXCEPT ![i].remaining = r]
      BY <2>1 DEF TypeOK
    <3> QED
      BY <2>1, <3>1, BookTyped, RefillProperties
  <2>2. CASE s # symbol
    BY <2>2 DEF TypeOK
  <2> QED
    BY <2>1, <2>2
<1>2. \A id : id \in RestingIds' <=> id \in RestingIds
  BY <1>1, RestingAt, RestingAtNext
<1> QED
  BY <1>2

\* push_back puts one id into the books.
LEMMA RestingAfterAppend ==
  ASSUME TypeOK, TypeOK', NEW symbol \in Symbols, NEW o \in Orders,
         books' = [books EXCEPT ![symbol] = Append(books[symbol], o)]
  PROVE  RestingIds' = RestingIds \cup {o.id}
<1>1. /\ books'[symbol] = Append(books[symbol], o)
      /\ \A s \in Symbols \ {symbol} : books'[s] = books[s]
  BY DEF TypeOK
<1>2. /\ Len(books[symbol]) \in Nat
      /\ DOMAIN books[symbol] = 1..Len(books[symbol])
      /\ DOMAIN books'[symbol] = 1..Len(books[symbol]) + 1
      /\ books'[symbol][Len(books[symbol]) + 1] = o
      /\ \A j \in 1..Len(books[symbol]) : books'[symbol][j] = books[symbol][j]
  BY <1>1, BookTyped, AppendProperties, LenProperties
<1>3. ASSUME NEW id \in RestingIds'
      PROVE  id \in RestingIds \/ id = o.id
  <2>1. PICK s \in Symbols : \E j \in DOMAIN books'[s] : books'[s][j].id = id
    BY <1>3, RestingAtNext
  <2>2. PICK j \in DOMAIN books'[s] : books'[s][j].id = id
    BY <2>1
  <2>3. CASE s = symbol
    BY <1>2, <2>2, <2>3, RestingAt
  <2>4. CASE s # symbol
    BY <1>1, <2>2, <2>4, RestingAt
  <2> QED
    BY <2>3, <2>4
<1>4. ASSUME NEW id \in RestingIds
      PROVE  id \in RestingIds'
  <2>1. PICK s \in Symbols : \E j \in DOMAIN books[s] : books[s][j].id = id
    BY <1>4, RestingAt
  <2>2. PICK j \in DOMAIN books[s] : books[s][j].id = id
    BY <2>1
  <2>3. CASE s = symbol
    <3>1. j \in DOMAIN books'[s] /\ books'[s][j].id = id
      BY <1>2, <2>2, <2>3
    <3> QED
      BY <3>1, RestingAtNext
  <2>4. CASE s # symbol
    BY <1>1, <2>2, <2>4, RestingAtNext
  <2> QED
    BY <2>3, <2>4
<1>5. o.id \in RestingIds'
  <2>1. Len(books[symbol]) + 1 \in DOMAIN books'[symbol]
    BY <1>2
  <2> QED
    BY <1>2, <2>1, RestingAtNext
<1> QED
  BY <1>3, <1>4, <1>5

\* No step puts an id into the books twice.
LEMMA DistinctKept ==
  ASSUME TypeOK, TypeOK', Placed, [Next]_vars
  PROVE  IdsDistinct'
<1> SUFFICES ASSUME NEW s \in Symbols, NEW t \in Symbols,
                    NEW i \in DOMAIN books'[s], NEW j \in DOMAIN books'[t],
                    books'[s][i].id = books'[t][j].id
             PROVE  s = t /\ i = j
  BY DEF IdsDistinct
<1>1. CASE ~ ReturnResting
  <2>1. PICK f : Thins(books'[s], books[s], f)
    BY <1>1, BooksThin
  <2>2. PICK g : Thins(books'[t], books[t], g)
    BY <1>1, BooksThin
  <2>3. /\ f[i] \in DOMAIN books[s] /\ books[s][f[i]].id = books'[s][i].id
        /\ g[j] \in DOMAIN books[t] /\ books[t][g[j]].id = books'[t][j].id
    BY <2>1, <2>2 DEF Thins
  <2>4. s = t
    BY <2>3 DEF Placed, IdsDistinct
  <2>5. f[j] \in DOMAIN books[s] /\ books[s][f[j]].id = books'[s][j].id
    BY <2>1, <2>4 DEF Thins
  <2>6. f[i] = f[j]
    BY <2>3, <2>4, <2>5 DEF Placed, IdsDistinct
  <2>7. /\ i \in Int /\ j \in Int /\ f[i] \in Int
        /\ i < j => f[i] < f[j]
        /\ j < i => f[j] < f[i]
    <3>1. books'[s] \in Seq(Orders)
      BY DEF TypeOK
    <3>2. DOMAIN books'[s] = 1..Len(books'[s]) /\ DOMAIN books[s] = 1..Len(books[s])
      BY <3>1, BookTyped, LenProperties
    <3> QED
      BY <2>1, <2>3, <2>4, <3>2 DEF Thins
  <2> QED
    BY <2>4, <2>6, <2>7
<1>2. CASE ReturnResting
  <2> DEFINE o == [id |-> call.id, side |-> call.side,
                   price |-> call.price, remaining |-> call.remaining]
             book == books[call.symbol]
  <2>1. call.symbol \in Symbols /\ o \in Orders /\ o.id = call.id /\ call # Idle
    BY <1>2, CallTyped DEF ReturnResting, Orders
  <2>2. books' = [books EXCEPT ![call.symbol] = Append(book, o)]
    BY <1>2 DEF ReturnResting, RestRemainder
  <2> HIDE DEF o
  <2>3. /\ \A u \in Symbols \ {call.symbol} : books'[u] = books[u]
        /\ books'[call.symbol] = Append(book, o)
    BY <2>1, <2>2 DEF TypeOK
  <2>4. /\ Len(book) \in Nat /\ DOMAIN book = 1..Len(book)
        /\ DOMAIN Append(book, o) = 1..Len(book) + 1
        /\ Append(book, o)[Len(book) + 1] = o
        /\ \A k \in 1..Len(book) : Append(book, o)[k] = book[k]
    BY <2>1, BookTyped, AppendProperties, LenProperties
  <2>5. \A u \in Symbols : \A k \in DOMAIN books[u] : books[u][k].id # call.id
    <3>1. call.id \notin RestingIds
      BY <2>1 DEF Placed, CallIds
    <3> QED
      BY <3>1, RestingAt
  <2>6. \A u \in Symbols : \A k \in DOMAIN books'[u] :
          \/ k \in DOMAIN books[u] /\ books'[u][k].id = books[u][k].id
          \/ u = call.symbol /\ k = Len(book) + 1 /\ books'[u][k].id = call.id
    BY SMTT(40), <2>1, <2>3, <2>4
  <2> QED
    BY <2>5, <2>6 DEF Placed, IdsDistinct
<1> QED
  BY <1>1, <1>2

-----------------------------------------------------------------------------
(* Every step of the engine is a step of OrderLife, or none.               *)

\* What a call that neither starts nor ends matching leaves alone.
LEMMA SameBooksSameIds ==
  ASSUME UNCHANGED books
  PROVE  RestingIds' = RestingIds
BY DEF RestingIds, Resting, At

LEMMA StepOfLife ==
  ASSUME TypeOK, TypeOK', Placed, [Next]_vars
  PROVE  [Life!Next]_(Life!vars)
<1> USE QuantitiesAssumption
<1>1. ASSUME UNCHANGED <<books, call, nextOrderId, rank, nextRank, closed>>
      PROVE  UNCHANGED Life!vars
  BY <1>1, SameBooksSameIds DEF Life!vars, CallIds
<1>2. ASSUME NEW symbol \in Symbols \cup {EmptySymbol}, NEW price \in Prices,
             NEW quantity \in Quantities, AddRejected(symbol, price, quantity)
      PROVE  UNCHANGED Life!vars
  BY <1>1, <1>2, TerminalOfNone DEF AddRejected, BeginCall, KeepRanks
<1>3. ASSUME NEW symbol \in Symbols \cup {EmptySymbol}, NEW price \in Prices,
             NEW quantity \in Quantities, NEW side \in Sides,
             AddOrder(symbol, side, price, quantity)
      PROVE  Life!Arrive
  <2>1. RestingIds' = RestingIds /\ closed' = closed
    BY <1>3, SameBooksSameIds, TerminalOfNone DEF AddOrder, BeginCall
  <2>2. CallIds = {} /\ CallIds' = {nextOrderId}
    BY <1>3 DEF AddOrder, BeginCall, CallIds, Idle
  <2> QED
    BY <1>3, <2>1, <2>2 DEF AddOrder, TakeRank, Life!Arrive, Life!Enter
<1>4. ASSUME NEW id \in 0..MaxOrders, CancelMissed(id)
      PROVE  UNCHANGED Life!vars
  BY <1>1, <1>4, TerminalOfNone DEF CancelMissed, BeginCall, KeepRanks
<1>5. ASSUME NEW id \in 0..MaxOrders, NEW symbol \in Symbols,
             NEW i \in DOMAIN books[symbol], CancelOrder(id, symbol, i)
      PROVE  id \in RestingIds /\ Life!Close(id)
  <2>1. /\ id = books[symbol][i].id
        /\ books' = [books EXCEPT ![symbol] = RemoveAt(books[symbol], i)]
    BY <1>5 DEF CancelOrder, At
  <2>2. id \in RestingIds
    BY <2>1, RestingAt
  <2>3. RestingIds' = RestingIds \ {id}
    BY <2>1, RestingAfterErase DEF Placed
  <2>4. CallIds = {} /\ CallIds' = {}
    BY <1>5 DEF CancelOrder, BeginCall, CallIds
  <2>5. closed' = closed \cup {id}
    BY <1>5, TerminalOfUpdate DEF CancelOrder, BeginCall
  <2> QED
    BY <1>5, <2>2, <2>3, <2>4, <2>5 DEF CancelOrder, KeepRanks, Life!Close
<1>6. ASSUME NEW id \in 0..MaxOrders, NEW price \in Prices, NEW quantity \in Quantities,
             AmendMissed(id, price, quantity)
      PROVE  UNCHANGED Life!vars
  BY <1>1, <1>6, TerminalOfNone DEF AmendMissed, BeginCall, KeepRanks
<1>7. ASSUME NEW id \in 0..MaxOrders, NEW price \in Prices, NEW quantity \in Quantities,
             NEW symbol \in Symbols, NEW i \in DOMAIN books[symbol],
             AmendInPlace(id, symbol, i, price, quantity)
      PROVE  UNCHANGED Life!vars
  <2>1. books' = [books EXCEPT ![symbol] = [books[symbol] EXCEPT ![i].remaining = quantity]]
    BY <1>7 DEF AmendInPlace
  <2>2. RestingIds' = RestingIds
    BY <2>1, RestingAfterRefill
  <2>3. UNCHANGED <<rank, nextRank>>
    <3>1. /\ price = books[symbol][i].price
          /\ quantity <= books[symbol][i].remaining
          /\ books[symbol][i].remaining \in Nat /\ quantity \in Nat
      BY <1>7, BookTyped DEF AmendInPlace, KeepsPriority
    <3>2. ~ (price # books[symbol][i].price \/ quantity > books[symbol][i].remaining)
      BY <3>1
    <3> QED
      BY <1>7, <3>2 DEF AmendInPlace, KeepRanks
  <2>4. closed' = closed /\ CallIds' = CallIds /\ nextOrderId' = nextOrderId
    BY <1>7, TerminalOfNone DEF AmendInPlace, BeginCall, CallIds
  <2> QED
    BY <2>2, <2>3, <2>4 DEF Life!vars
<1>8. ASSUME NEW id \in 0..MaxOrders, NEW price \in Prices, NEW quantity \in Quantities,
             NEW symbol \in Symbols, NEW i \in DOMAIN books[symbol],
             AmendRematch(id, symbol, i, price, quantity)
      PROVE  id \in RestingIds /\ Life!Reenter(id)
  <2>1. /\ id = books[symbol][i].id
        /\ books' = [books EXCEPT ![symbol] = RemoveAt(books[symbol], i)]
    BY <1>8 DEF AmendRematch, At
  <2>2. id \in RestingIds
    BY <2>1, RestingAt
  <2>3. RestingIds' = RestingIds \ {id}
    BY <2>1, RestingAfterErase DEF Placed
  <2>4. CallIds = {} /\ CallIds' = {id}
    BY <1>8 DEF AmendRematch, BeginCall, CallIds, Idle
  <2>5. closed' = closed
    BY <1>8, TerminalOfNone DEF AmendRematch, BeginCall
  <2> QED
    BY <1>8, <2>2, <2>3, <2>4, <2>5 DEF AmendRematch, TakeRank, Life!Reenter, Life!Enter
<1>9. CASE MatchStep
  <2>1. PICK i \in DOMAIN books[call.symbol] : Fill(i)
    BY <1>9 DEF MatchStep
  <2> DEFINE resting == books[call.symbol][i]
             qty == Smaller(call.remaining, resting.remaining)
  <2>2. call # Idle /\ call.symbol \in Symbols
    BY <1>9, CallTyped DEF MatchStep
  <2>3. /\ qty \in Nat /\ qty <= resting.remaining
        /\ call' = [call EXCEPT !.remaining = call.remaining - qty]
        /\ call' \in Calls
        /\ IF qty = resting.remaining
             THEN /\ books'[call.symbol] = RemoveAt(books[call.symbol], i)
                  /\ closed' = closed \cup {resting.id}
             ELSE /\ books'[call.symbol] =
                       [books[call.symbol] EXCEPT ![i].remaining = resting.remaining - qty]
                  /\ closed' = closed
    BY <2>1, <2>2, FillEffect
  <2>4. books' = [books EXCEPT ![call.symbol] = books'[call.symbol]]
    BY <2>1, <2>2 DEF Fill, TypeOK
  <2>5. CallIds = {call.id} /\ CallIds' = {call.id}
    <3>1. call' # Idle
      BY <2>3, CallsNotIdle
    <3>2. call'.id = call.id
      BY <2>2, <2>3, CallTyped DEF Calls
    <3> QED
      BY <2>2, <3>1, <3>2 DEF CallIds
  <2>6. resting.id \in RestingIds /\ resting.id # call.id
    <3>1. resting.id \in RestingIds
      BY <2>2, RestingAt
    <3> QED
      BY <2>5, <3>1 DEF Placed
  <2>7. UNCHANGED <<nextOrderId, rank, nextRank>>
    BY <1>9 DEF MatchStep, KeepRanks
  <2>8. CASE qty = resting.remaining
    <3>1. RestingIds' = RestingIds \ {resting.id}
      BY <2>2, <2>3, <2>4, <2>8, RestingAfterErase DEF Placed
    <3>2. Life!Close(resting.id)
      BY <2>3, <2>5, <2>6, <2>7, <2>8, <3>1 DEF Life!Close
    <3> QED
      BY <2>6, <3>2 DEF Life!Next
  <2>9. CASE qty # resting.remaining
    <3> DEFINE left == resting.remaining - qty
    <3>1. left \in Nat
      <4>1. resting.remaining \in Nat
        BY <2>2, BookTyped
      <4> QED
        BY <2>3, <4>1
    <3>2. books' = [books EXCEPT ![call.symbol] = [books[call.symbol] EXCEPT ![i].remaining = left]]
      BY <2>3, <2>4, <2>9
    <3> HIDE DEF left
    <3>3. RestingIds' = RestingIds
      BY <2>2, <3>1, <3>2, RestingAfterRefill
    <3> QED
      BY <2>3, <2>5, <2>7, <2>9, <3>3 DEF Life!vars
  <2> QED
    BY <2>8, <2>9
<1>10. CASE ReturnFilled
  <2>1. RestingIds' = RestingIds
    BY <1>10, SameBooksSameIds DEF ReturnFilled
  <2>2. CallIds = {call.id} /\ CallIds' = {} /\ call.id \notin RestingIds
    BY <1>10 DEF ReturnFilled, CallIds, Placed
  <2>3. closed' = closed \cup {call.id}
    BY <1>10, TerminalOfUpdate DEF ReturnFilled, CallBack
  <2>4. Life!Close(call.id)
    BY <1>10, <2>1, <2>2, <2>3 DEF ReturnFilled, KeepRanks, Life!Close
  <2> QED
    BY <2>2, <2>4 DEF Life!Next
<1>11. CASE ReturnResting
  <2> DEFINE o == [id |-> call.id, side |-> call.side,
                   price |-> call.price, remaining |-> call.remaining]
  <2>1. call.symbol \in Symbols /\ o \in Orders /\ o.id = call.id
    BY <1>11, CallTyped DEF ReturnResting, Orders
  <2>2. books' = [books EXCEPT ![call.symbol] = Append(books[call.symbol], o)]
    BY <1>11 DEF ReturnResting, RestRemainder
  <2> HIDE DEF o
  <2>3. RestingIds' = RestingIds \cup {call.id}
    BY <2>1, <2>2, RestingAfterAppend
  <2>4. CallIds = {call.id} /\ CallIds' = {}
    BY <1>11 DEF ReturnResting, RestRemainder, CallIds
  <2>5. closed' = closed
    <3>1. TerminalIds(<<OrderUpdate(call.id, "Accepted", call.remaining)>>) = {}
      BY TerminalOfUpdate
    <3> QED
      BY <1>11, <3>1, TerminalOfNone DEF ReturnResting, RestRemainder, CallBack
  <2>6. Life!Rest
    BY <1>11, <2>3, <2>4, <2>5 DEF ReturnResting, RestRemainder, KeepRanks, Life!Rest
  <2> QED
    BY <2>6 DEF Life!Next
<1>12. CASE UNCHANGED vars
  BY <1>1, <1>12 DEF vars
<1> QED
  BY <1>2, <1>3, <1>4, <1>5, <1>6, <1>7, <1>8, <1>9, <1>10, <1>11, <1>12
     DEF Next, Advance, Life!Next

-----------------------------------------------------------------------------
(* The invariants, from the steps of OrderLife.                            *)

LEMMA PlacedKept ==
  ASSUME TypeOK, TypeOK', Placed, [Next]_vars
  PROVE  Placed'
<1>1. [Life!Next]_(Life!vars)
  BY StepOfLife
<1>2. IdsDistinct'
  BY DistinctKept
<1>3. nextOrderId \in Nat /\ nextOrderId >= 1
  BY MaxOrdersAssumption DEF TypeOK
<1> DEFINE Sets == /\ RestingIds \cap CallIds = {}
                   /\ RestingIds \cup CallIds \subseteq 1..nextOrderId - 1
<1>4. Sets
  BY DEF Placed
<1>5. Sets'
  <2>1. CASE Life!Arrive
    BY <1>3, <1>4, <2>1 DEF Life!Arrive, Life!Enter
  <2>2. CASE Life!Rest
    BY <1>4, <2>2 DEF Life!Rest
  <2>3. ASSUME NEW id \in RestingIds, Life!Reenter(id)
        PROVE  Sets'
    BY <1>4, <2>3 DEF Life!Reenter, Life!Enter
  <2>4. ASSUME NEW id \in RestingIds \cup CallIds, Life!Close(id)
        PROVE  Sets'
    BY <1>4, <2>4 DEF Life!Close
  <2>5. CASE UNCHANGED Life!vars
    BY <1>4, <2>5 DEF Life!vars
  <2> QED
    BY <1>1, <2>1, <2>2, <2>3, <2>4, <2>5 DEF Life!Next
<1> QED
  BY <1>2, <1>5 DEF Placed

LEMMA NothingRestsAtFirst ==
  ASSUME Init
  PROVE  RestingIds = {} /\ CallIds = {}
BY DEF Init, RestingIds, Resting, At, CallIds

\* An order is never in two places: not at two positions of the books, and not
\* in a book while it is matched.
THEOREM OrdersPlaced == Spec => []Placed
<1>1. Init => Placed
  BY NothingRestsAtFirst DEF Init, Placed, IdsDistinct
<1>2. TypeOK /\ TypeOK' /\ Placed /\ [Next]_vars => Placed'
  BY PlacedKept
<1> QED
  BY <1>1, <1>2, TypeCorrect, PTL DEF Spec

\* The engine implements the life of an order: each of its steps is one of
\* OrderLife's, or changes nothing of it.
THEOREM LifeImplemented == Spec => ImplementsOrderLife
<1>1. Init => Life!Init
  BY NothingRestsAtFirst DEF Init, Life!Init, OrderIds
<1>2. TypeOK /\ TypeOK' /\ Placed /\ [Next]_vars => [Life!Next]_(Life!vars)
  BY StepOfLife
<1> QED
  BY <1>1, <1>2, TypeCorrect, OrdersPlaced, PTL DEF Spec, ImplementsOrderLife, Life!Spec

-----------------------------------------------------------------------------
(* Time priority.                                                          *)

\* Ranks were handed out; what is matched has the latest; and in each book
\* they follow the positions.
Ranked ==
  /\ \A o \in RestingIds : rank[o] < nextRank
  /\ \A c \in CallIds : rank[c] < nextRank /\ \A o \in RestingIds : rank[o] < rank[c]
  /\ PositionIsTimePriority

\* A new time priority goes only to an order that is in no book.
LEMMA RestingRanksKept ==
  ASSUME TypeOK, TypeOK', Placed, [Next]_vars, NEW o \in RestingIds', o \in RestingIds
  PROVE  rank'[o] = rank[o]
<1>1. [Life!Next]_(Life!vars)
  BY StepOfLife
<1>2. o \in OrderIds
  BY DEF RestingIds
<1>3. rank \in [OrderIds -> Nat] /\ nextOrderId \in Int /\ o < nextOrderId
  BY MaxOrdersAssumption DEF TypeOK, Placed
<1>4. CASE Life!Arrive
  BY <1>2, <1>3, <1>4 DEF Life!Arrive, Life!Enter
<1>5. ASSUME NEW id \in RestingIds, Life!Reenter(id)
      PROVE  rank'[o] = rank[o]
  BY <1>2, <1>3, <1>5 DEF Life!Reenter, Life!Enter
<1> QED
  BY <1>1, <1>4, <1>5 DEF Life!Next, Life!Rest, Life!Close, Life!vars

LEMMA SetsRankedKept ==
  ASSUME TypeOK, TypeOK', Placed, Ranked, [Next]_vars
  PROVE  /\ \A o \in RestingIds' : rank'[o] < nextRank'
         /\ \A c \in CallIds' : /\ rank'[c] < nextRank'
                               /\ \A o \in RestingIds' : rank'[o] < rank'[c]
<1> DEFINE SetsRanked ==
      /\ \A o \in RestingIds : rank[o] < nextRank
      /\ \A c \in CallIds : rank[c] < nextRank /\ \A o \in RestingIds : rank[o] < rank[c]
<1> SUFFICES SetsRanked'
  OBVIOUS
<1>1. [Life!Next]_(Life!vars)
  BY StepOfLife
<1>2. SetsRanked
  BY DEF Ranked
<1>3. /\ rank \in [OrderIds -> Nat] /\ nextRank \in Nat
      /\ nextOrderId \in Nat /\ nextOrderId >= 1
      /\ RestingIds \subseteq OrderIds
      /\ \A o \in RestingIds : o < nextOrderId
      /\ CallIds \subseteq OrderIds
  BY SMTT(40), MaxOrdersAssumption, CallTyped DEF TypeOK, Placed, RestingIds, CallIds
<1>4. CASE Life!Arrive
  <2>1. nextOrderId \in OrderIds
    BY <1>3, <1>4, MaxOrdersAssumption DEF Life!Arrive, OrderIds
  <2>2. /\ RestingIds' = RestingIds /\ CallIds' = {nextOrderId}
        /\ rank' = [rank EXCEPT ![nextOrderId] = nextRank] /\ nextRank' = nextRank + 1
    BY <1>4 DEF Life!Arrive, Life!Enter
  <2>3. \A o \in RestingIds : rank'[o] = rank[o] /\ rank[o] \in Nat
    BY <1>3, <2>2
  <2>4. rank'[nextOrderId] = nextRank
    BY <1>3, <2>1, <2>2
  <2> QED
    BY <1>2, <1>3, <2>2, <2>3, <2>4
<1>5. CASE Life!Rest
  BY <1>2, <1>5 DEF Life!Rest
<1>6. ASSUME NEW id \in RestingIds, Life!Reenter(id)
      PROVE  SetsRanked'
  <2>1. /\ RestingIds' = RestingIds \ {id} /\ CallIds' = {id}
        /\ rank' = [rank EXCEPT ![id] = nextRank] /\ nextRank' = nextRank + 1
    BY <1>6 DEF Life!Reenter, Life!Enter
  <2>2. \A o \in RestingIds' : rank'[o] = rank[o] /\ rank[o] \in Nat
    BY <1>3, <2>1
  <2>3. rank'[id] = nextRank
    BY <1>3, <2>1
  <2> QED
    BY <1>2, <1>3, <2>1, <2>2, <2>3
<1>7. ASSUME NEW id \in RestingIds \cup CallIds, Life!Close(id)
      PROVE  SetsRanked'
  BY <1>2, <1>7 DEF Life!Close
<1>8. CASE UNCHANGED Life!vars
  BY <1>2, <1>8 DEF Life!vars
<1> QED
  BY <1>1, <1>4, <1>5, <1>6, <1>7, <1>8 DEF Life!Next

\* Thinning keeps the order of positions; push_back adds the latest rank.
LEMMA PositionsRankedKept ==
  ASSUME TypeOK, TypeOK', Placed, Ranked, [Next]_vars
  PROVE  PositionIsTimePriority'
<1> SUFFICES ASSUME NEW s \in Symbols, NEW i \in DOMAIN books'[s], NEW j \in DOMAIN books'[s],
                    i < j
             PROVE  rank'[books'[s][i].id] < rank'[books'[s][j].id]
  BY DEF PositionIsTimePriority
<1>1. CASE ~ ReturnResting
  <2>1. PICK f : Thins(books'[s], books[s], f)
    BY <1>1, BooksThin
  <2>2. /\ f[i] \in DOMAIN books[s] /\ books[s][f[i]].id = books'[s][i].id
        /\ f[j] \in DOMAIN books[s] /\ books[s][f[j]].id = books'[s][j].id
        /\ f[i] < f[j]
    BY <2>1 DEF Thins
  <2>3. rank[books'[s][i].id] < rank[books'[s][j].id]
    BY <2>2 DEF Ranked, PositionIsTimePriority
  <2>4. /\ books'[s][i].id \in RestingIds /\ books'[s][i].id \in RestingIds'
        /\ books'[s][j].id \in RestingIds /\ books'[s][j].id \in RestingIds'
    BY <2>2, RestingAt, RestingAtNext
  <2> QED
    BY <2>3, <2>4, RestingRanksKept
<1>2. CASE ReturnResting
  <2> DEFINE o == [id |-> call.id, side |-> call.side,
                   price |-> call.price, remaining |-> call.remaining]
             book == books[call.symbol]
  <2>1. call.symbol \in Symbols /\ o \in Orders /\ o.id = call.id /\ call.id \in CallIds
    BY <1>2, CallTyped DEF ReturnResting, Orders, CallIds
  <2>2. books' = [books EXCEPT ![call.symbol] = Append(book, o)] /\ rank' = rank
    BY <1>2 DEF ReturnResting, RestRemainder, KeepRanks
  <2> HIDE DEF o
  <2>3. /\ \A u \in Symbols \ {call.symbol} : books'[u] = books[u]
        /\ books'[call.symbol] = Append(book, o)
    BY <2>1, <2>2 DEF TypeOK
  <2>4. CASE s # call.symbol
    BY <2>2, <2>3, <2>4 DEF Ranked, PositionIsTimePriority
  <2>5. CASE s = call.symbol
    <3>1. /\ Len(book) \in Nat /\ DOMAIN book = 1..Len(book)
          /\ DOMAIN Append(book, o) = 1..Len(book) + 1
          /\ Append(book, o)[Len(book) + 1] = o
          /\ \A k \in 1..Len(book) : Append(book, o)[k] = book[k]
      BY <2>1, BookTyped, AppendProperties, LenProperties
    <3>2. i \in DOMAIN book /\ books'[s][i].id = book[i].id
      BY <2>3, <2>5, <3>1
    <3>3. CASE j \in DOMAIN book
      BY <2>1, <2>2, <2>3, <2>5, <3>1, <3>2, <3>3 DEF Ranked, PositionIsTimePriority
    <3>4. CASE j = Len(book) + 1
      <4>1. book[i].id \in RestingIds
        BY <2>1, <3>2, RestingAt
      <4> QED
        BY <2>1, <2>2, <2>3, <2>5, <3>1, <3>2, <3>4, <4>1 DEF Ranked
    <3> QED
      BY <2>3, <2>5, <3>1, <3>3, <3>4
  <2> QED
    BY <2>4, <2>5
<1> QED
  BY <1>1, <1>2

\* The position of an order in its vector is its time priority, after any
\* number of fills, cancels and amendments.
THEOREM TimePriority == Spec => []PositionIsTimePriority
<1>1. Init => Ranked
  BY NothingRestsAtFirst DEF Init, Ranked, PositionIsTimePriority
<1>2. TypeOK /\ TypeOK' /\ Placed /\ Ranked /\ [Next]_vars => Ranked'
  BY SetsRankedKept, PositionsRankedKept DEF Ranked
<1>3. Ranked => PositionIsTimePriority
  BY DEF Ranked
<1> QED
  BY <1>1, <1>2, <1>3, TypeCorrect, OrdersPlaced, PTL DEF Spec

-----------------------------------------------------------------------------
(* Every order is accounted for.                                           *)

HasQuantity == \A s \in Symbols : \A i \in DOMAIN books[s] : books[s][i].remaining > 0

LEMMA QuantityKept ==
  ASSUME TypeOK, TypeOK', HasQuantity, [Next]_vars
  PROVE  HasQuantity'
<1> USE QuantitiesAssumption
<1>1. ASSUME UNCHANGED books
      PROVE  HasQuantity'
  BY <1>1 DEF HasQuantity
<1>2. ASSUME NEW symbol \in Symbols, NEW i \in DOMAIN books[symbol],
             books' = [books EXCEPT ![symbol] = RemoveAt(books[symbol], i)]
      PROVE  HasQuantity'
  <2> SUFFICES ASSUME NEW s \in Symbols, NEW j \in DOMAIN books'[s]
               PROVE  books'[s][j].remaining > 0
    BY DEF HasQuantity
  <2>1. CASE s = symbol
    <3> DEFINE book == books[symbol]
               new == RemoveAt(book, i)
    <3>1. book \in Seq(Orders) /\ i \in DOMAIN book
      BY BookTyped
    <3>2. books'[s] = new
      BY <1>2, <2>1 DEF TypeOK
    <3> HIDE DEF book
    <3>3. PICK f : Thins(new, book, f) /\ \A k \in DOMAIN new : new[k] = book[f[k]]
      BY <3>1, EraseThins
    <3>4. f[j] \in DOMAIN book /\ books'[s][j] = book[f[j]]
      BY <3>2, <3>3 DEF Thins
    <3> QED
      BY <3>4 DEF book, HasQuantity
  <2>2. CASE s # symbol
    BY <1>2, <2>2 DEF TypeOK, HasQuantity
  <2> QED
    BY <2>1, <2>2
<1>3. ASSUME NEW symbol \in Symbols, NEW i \in DOMAIN books[symbol], NEW r \in Nat, r # 0,
             books' = [books EXCEPT ![symbol] = [books[symbol] EXCEPT ![i].remaining = r]]
      PROVE  HasQuantity'
  <2> SUFFICES ASSUME NEW s \in Symbols, NEW j \in DOMAIN books'[s]
               PROVE  books'[s][j].remaining > 0
    BY DEF HasQuantity
  <2>1. CASE s = symbol
    <3>1. books'[s] = [books[s] EXCEPT ![i].remaining = r]
      BY <1>3, <2>1 DEF TypeOK
    <3>2. /\ DOMAIN books'[s] = DOMAIN books[s]
          /\ books'[s][j].remaining = IF j = i THEN r ELSE books[s][j].remaining
      BY <2>1, <3>1, BookTyped, RefillProperties
    <3> QED
      BY <1>3, <3>2 DEF HasQuantity
  <2>2. CASE s # symbol
    BY <1>3, <2>2 DEF TypeOK, HasQuantity
  <2> QED
    BY <2>1, <2>2
<1>4. CASE MatchStep
  <2>1. PICK i \in DOMAIN books[call.symbol] : Fill(i)
    BY <1>4 DEF MatchStep
  <2> DEFINE resting == books[call.symbol][i]
             left == resting.remaining - Smaller(call.remaining, resting.remaining)
  <2>2. call.symbol \in Symbols /\ call # Idle
    BY <1>4, CallTyped DEF MatchStep
  <2>3. left \in Nat
    <3>1. resting.remaining \in Nat /\ call.remaining \in Nat
      BY <2>2, BookTyped, CallTyped
    <3> QED
      BY <3>1 DEF Smaller
  <2>4. CASE left = 0
    BY <1>2, <2>1, <2>2, <2>4 DEF Fill
  <2>5. CASE left # 0
    <3>1. books' = [books EXCEPT ![call.symbol] = [books[call.symbol] EXCEPT ![i].remaining = left]]
      BY <2>1, <2>5 DEF Fill
    <3> HIDE DEF left
    <3> QED
      BY <1>3, <2>2, <2>3, <2>5, <3>1
  <2> QED
    BY <2>4, <2>5
<1>5. CASE ReturnResting
  <2> DEFINE o == [id |-> call.id, side |-> call.side,
                   price |-> call.price, remaining |-> call.remaining]
             book == books[call.symbol]
  <2>1. call.symbol \in Symbols /\ o \in Orders /\ o.remaining > 0
    BY <1>5, CallTyped DEF ReturnResting, Orders
  <2>2. books' = [books EXCEPT ![call.symbol] = Append(book, o)]
    BY <1>5 DEF ReturnResting, RestRemainder
  <2> HIDE DEF o
  <2>3. /\ \A u \in Symbols \ {call.symbol} : books'[u] = books[u]
        /\ books'[call.symbol] = Append(book, o)
    BY <2>1, <2>2 DEF TypeOK
  <2>4. /\ Len(book) \in Nat /\ DOMAIN book = 1..Len(book)
        /\ DOMAIN Append(book, o) = 1..Len(book) + 1
        /\ Append(book, o)[Len(book) + 1] = o
        /\ \A k \in 1..Len(book) : Append(book, o)[k] = book[k]
    BY <2>1, BookTyped, AppendProperties, LenProperties
  <2>5. \A k \in DOMAIN Append(book, o) : Append(book, o)[k].remaining > 0
    <3>1. \A k \in DOMAIN book : book[k].remaining > 0
      BY <2>1 DEF HasQuantity
    <3>2. \A k \in 1..Len(book) + 1 : k \in 1..Len(book) \/ k = Len(book) + 1
      BY <2>4
    <3> QED
      BY <2>1, <2>4, <3>1, <3>2
  <2>6. \A u \in Symbols \ {call.symbol} : \A k \in DOMAIN books'[u] : books'[u][k].remaining > 0
    BY <2>3 DEF HasQuantity
  <2> QED
    BY <2>3, <2>5, <2>6 DEF HasQuantity
<1>6. ASSUME NEW id \in 0..MaxOrders, NEW symbol \in Symbols, NEW i \in DOMAIN books[symbol],
             CancelOrder(id, symbol, i)
      PROVE  HasQuantity'
  BY <1>2, <1>6 DEF CancelOrder
<1>7. ASSUME NEW id \in 0..MaxOrders, NEW price \in Prices, NEW quantity \in Quantities,
             NEW symbol \in Symbols, NEW i \in DOMAIN books[symbol],
             AmendInPlace(id, symbol, i, price, quantity)
      PROVE  HasQuantity'
  <2>1. /\ books' = [books EXCEPT ![symbol] = [books[symbol] EXCEPT ![i].remaining = quantity]]
        /\ quantity # 0
    BY <1>7 DEF AmendInPlace, ValidAmendment
  <2> QED
    BY <1>3, <2>1
<1>8. ASSUME NEW id \in 0..MaxOrders, NEW price \in Prices, NEW quantity \in Quantities,
             NEW symbol \in Symbols, NEW i \in DOMAIN books[symbol],
             AmendRematch(id, symbol, i, price, quantity)
      PROVE  HasQuantity'
  BY <1>2, <1>8 DEF AmendRematch
<1> QED
  BY <1>1, <1>4, <1>5, <1>6, <1>7, <1>8
     DEF Next, Advance, AddRejected, AddOrder, CancelMissed, AmendMissed, ReturnFilled, vars

\* The ids handed out are those that were closed, rest or are being matched;
\* what is closed is nowhere else.
Balanced ==
  /\ closed \cup RestingIds \cup CallIds = 1..nextOrderId - 1
  /\ closed \cap (RestingIds \cup CallIds) = {}

LEMMA BalancedKept ==
  ASSUME TypeOK, TypeOK', Placed, Balanced, [Next]_vars
  PROVE  Balanced'
<1>1. [Life!Next]_(Life!vars)
  BY StepOfLife
<1>2. nextOrderId \in Nat /\ nextOrderId >= 1
  BY MaxOrdersAssumption DEF TypeOK
<1>3. RestingIds \cap CallIds = {}
  BY DEF Placed
<1>4. CASE Life!Arrive
  BY <1>2, <1>4 DEF Balanced, Life!Arrive, Life!Enter
<1>5. CASE Life!Rest
  BY <1>5 DEF Balanced, Life!Rest
<1>6. ASSUME NEW id \in RestingIds, Life!Reenter(id)
      PROVE  Balanced'
  BY <1>6 DEF Balanced, Life!Reenter, Life!Enter
<1>7. ASSUME NEW id \in RestingIds \cup CallIds, Life!Close(id)
      PROVE  Balanced'
  BY <1>7 DEF Balanced, Life!Close
<1>8. CASE UNCHANGED Life!vars
  BY <1>8 DEF Balanced, Life!vars
<1> QED
  BY <1>1, <1>4, <1>5, <1>6, <1>7, <1>8 DEF Life!Next

\* Closed, resting and matched ids are disjoint and together all the ids handed
\* out, and no book holds an order with nothing left, in the middle of a sweep too.
THEOREM OrdersBalanced == Spec => [](Balanced /\ HasQuantity)
<1>1. Init => Balanced /\ HasQuantity
  BY NothingRestsAtFirst DEF Init, Balanced, HasQuantity
<1>2. TypeOK /\ TypeOK' /\ Placed /\ Balanced /\ HasQuantity /\ [Next]_vars
        => (Balanced /\ HasQuantity)'
  BY BalancedKept, QuantityKept
<1> QED
  BY <1>1, <1>2, TypeCorrect, OrdersPlaced, PTL DEF Spec

\* From its arrival to its Filled or Cancelled update an order is at exactly
\* one place, with quantity left if it rests; after it, nowhere.
THEOREM Accounted == Spec => []EveryOrderAccounted
<1>1. TypeOK /\ Placed /\ Balanced /\ HasQuantity => EveryOrderAccounted
  <2> SUFFICES ASSUME TypeOK, Placed, Balanced, HasQuantity
               PROVE  EveryOrderAccounted
    OBVIOUS
  <2>1. /\ nextOrderId \in 1..MaxOrders + 1 /\ MaxOrders \in Nat
        /\ OrderIds = 1..MaxOrders
    BY MaxOrdersAssumption DEF TypeOK, OrderIds
  <2>2. closed \subseteq 1..nextOrderId - 1
    BY DEF Balanced
  <2>3. \A id \in OrderIds : (Resting(id) <=> id \in RestingIds) /\ (InCall(id) <=> id \in CallIds)
    BY DEF RestingIds, InCall, CallIds
  <2>4. \A id \in OrderIds : (id < nextOrderId /\ id \notin closed) <=> (Resting(id) \/ InCall(id))
    <3>1. \A id \in OrderIds : id < nextOrderId <=> id \in 1..nextOrderId - 1
      BY <2>1
    <3> QED
      BY <2>3, <3>1 DEF Balanced
  <2>5. \A id \in OrderIds : ~ (Resting(id) /\ InCall(id))
    BY <2>3 DEF Placed
  <2> QED
    BY <2>2, <2>4, <2>5 DEF EveryOrderAccounted, Placed, IdsDistinct, HasQuantity
<1> QED
  BY <1>1, TypeCorrect, OrdersPlaced, OrdersBalanced, PTL

-----------------------------------------------------------------------------
(* A terminal status is final.                                             *)

Events ==
  [event : {"Trade"}, buy : OrderIds, sell : OrderIds, symbol : Symbols,
   price : Int, quantity : Nat]
  \cup
  [event : {"OrderUpdate"}, id : OrderIds, status : {"Filled", "Cancelled", "Accepted"},
   remaining : Nat]

\* events is what the listener received in this step.
Received(events) ==
  /\ events \in Seq(Events)
  /\ log' = IF call = Idle THEN events ELSE log \o events
  /\ \A k \in DOMAIN events : IdsOf(events[k]) \subseteq RestingIds \cup CallIds

LEMMA ReceivedNothing ==
  ASSUME log' = IF call = Idle THEN <<>> ELSE log \o <<>>
  PROVE  Received(<<>>)
BY EmptySeq DEF Received

LEMMA ReceivedUpdate ==
  ASSUME NEW id \in RestingIds \cup CallIds, id \in OrderIds,
         NEW status \in {"Filled", "Cancelled", "Accepted"}, NEW left \in Nat,
         log' = IF call = Idle THEN <<OrderUpdate(id, status, left)>>
                ELSE log \o <<OrderUpdate(id, status, left)>>
  PROVE  Received(<<OrderUpdate(id, status, left)>>)
<1> DEFINE u == OrderUpdate(id, status, left)
<1>1. u \in Events /\ IdsOf(u) = {id}
  BY DEF OrderUpdate, Events, IdsOf, IsTrade
<1> HIDE DEF u
<1>2. <<u>> \in Seq(Events) /\ \A k \in DOMAIN <<u>> : <<u>>[k] = u
  BY <1>1
<1>3. Received(<<u>>)
  BY <1>1, <1>2 DEF Received, u
<1> QED
  BY <1>3 DEF u

LEMMA ReceivedFill ==
  ASSUME TypeOK, call # Idle, NEW i \in DOMAIN books[call.symbol], Fill(i)
  PROVE  \E events : Received(events)
<1> DEFINE resting == books[call.symbol][i]
           qty == Smaller(call.remaining, resting.remaining)
           left == resting.remaining - qty
           buyId == IF call.side = "Buy" THEN call.id ELSE resting.id
           sellId == IF call.side = "Buy" THEN resting.id ELSE call.id
           status == IF left = 0 THEN "Filled" ELSE "Accepted"
           t == Trade(buyId, sellId, call.symbol, resting.price, qty)
           u == OrderUpdate(resting.id, status, left)
<1>1. /\ call.id \in OrderIds /\ call.id \in CallIds
      /\ call.symbol \in Symbols /\ call.remaining \in Nat
      /\ resting.id \in OrderIds /\ resting.id \in RestingIds
      /\ resting.price \in Int /\ resting.remaining \in Nat
  BY CallTyped, BookTyped, RestingAt DEF CallIds
<1>2. qty \in Nat /\ left \in Nat
  BY <1>1 DEF Smaller
<1>3. /\ t \in Events /\ IdsOf(t) = {buyId, sellId}
      /\ u \in Events /\ IdsOf(u) = {resting.id}
  <2>1. /\ buyId \in OrderIds /\ sellId \in OrderIds
        /\ status \in {"Filled", "Cancelled", "Accepted"}
    BY <1>1
  <2> HIDE DEF buyId, sellId, status, qty, left
  <2> QED
    BY <1>1, <1>2, <2>1 DEF Trade, OrderUpdate, Events, IdsOf, IsTrade
<1>4. {buyId, sellId} \subseteq RestingIds \cup CallIds
  BY <1>1
<1>5. log' = log \o <<t, u>>
  BY DEF Fill, CallBack
<1> HIDE DEF t, u, buyId, sellId, resting
<1>6. <<t, u>> \in Seq(Events) /\ DOMAIN <<t, u>> = {1, 2} /\ <<t, u>>[1] = t /\ <<t, u>>[2] = u
  BY <1>3
<1>7. Received(<<t, u>>)
  BY <1>1, <1>3, <1>4, <1>5, <1>6 DEF Received
<1> QED
  BY <1>7

LEMMA StepReceives ==
  ASSUME TypeOK, Next
  PROVE  \E events : Received(events)
<1> USE QuantitiesAssumption
<1>1. ASSUME NEW symbol \in Symbols \cup {EmptySymbol}, NEW price \in Prices,
             NEW quantity \in Quantities,
             \/ AddRejected(symbol, price, quantity)
             \/ \E side \in Sides : AddOrder(symbol, side, price, quantity)
      PROVE  \E events : Received(events)
  BY <1>1, ReceivedNothing DEF AddRejected, AddOrder, BeginCall
<1>2. ASSUME NEW id \in 0..MaxOrders, CancelMissed(id)
      PROVE  \E events : Received(events)
  BY <1>2, ReceivedNothing DEF CancelMissed, BeginCall
<1>3. ASSUME NEW id \in 0..MaxOrders, NEW symbol \in Symbols,
             NEW i \in DOMAIN books[symbol], CancelOrder(id, symbol, i)
      PROVE  \E events : Received(events)
  <2>1. id \in RestingIds /\ id \in OrderIds
    BY <1>3, RestingAt DEF CancelOrder, At, RestingIds
  <2>2. call = Idle /\ log' = <<OrderUpdate(id, "Cancelled", 0)>>
    BY <1>3 DEF CancelOrder, BeginCall
  <2> QED
    BY <2>1, <2>2, ReceivedUpdate
<1>4. ASSUME NEW id \in 0..MaxOrders, NEW price \in Prices, NEW quantity \in Quantities,
             AmendMissed(id, price, quantity)
      PROVE  \E events : Received(events)
  BY <1>4, ReceivedNothing DEF AmendMissed, BeginCall
<1>5. ASSUME NEW id \in 0..MaxOrders, NEW price \in Prices, NEW quantity \in Quantities,
             NEW symbol \in Symbols, NEW i \in DOMAIN books[symbol],
             \/ AmendInPlace(id, symbol, i, price, quantity)
             \/ AmendRematch(id, symbol, i, price, quantity)
      PROVE  \E events : Received(events)
  BY <1>5, ReceivedNothing DEF AmendInPlace, AmendRematch, BeginCall
<1>6. CASE MatchStep
  BY <1>6, ReceivedFill DEF MatchStep
<1>7. ASSUME ReturnFilled \/ ReturnResting
      PROVE  call # Idle /\ call.id \in CallIds /\ call.id \in OrderIds /\ call.remaining \in Nat
  BY <1>7, CallTyped DEF ReturnFilled, ReturnResting, CallIds
<1>8. CASE ReturnFilled
  <2>1. log' = log \o <<OrderUpdate(call.id, "Filled", 0)>>
    BY <1>8 DEF ReturnFilled, CallBack
  <2> QED
    BY <1>7, <1>8, <2>1, ReceivedUpdate
<1>9. CASE ReturnResting
  <2>1. \/ log' = log \o <<OrderUpdate(call.id, "Accepted", call.remaining)>>
        \/ log' = log \o <<>>
    BY <1>9 DEF ReturnResting, RestRemainder, CallBack
  <2> QED
    BY <1>7, <1>9, <2>1, ReceivedUpdate, ReceivedNothing
<1> QED
  BY <1>1, <1>2, <1>3, <1>4, <1>5, <1>6, <1>8, <1>9 DEF Next, Advance

LogTyped == log \in Seq(Events)

LEMMA NewEventsReceived ==
  ASSUME LogTyped, NEW events, Received(events), NEW k \in DOMAIN NewEvents
  PROVE  \E m \in DOMAIN events : NewEvents[k] = events[m]
<1>1. CASE call = Idle
  BY <1>1 DEF NewEvents, Received
<1>2. CASE call # Idle
  <2> DEFINE n == Len(log)
             both == log \o events
  <2>1. /\ n \in Nat /\ Len(events) \in Nat /\ DOMAIN events = 1..Len(events)
        /\ both \in Seq(Events) /\ Len(both) = n + Len(events)
        /\ \A j \in 1..n + Len(events) : both[j] = IF j <= n THEN log[j] ELSE events[j - n]
    BY LenProperties, ConcatProperties DEF LogTyped, Received
  <2>2. NewEvents = SubSeq(both, n + 1, n + Len(events))
    BY <1>2, <2>1 DEF NewEvents, Received
  <2> HIDE DEF n, both
  <2> DEFINE first == n + 1
             last == n + Len(events)
  <2>3. /\ first \in Int /\ last \in Int
        /\ \A j \in first..last : both[j] \in Events
    <3>1. \A j \in 1..Len(both) : both[j] \in Events
      BY <2>1, ElementOfSeq
    <3> QED
      BY <2>1, <3>1
  <2>4. /\ Len(NewEvents) = Len(events)
        /\ NewEvents \in Seq(Events)
        /\ \A j \in 1..Len(events) : NewEvents[j] = both[n + j]
    <3>1. /\ first <= last + 1 /\ last - first + 1 = Len(events)
          /\ first <= last \/ Len(events) = 0
          /\ \A j \in 1..Len(events) : first + j - 1 = n + j
      BY <2>1
    <3>2. NewEvents = SubSeq(both, first, last)
      BY <2>2
    <3> HIDE DEF first, last
    <3>3. /\ SubSeq(both, first, last) \in Seq(Events)
          /\ Len(SubSeq(both, first, last)) = IF first <= last THEN last - first + 1 ELSE 0
          /\ \A j \in 1..last - first + 1 : SubSeq(both, first, last)[j] = both[first + j - 1]
      BY <2>3, SubSeqProperties
    <3> QED
      BY <3>1, <3>2, <3>3
  <2>5. DOMAIN NewEvents = 1..Len(events)
    BY <2>1, <2>4, LenProperties
  <2>6. NewEvents[k] = both[n + k]
    BY <2>4, <2>5
  <2>7. both[n + k] = events[k]
    <3>1. n + k \in 1..n + Len(events) /\ ~ (n + k <= n) /\ (n + k) - n = k
      BY <2>1, <2>5
    <3> QED
      BY <2>1, <3>1
  <2> QED
    BY <2>1, <2>5, <2>6, <2>7
<1> QED
  BY <1>1, <1>2

\* The listener receives nothing but trades and updates of the engine's orders.
LEMMA LogKept ==
  ASSUME TypeOK, LogTyped, [Next]_vars
  PROVE  LogTyped'
<1>1. CASE Next
  <2>1. PICK events : Received(events)
    BY <1>1, StepReceives
  <2> QED
    BY <2>1, ConcatProperties DEF Received, LogTyped
<1>2. CASE UNCHANGED vars
  BY <1>2 DEF vars, LogTyped
<1> QED
  BY <1>1, <1>2

LEMMA LogOfEvents == Spec => []LogTyped
<1>1. Init => LogTyped
  BY EmptySeq DEF Init, LogTyped
<1>2. TypeOK /\ LogTyped /\ [Next]_vars => LogTyped'
  BY LogKept
<1> QED
  BY <1>1, <1>2, TypeCorrect, PTL DEF Spec

\* No callback names an order whose Filled or Cancelled update was sent before.
THEOREM TerminalIsFinal == Spec => NothingAfterTerminal
<1>1. TypeOK /\ Balanced /\ LogTyped /\ [Next]_vars
        => [\A k \in DOMAIN NewEvents : IdsOf(NewEvents[k]) \cap closed = {}]_vars
  <2> SUFFICES ASSUME TypeOK, Balanced, LogTyped, Next, NEW k \in DOMAIN NewEvents
               PROVE  IdsOf(NewEvents[k]) \cap closed = {}
    OBVIOUS
  <2>1. PICK events : Received(events)
    BY StepReceives
  <2>2. PICK m \in DOMAIN events : NewEvents[k] = events[m]
    BY <2>1, NewEventsReceived
  <2> QED
    BY <2>1, <2>2 DEF Received, Balanced
<1> QED
  BY <1>1, TypeCorrect, OrdersBalanced, LogOfEvents, PTL DEF Spec, NothingAfterTerminal

=============================================================================
