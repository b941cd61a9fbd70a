---------------------------- MODULE AuctionProofs ----------------------------
(*****************************************************************************)
(* What the listener and the caller are told, and the auction the engine     *)
(* runs, for every set of symbols, prices and quantities and for every       *)
(* bound: the fills of a call come in price-time order; the acknowledgement  *)
(* of addOrder, its last callback and the book agree; and the engine         *)
(* implements DoubleAuction.  The first needs more than the log says: while  *)
(* a call has something left, every order it could still trade with stands   *)
(* behind every trade it made (NothingAhead).  The last is that what the     *)
(* engine does to its vectors is what the auction does to its set of         *)
(* orders, that an iteration of matchOrder is a trade of best bid and best   *)
(* ask, and that a return changes nothing the market can see.                *)
(*****************************************************************************)
EXTENDS MatchingEngineProofs, SumProofs

-----------------------------------------------------------------------------
(* The invariant of a call, as a relation of the call, the ranks, the      *)
(* callbacks and the book it matches against.                              *)

\* Each trade names the call's order and is followed by the update of the other.
FillsReported(c, events) ==
  \A k \in TradesOf(events) :
    /\ c.id \in {events[k].buy, events[k].sell}
    /\ k + 1 \in DOMAIN events
    /\ events[k + 1].event = "OrderUpdate"
    /\ events[k + 1].id = Passive(events[k], c.id)

\* For an aggressor on side, price p with rank r goes before q with rank t.
Before(side, p, r, q, t) == Better(side, p, q) \/ (p = q /\ r < t)

FillsOrdered(c, ranks, events) ==
  \A k, m \in TradesOf(events) : k < m =>
    Before(c.side, events[k].price, ranks[Passive(events[k], c.id)],
                   events[m].price, ranks[Passive(events[m], c.id)])

\* Every order the call can still trade with is behind every trade it made.
NothingAhead(c, ranks, events, book) ==
  \A k \in TradesOf(events) : \A j \in DOMAIN book :
    Crosses(c.side, c.price, book[j]) =>
      Before(c.side, events[k].price, ranks[Passive(events[k], c.id)],
                     book[j].price, ranks[book[j].id])

FillsInOrder ==
  call # Idle =>
    /\ FillsReported(call, log)
    /\ FillsOrdered(call, rank, log)
    /\ call.remaining > 0 => NothingAhead(call, rank, log, books[call.symbol])

-----------------------------------------------------------------------------
\* The two callbacks of a fill, after those of the fills before it.
LEMMA LogAfterFill ==
  ASSUME LogTyped, NEW t \in Events, NEW u \in Events, IsTrade(t), ~ IsTrade(u),
         log' = log \o <<t, u>>
  PROVE  /\ Len(log) \in Nat /\ DOMAIN log = 1..Len(log)
         /\ DOMAIN log' = 1..Len(log) + 2
         /\ \A k \in DOMAIN log : log'[k] = log[k]
         /\ log'[Len(log) + 1] = t /\ log'[Len(log) + 2] = u
         /\ TradesOf(log') = TradesOf(log) \cup {Len(log) + 1}
<1> DEFINE two == <<t, u>>
           n == Len(log)
           both == log \o two
<1>1. two \in Seq(Events) /\ Len(two) = 2 /\ two[1] = t /\ two[2] = u
  OBVIOUS
<1> HIDE DEF two
<1>2. n \in Nat /\ DOMAIN log = 1..n
  BY LenProperties DEF LogTyped
<1>3. /\ both \in Seq(Events)
      /\ Len(both) = n + 2
      /\ \A k \in 1..n + 2 : both[k] = IF k <= n THEN log[k] ELSE two[k - n]
  <2>1. /\ both \in Seq(Events)
        /\ Len(both) = Len(log) + Len(two)
        /\ \A k \in 1..Len(log) + Len(two) :
             both[k] = IF k <= Len(log) THEN log[k] ELSE two[k - Len(log)]
    BY <1>1, ConcatProperties DEF LogTyped
  <2> QED
    BY <1>1, <2>1
<1>4. DOMAIN both = 1..n + 2
  BY <1>3, LenProperties
<1> HIDE DEF both, n
<1>5. \A k \in DOMAIN log : both[k] = log[k]
  BY <1>2, <1>3
<1>6. both[n + 1] = t /\ both[n + 2] = u
  <2>1. /\ n + 1 \in 1..n + 2 /\ n + 2 \in 1..n + 2
        /\ ~ (n + 1 <= n) /\ ~ (n + 2 <= n)
        /\ (n + 1) - n = 1 /\ (n + 2) - n = 2
    BY <1>2
  <2> QED
    BY <1>1, <1>3, <2>1
<1>7. TradesOf(both) = TradesOf(log) \cup {n + 1}
  <2>1. \A k \in 1..n + 2 : k \in 1..n \/ k = n + 1 \/ k = n + 2
    BY <1>2
  <2>2. n + 1 \in 1..n + 2 /\ 1..n \subseteq 1..n + 2
    BY <1>2
  <2> QED
    BY <1>2, <1>4, <1>5, <1>6, <2>1, <2>2 DEF TradesOf
<1>8. log' = both
  BY DEF two, both
<1> QED
  BY <1>2, <1>4, <1>5, <1>6, <1>7, <1>8 DEF n

\* What a fill appends: the trade at the resting order's price, of which that
\* order is the passive side, and that order's update.
LEMMA FillEvents ==
  ASSUME TypeOK, Placed, call # Idle, NEW i \in DOMAIN books[call.symbol], Fill(i)
  PROVE  \E t, u \in Events :
           /\ log' = log \o <<t, u>>
           /\ IsTrade(t) /\ u.event = "OrderUpdate"
           /\ t.buy = IF call.side = "Buy" THEN call.id ELSE books[call.symbol][i].id
           /\ t.sell = IF call.side = "Buy" THEN books[call.symbol][i].id ELSE call.id
           /\ t.symbol = call.symbol
           /\ call.id \in {t.buy, t.sell}
           /\ Passive(t, call.id) = books[call.symbol][i].id
           /\ t.price = books[call.symbol][i].price
           /\ t.quantity = Smaller(call.remaining, books[call.symbol][i].remaining)
           /\ u.id = books[call.symbol][i].id
<1> DEFINE resting == books[call.symbol][i]
           qty == Smaller(call.remaining, resting.remaining)
           left == resting.remaining - qty
           buyId == IF call.side = "Buy" THEN call.id ELSE resting.id
           sellId == IF call.side = "Buy" THEN resting.id ELSE call.id
           status == IF left = 0 THEN "Filled" ELSE "Accepted"
           t == Trade(buyId, sellId, call.symbol, resting.price, qty)
           u == OrderUpdate(resting.id, status, left)
<1>1. /\ call.id \in OrderIds /\ call.id \in CallIds
      /\ call.symbol \in Symbols /\ call.remaining \in Nat
      /\ resting.id \in OrderIds /\ resting.id \in RestingIds
      /\ resting.price \in Int /\ resting.remaining \in Nat
  BY CallTyped, BookTyped, RestingAt DEF CallIds
<1>2. qty \in Nat /\ left \in Nat
  BY <1>1 DEF Smaller
<1>3. resting.id # call.id
  BY <1>1 DEF Placed
<1>4. /\ buyId \in OrderIds /\ sellId \in OrderIds
      /\ status \in {"Filled", "Cancelled", "Accepted"}
      /\ call.id \in {buyId, sellId}
      /\ (IF buyId = call.id THEN sellId ELSE buyId) = resting.id
  BY <1>1, <1>3
<1>5. log' = log \o <<t, u>>
  BY DEF Fill, CallBack
<1>6. /\ t \in Events /\ IsTrade(t) /\ t.buy = buyId /\ t.sell = sellId /\ t.symbol = call.symbol
      /\ t.price = resting.price /\ t.quantity = qty
      /\ u \in Events /\ u.event = "OrderUpdate" /\ u.id = resting.id
  <2> HIDE DEF buyId, sellId, status, qty, left
  <2> QED
    BY <1>1, <1>2, <1>4 DEF Trade, OrderUpdate, Events, IsTrade
<1> HIDE DEF t, u
<1>7. Passive(t, call.id) = resting.id
  BY <1>4, <1>6 DEF Passive
<1> QED
  BY <1>4, <1>5, <1>6, <1>7

\* A fill is behind the trades before it, and what it leaves to trade with is
\* behind it: the order it was made with was the best, and is gone unless the
\* call has nothing left.
LEMMA MatchKeepsOrder ==
  ASSUME TypeOK, Placed, Ranked, LogTyped, FillsInOrder, MatchStep
  PROVE  FillsInOrder'
<1> DEFINE book == books[call.symbol]
           n == Len(log)
<1>1. PICK i \in DOMAIN book : IsBest(book, call.side, call.price, i) /\ Fill(i)
  BY DEF MatchStep
<1>2. /\ call # Idle /\ call.remaining > 0 /\ rank' = rank
      /\ call.symbol \in Symbols /\ call.remaining \in Nat /\ call \in Calls
      /\ call.side \in Sides /\ call.price \in Int
  BY CallTyped DEF MatchStep, KeepRanks
<1>3. /\ FillsReported(call, log)
      /\ FillsOrdered(call, rank, log)
      /\ NothingAhead(call, rank, log, book)
  BY <1>2 DEF FillsInOrder
<1>4. PICK t \in Events, u \in Events :
           /\ log' = log \o <<t, u>>
           /\ IsTrade(t) /\ u.event = "OrderUpdate"
           /\ call.id \in {t.buy, t.sell}
           /\ Passive(t, call.id) = book[i].id
           /\ t.price = book[i].price
           /\ u.id = book[i].id
  BY <1>1, <1>2, FillEvents
<1>5. /\ n \in Nat /\ DOMAIN log = 1..n
      /\ DOMAIN log' = 1..n + 2
      /\ \A k \in DOMAIN log : log'[k] = log[k]
      /\ log'[n + 1] = t /\ log'[n + 2] = u
      /\ TradesOf(log') = TradesOf(log) \cup {n + 1}
  BY <1>4, LogAfterFill DEF IsTrade
<1>6. TradesOf(log) \subseteq 1..n /\ \A k \in TradesOf(log) : log'[k] = log[k]
  BY <1>5 DEF TradesOf
<1> DEFINE qty == Smaller(call.remaining, book[i].remaining)
<1>7. /\ qty \in Nat /\ qty <= call.remaining /\ qty <= book[i].remaining
      /\ call' = [call EXCEPT !.remaining = call.remaining - qty]
      /\ call' \in Calls
      /\ qty = book[i].remaining => books'[call.symbol] = RemoveAt(book, i)
  BY <1>1, <1>2, FillEffect
<1>8. /\ call'.id = call.id /\ call'.side = call.side /\ call'.price = call.price
      /\ call'.symbol = call.symbol /\ call'.remaining = call.remaining - qty
  <2> HIDE DEF qty
  <2> QED
    BY <1>2, <1>7 DEF Calls
<1>9. /\ DOMAIN book = 1..Len(book) /\ Len(book) \in Nat /\ book \in Seq(Orders)
      /\ \A j \in DOMAIN book : book[j].price \in Int /\ book[j].remaining \in Nat
  BY <1>2, BookTyped
<1> HIDE DEF book, n
<1>10. FillsReported(call', log')
  <2> SUFFICES ASSUME NEW k \in TradesOf(log')
               PROVE  /\ call.id \in {log'[k].buy, log'[k].sell}
                      /\ k + 1 \in DOMAIN log'
                      /\ log'[k + 1].event = "OrderUpdate"
                      /\ log'[k + 1].id = Passive(log'[k], call.id)
    BY <1>8 DEF FillsReported
  <2>1. CASE k \in TradesOf(log)
    <3>1. k + 1 \in DOMAIN log /\ log'[k + 1] = log[k + 1] /\ log'[k] = log[k]
      BY <1>3, <1>5, <1>6, <2>1 DEF FillsReported
    <3> QED
      BY <1>3, <1>5, <2>1, <3>1 DEF FillsReported
  <2>2. CASE k = n + 1
    <3>1. k + 1 = n + 2 /\ k + 1 \in 1..n + 2
      BY <1>5, <2>2
    <3> QED
      BY <1>4, <1>5, <2>2, <3>1
  <2> QED
    BY <1>5, <2>1, <2>2
<1>11. ASSUME NEW k \in TradesOf(log)
       PROVE  Before(call.side, log[k].price, rank[Passive(log[k], call.id)],
                     t.price, rank[Passive(t, call.id)])
  <2>1. Crosses(call.side, call.price, book[i])
    BY <1>1 DEF IsBest
  <2> QED
    BY <1>1, <1>3, <1>4, <2>1 DEF NothingAhead
<1>12. FillsOrdered(call', rank', log')
  <2> SUFFICES ASSUME NEW k \in TradesOf(log'), NEW m \in TradesOf(log'), k < m
               PROVE  Before(call.side, log'[k].price, rank[Passive(log'[k], call.id)],
                             log'[m].price, rank[Passive(log'[m], call.id)])
    BY <1>2, <1>8 DEF FillsOrdered
  <2>1. k \in TradesOf(log)
    <3>1. k # n + 1
      <4>1. m \in 1..n \/ m = n + 1
        BY <1>5, <1>6
      <4> QED
        BY <1>5, <4>1
    <3> QED
      BY <1>5, <3>1
  <2>2. CASE m \in TradesOf(log)
    BY <1>3, <1>6, <2>1, <2>2 DEF FillsOrdered
  <2>3. CASE m = n + 1
    BY <1>5, <1>6, <1>11, <2>1, <2>3
  <2> QED
    BY <1>5, <2>2, <2>3
<1>13. ASSUME call'.remaining > 0
       PROVE  NothingAhead(call', rank', log', books'[call'.symbol])
  <2>1. books'[call.symbol] = RemoveAt(book, i)
    <3>1. qty = book[i].remaining
      BY <1>1, <1>2, <1>7, <1>8, <1>9, <1>13 DEF Smaller
    <3> QED
      BY <1>7, <3>1
  <2> DEFINE new == RemoveAt(book, i)
  <2>2. PICK f : Thins(new, book, f) /\ \A j \in DOMAIN new : f[j] # i /\ new[j] = book[f[j]]
    BY <1>1, <1>9, EraseThins
  <2> HIDE DEF new
  <2>3. SUFFICES ASSUME NEW k \in TradesOf(log'), NEW j \in DOMAIN new,
                        Crosses(call.side, call.price, new[j])
                 PROVE  Before(call.side, log'[k].price, rank[Passive(log'[k], call.id)],
                               new[j].price, rank[new[j].id])
    BY <1>2, <1>8, <2>1 DEF NothingAhead, new
  <2>4. /\ f[j] \in DOMAIN book /\ f[j] # i /\ new[j] = book[f[j]]
        /\ Crosses(call.side, call.price, book[f[j]])
    BY <2>2, <2>3 DEF Thins
  <2>5. CASE k \in TradesOf(log)
    BY <1>3, <1>6, <2>4, <2>5 DEF NothingAhead
  <2>6. CASE k = n + 1
    <3>1. /\ ~ Better(call.side, book[f[j]].price, book[i].price)
          /\ f[j] < i => Better(call.side, book[i].price, book[f[j]].price)
      BY <1>1, <2>4 DEF IsBest
    <3>2. CASE Better(call.side, book[i].price, book[f[j]].price)
      BY <1>4, <1>5, <2>4, <2>6, <3>2 DEF Before
    <3>3. CASE ~ Better(call.side, book[i].price, book[f[j]].price)
      <4>1. i < f[j]
        BY <1>1, <1>9, <2>4, <3>1, <3>3
      <4>2. book[i].price = book[f[j]].price
        BY <1>1, <1>2, <1>9, <2>4, <3>1, <3>3 DEF Better
      <4>3. rank[book[i].id] < rank[book[f[j]].id]
        BY <1>1, <1>2, <2>4, <4>1 DEF Ranked, PositionIsTimePriority, book
      <4> QED
        BY <1>4, <1>5, <2>4, <2>6, <4>2, <4>3 DEF Before
    <3> QED
      BY <3>2, <3>3
  <2> QED
    BY <1>5, <2>5, <2>6
<1> QED
  BY <1>10, <1>12, <1>13 DEF FillsInOrder

\* A call that begins has made no trade.
LEMMA NoFillsYet ==
  ASSUME log' = <<>>
  PROVE  FillsInOrder'
<1>1. TradesOf(log') = {}
  BY DEF TradesOf
<1> QED
  BY <1>1 DEF FillsInOrder, FillsReported, FillsOrdered, NothingAhead

LEMMA OrderKept ==
  ASSUME TypeOK, Placed, Ranked, LogTyped, FillsInOrder, [Next]_vars
  PROVE  FillsInOrder'
<1>1. ASSUME call' = Idle
      PROVE  FillsInOrder'
  BY <1>1 DEF FillsInOrder
<1>2. ASSUME NEW symbol, NEW price, NEW quantity, NEW side,
             AddRejected(symbol, price, quantity) \/ AddOrder(symbol, side, price, quantity)
      PROVE  FillsInOrder'
  BY <1>2, NoFillsYet DEF AddRejected, AddOrder, BeginCall
<1>3. ASSUME NEW id, CancelMissed(id)
      PROVE  FillsInOrder'
  BY <1>3, NoFillsYet DEF CancelMissed, BeginCall
<1>4. ASSUME NEW id, NEW symbol, NEW i, CancelOrder(id, symbol, i)
      PROVE  FillsInOrder'
  BY <1>1, <1>4 DEF CancelOrder, BeginCall
<1>5. ASSUME NEW id, NEW price, NEW quantity, AmendMissed(id, price, quantity)
      PROVE  FillsInOrder'
  BY <1>5, NoFillsYet DEF AmendMissed, BeginCall
<1>6. ASSUME NEW id, NEW price, NEW quantity, NEW symbol, NEW i,
             \/ AmendInPlace(id, symbol, i, price, quantity)
             \/ AmendRematch(id, symbol, i, price, quantity)
      PROVE  FillsInOrder'
  BY <1>6, NoFillsYet DEF AmendInPlace, AmendRematch, BeginCall
<1>7. CASE MatchStep
  BY <1>7, MatchKeepsOrder
<1>8. CASE ReturnFilled \/ ReturnResting
  BY <1>1, <1>8 DEF ReturnFilled, ReturnResting, RestRemainder
<1>9. CASE UNCHANGED vars
  BY <1>9 DEF vars, FillsInOrder
<1> QED
  BY <1>2, <1>3, <1>4, <1>5, <1>6, <1>7, <1>8, <1>9 DEF Next, Advance

\* The ranks that OrderLifeProofs keeps, as a fact about every state.
LEMMA RanksKept == Spec => []Ranked
<1>1. Init => Ranked
  BY NothingRestsAtFirst DEF Init, Ranked, PositionIsTimePriority
<1>2. TypeOK /\ TypeOK' /\ Placed /\ Ranked /\ [Next]_vars => Ranked'
  BY SetsRankedKept, PositionsRankedKept DEF Ranked
<1> QED
  BY <1>1, <1>2, TypeCorrect, OrdersPlaced, PTL DEF Spec

\* Within a call the fills come in price-time priority order, each at the
\* resting order's price and followed by that order's update.
THEOREM FillsComeInOrder == Spec => []FillsInPriceTimeOrder
<1>1. Init => FillsInOrder
  BY DEF Init, FillsInOrder
<1>2. TypeOK /\ Placed /\ Ranked /\ LogTyped /\ FillsInOrder /\ [Next]_vars => FillsInOrder'
  BY OrderKept
<1>3. FillsInOrder => FillsInPriceTimeOrder
  BY DEF FillsInOrder, FillsReported, FillsOrdered, Before, FillsInPriceTimeOrder
<1> QED
  BY <1>1, <1>2, <1>3, TypeCorrect, OrdersPlaced, RanksKept, LogOfEvents, PTL DEF Spec

-----------------------------------------------------------------------------
(* What addOrder acknowledges.                                             *)

\* The last callback of a call that returns with one.
LEMMA LastOfLog ==
  ASSUME LogTyped, NEW u \in Events, log' = log \o <<u>>
  PROVE  log' # <<>> /\ Last(log') = u
<1> DEFINE one == <<u>>
           n == Len(log)
           both == log \o one
<1>1. one \in Seq(Events) /\ Len(one) = 1 /\ one[1] = u
  OBVIOUS
<1> HIDE DEF one
<1>2. /\ n \in Nat /\ both \in Seq(Events) /\ Len(both) = n + 1
      /\ \A k \in 1..n + 1 : both[k] = IF k <= n THEN log[k] ELSE one[k - n]
  <2>1. /\ both \in Seq(Events)
        /\ Len(both) = Len(log) + Len(one)
        /\ \A k \in 1..Len(log) + Len(one) :
             both[k] = IF k <= Len(log) THEN log[k] ELSE one[k - Len(log)]
    BY <1>1, ConcatProperties DEF LogTyped
  <2>2. n \in Nat
    BY LenProperties DEF LogTyped
  <2> QED
    BY <1>1, <2>1, <2>2
<1>3. log' = both
  BY DEF one, both
<1> HIDE DEF both, n
<1>4. both[n + 1] = u
  <2>1. n + 1 \in 1..n + 1 /\ ~ (n + 1 <= n) /\ (n + 1) - n = 1
    BY <1>2
  <2> QED
    BY <1>1, <1>2, <2>1
<1>5. both # <<>>
  BY <1>2
<1> QED
  BY <1>2, <1>3, <1>4, <1>5 DEF Last

\* Filled: the last callback says so, and the order is in no book.
LEMMA FilledAcknowledged ==
  ASSUME TypeOK, Placed, LogTyped, ReturnFilled
  PROVE  AckAgrees'
<1> DEFINE u == OrderUpdate(call.id, "Filled", 0)
<1>1. call # Idle /\ call.id \in OrderIds /\ call.id \in CallIds
  BY CallTyped DEF ReturnFilled, CallIds
<1>2. u \in Events /\ u.event = "OrderUpdate" /\ u.id = call.id
      /\ u.status = "Filled" /\ u.remaining = 0
  BY <1>1 DEF OrderUpdate, Events
<1>3. log' = log \o <<u>>
  BY DEF ReturnFilled, CallBack
<1> HIDE DEF u
<1>4. log' # <<>> /\ Last(log') = u
  BY <1>2, <1>3, LastOfLog
<1>5. \A s \in Symbols : \A i \in DOMAIN books'[s] : books'[s][i].id # call.id
  <2>1. call.id \notin RestingIds /\ books' = books
    BY <1>1 DEF Placed, ReturnFilled
  <2> QED
    BY <2>1, RestingAt
<1>6. CASE call.kind = "add"
  <2>1. ret' = Ack(call.id, "Filled")
    BY <1>6 DEF ReturnFilled
  <2>2. ret'.id = call.id /\ ret'.status = "Filled"
    BY <2>1 DEF Ack
  <2>3. ~ Resting(ret.id)'
    BY <1>5, <2>2 DEF Resting, At
  <2> QED
    BY <1>2, <1>4, <2>2, <2>3 DEF AckAgrees
<1>7. CASE call.kind # "add"
  BY <1>7 DEF ReturnFilled, AckAgrees, Amended
<1> QED
  BY <1>6, <1>7

\* Accepted: the last callback reports what the order pushed back has left.
LEMMA AcceptedAcknowledged ==
  ASSUME TypeOK, LogTyped, ReturnResting
  PROVE  AckAgrees'
<1> DEFINE u == OrderUpdate(call.id, "Accepted", call.remaining)
           o == [id |-> call.id, side |-> call.side,
                 price |-> call.price, remaining |-> call.remaining]
           book == books[call.symbol]
<1>1. /\ call.id \in OrderIds /\ call.symbol \in Symbols /\ call.remaining \in Nat
      /\ o \in Orders /\ o.id = call.id /\ o.remaining = call.remaining
  BY CallTyped DEF ReturnResting, Orders
<1>2. u \in Events /\ u.event = "OrderUpdate" /\ u.id = call.id
      /\ u.status = "Accepted" /\ u.remaining = call.remaining
  BY <1>1 DEF OrderUpdate, Events
<1>3. books' = [books EXCEPT ![call.symbol] = Append(book, o)]
  BY DEF ReturnResting, RestRemainder
<1>4. CASE call.kind = "add"
  <2>1. log' = log \o <<u>> /\ ret' = Ack(call.id, "Accepted")
    BY <1>4 DEF ReturnResting, RestRemainder, CallBack
  <2> HIDE DEF u, o
  <2>2. log' # <<>> /\ Last(log') = u
    BY <1>2, <2>1, LastOfLog
  <2>3. ret'.id = call.id /\ ret'.status = "Accepted"
    BY <2>1 DEF Ack
  <2>4. /\ Len(book) + 1 \in DOMAIN books'[call.symbol]
        /\ books'[call.symbol][Len(book) + 1] = o
    <3>1. books'[call.symbol] = Append(book, o)
      BY <1>1, <1>3 DEF TypeOK
    <3>2. /\ Len(book) \in Nat
          /\ DOMAIN Append(book, o) = 1..Len(book) + 1
          /\ Append(book, o)[Len(book) + 1] = o
      BY <1>1, BookTyped, AppendProperties, LenProperties
    <3> QED
      BY <3>1, <3>2
  <2>5. \E s \in Symbols : \E i \in DOMAIN books'[s] :
          books'[s][i].id = call.id /\ books'[s][i].remaining = call.remaining
    BY <1>1, <2>4
  <2> QED
    BY <1>2, <2>2, <2>3, <2>5 DEF AckAgrees, At
<1>5. CASE call.kind # "add"
  BY <1>5 DEF ReturnResting, RestRemainder, AckAgrees, Amended
<1> QED
  BY <1>4, <1>5

\* When addOrder returns, its acknowledgement, its last callback and the book
\* agree: Accepted with what rests, or Filled and gone.
THEOREM AcksAgree == Spec => []AckAgrees
<1>1. Init => AckAgrees
  BY DEF Init, AckAgrees
<1>2. TypeOK /\ TypeOK' /\ Placed /\ LogTyped /\ AckAgrees /\ [Next]_vars => AckAgrees'
  <2> SUFFICES ASSUME TypeOK, TypeOK', Placed, LogTyped, AckAgrees, [Next]_vars
               PROVE  AckAgrees'
    OBVIOUS
  <2>1. ASSUME NEW symbol, NEW price, NEW quantity, AddRejected(symbol, price, quantity)
        PROVE  AckAgrees'
    BY <2>1 DEF AddRejected, AckAgrees, Ack
  <2>2. ASSUME call' # Idle
        PROVE  AckAgrees'
    BY <2>2 DEF AckAgrees
  <2>3. ASSUME ret'.op # "addOrder"
        PROVE  AckAgrees'
    BY <2>3 DEF AckAgrees
  <2>4. ASSUME NEW symbol \in Symbols \cup {EmptySymbol}, NEW price \in Prices,
               NEW quantity \in Quantities, NEW side \in Sides,
               AddOrder(symbol, side, price, quantity)
        PROVE  AckAgrees'
    <3>1. call' # Idle
      BY <2>4 DEF AddOrder, Idle
    <3> QED
      BY <2>2, <3>1
  <2>5. ASSUME NEW id, NEW symbol, NEW i, CancelMissed(id) \/ CancelOrder(id, symbol, i)
        PROVE  AckAgrees'
    BY <2>3, <2>5 DEF CancelMissed, CancelOrder, Cancelled
  <2>6. ASSUME NEW id, NEW price, NEW quantity, NEW symbol, NEW i,
               \/ AmendMissed(id, price, quantity)
               \/ AmendInPlace(id, symbol, i, price, quantity)
        PROVE  AckAgrees'
    BY <2>3, <2>6 DEF AmendMissed, AmendInPlace, Amended
  <2>7. ASSUME NEW id, NEW price, NEW quantity, NEW symbol, NEW i,
               AmendRematch(id, symbol, i, price, quantity)
        PROVE  AckAgrees'
    <3>1. call' # Idle
      BY <2>7 DEF AmendRematch, Idle
    <3> QED
      BY <2>2, <3>1
  <2>8. CASE MatchStep
    <3>1. PICK i \in DOMAIN books[call.symbol] : Fill(i)
      BY <2>8 DEF MatchStep
    <3>2. call' # Idle
      BY <2>8, <3>1, FillEffect, CallsNotIdle DEF MatchStep
    <3> QED
      BY <2>2, <3>2
  <2>9. CASE UNCHANGED vars
    BY <2>9 DEF vars, AckAgrees, Resting, At
  <2> QED
    BY <2>1, <2>4, <2>5, <2>6, <2>7, <2>8, <2>9, FilledAcknowledged, AcceptedAcknowledged
       DEF Next, Advance
<1> QED
  BY <1>1, <1>2, TypeCorrect, OrdersPlaced, LogOfEvents, PTL DEF Spec

-----------------------------------------------------------------------------
(* No lot is lost or filled twice.  QuantityConserved speaks of the sum of *)
(* all trades of a call: the step that sum is made of, then the sum.       *)

\* Of the orders that rest after a fill, the one it was made with has lost the
\* lots traded, unless that was all it had; the others are as they were.
OnlyTakes(lots, resting) ==
  \A s \in Symbols : \A j \in DOMAIN books'[s] :
    \/ /\ books'[s][j].id = resting.id
       /\ books'[s][j].remaining = resting.remaining - lots
       /\ lots < resting.remaining
    \/ /\ books'[s][j].id # resting.id
       /\ \E n \in DOMAIN books[s] : books'[s][j] = books[s][n]

\* A fill reports one more trade, with an order of the book, whose lots leave
\* the two orders.
LotsMoved ==
  LET k == Len(log) + 1
      lots == log'[k].quantity
  IN  /\ TradesOf(log') = TradesOf(log) \cup {k}
      /\ \A m \in TradesOf(log) : log'[m] = log[m]
      /\ k \notin TradesOf(log)
      /\ call'.remaining = call.remaining - lots
      /\ call'.quantity = call.quantity
      /\ lots > 0 /\ lots <= call.remaining
      /\ \E i \in DOMAIN books[call.symbol] :
           /\ Passive(log'[k], call.id) = books[call.symbol][i].id
           /\ lots <= books[call.symbol][i].remaining
           /\ OnlyTakes(lots, books[call.symbol][i])

\* What a call begins with, and what each step of it does.
LotsConserved ==
  call' # Idle =>
    IF call = Idle THEN call'.remaining = call'.quantity /\ TradesOf(log') = {}
                   ELSE LotsMoved

LEMMA FillMovesLots ==
  ASSUME TypeOK, Placed, HasQuantity, LogTyped, MatchStep
  PROVE  LotsMoved
<1> DEFINE book == books[call.symbol]
           k == Len(log) + 1
<1>1. PICK i \in DOMAIN book : Fill(i)
  BY DEF MatchStep
<1> DEFINE resting == book[i]
           qty == Smaller(call.remaining, resting.remaining)
<1>2. /\ call # Idle /\ call.remaining > 0 /\ call \in Calls
      /\ call.symbol \in Symbols /\ call.remaining \in Nat
      /\ book \in Seq(Orders) /\ resting.remaining \in Nat /\ resting.remaining > 0
  BY CallTyped, BookTyped DEF MatchStep, HasQuantity
<1>3. PICK t \in Events, u \in Events :
           /\ log' = log \o <<t, u>>
           /\ IsTrade(t) /\ u.event = "OrderUpdate"
           /\ Passive(t, call.id) = resting.id
           /\ t.quantity = qty
  BY <1>1, <1>2, FillEvents
<1>4. /\ Len(log) \in Nat /\ DOMAIN log = 1..Len(log)
      /\ \A m \in DOMAIN log : log'[m] = log[m]
      /\ log'[k] = t
      /\ TradesOf(log') = TradesOf(log) \cup {k}
  BY <1>3, LogAfterFill DEF IsTrade
<1>5. k \notin TradesOf(log) /\ \A m \in TradesOf(log) : log'[m] = log[m]
  BY <1>4 DEF TradesOf
<1>6. /\ qty \in Nat /\ qty <= call.remaining /\ qty <= resting.remaining
      /\ call' = [call EXCEPT !.remaining = call.remaining - qty]
      /\ \A s \in Symbols \ {call.symbol} : books'[s] = books[s]
      /\ IF qty = resting.remaining
           THEN books'[call.symbol] = RemoveAt(book, i)
           ELSE books'[call.symbol] = [book EXCEPT ![i].remaining = resting.remaining - qty]
  BY <1>1, <1>2, FillEffect
<1>7. qty > 0
  BY <1>2 DEF Smaller
<1>8. /\ call'.remaining = call.remaining - qty
      /\ call'.quantity = call.quantity
  <2> HIDE DEF qty
  <2> QED
    BY <1>2, <1>6 DEF Calls
<1>9. \A s \in Symbols : \A n \in DOMAIN books[s] :
        books[s][n].id = resting.id => s = call.symbol /\ n = i
  BY <1>1, <1>2 DEF Placed, IdsDistinct
<1>10. ASSUME NEW s \in Symbols, NEW j \in DOMAIN books'[s]
       PROVE  \/ /\ books'[s][j].id = resting.id
                 /\ books'[s][j].remaining = resting.remaining - qty
                 /\ qty < resting.remaining
              \/ /\ books'[s][j].id # resting.id
                 /\ \E n \in DOMAIN books[s] : books'[s][j] = books[s][n]
  <2>1. CASE s # call.symbol
    BY <1>6, <1>9, <1>10, <2>1
  <2>2. CASE s = call.symbol /\ qty = resting.remaining
    <3> DEFINE new == RemoveAt(book, i)
    <3>1. PICK f : Thins(new, book, f) /\ \A n \in DOMAIN new : f[n] # i /\ new[n] = book[f[n]]
      BY <1>1, <1>2, EraseThins
    <3> HIDE DEF new
    <3>2. books'[s] = new
      BY <1>6, <2>2 DEF new
    <3>3. f[j] \in DOMAIN books[s] /\ f[j] # i /\ books'[s][j] = books[s][f[j]]
      BY <1>10, <2>2, <3>1, <3>2 DEF Thins
    <3> QED
      BY <1>9, <2>2, <3>3
  <2>3. CASE s = call.symbol /\ qty # resting.remaining
    <3> DEFINE left == resting.remaining - qty
               new == [book EXCEPT ![i].remaining = left]
    <3>1. left \in Nat /\ qty < resting.remaining
      BY <1>2, <1>6, <2>3
    <3>2. books'[s] = new
      BY <1>6, <2>3
    <3>3. CASE j = i
      <4> HIDE DEF left
      <4>1. /\ DOMAIN new = DOMAIN book
            /\ \A n \in DOMAIN book :
                 new[n].id = book[n].id
                 /\ new[n].remaining = IF n = i THEN left ELSE book[n].remaining
        BY SMTT(40), <1>1, <1>2, <3>1, RefillProperties
      <4> HIDE DEF new
      <4>2. books'[s][j].id = resting.id /\ books'[s][j].remaining = left
        BY <1>1, <3>2, <3>3, <4>1
      <4> QED
        BY <3>1, <4>2 DEF left
    <3>4. CASE j # i
      <4>1. j \in DOMAIN books[s] /\ books'[s][j] = books[s][j]
        BY <1>10, <2>3, <3>2, <3>4
      <4> QED
        BY <1>9, <3>4, <4>1
    <3> QED
      BY <3>3, <3>4
  <2> QED
    BY <2>1, <2>2, <2>3
<1>11. log'[k].quantity = qty /\ Passive(log'[k], call.id) = resting.id
  BY <1>3, <1>4
<1>12. OnlyTakes(qty, resting)
  <2> HIDE DEF qty, resting
  <2> QED
    BY <1>10 DEF OnlyTakes
<1>13. \E n \in DOMAIN book :
         /\ Passive(log'[k], call.id) = book[n].id
         /\ qty <= book[n].remaining
         /\ OnlyTakes(qty, book[n])
  BY <1>1, <1>6, <1>11, <1>12
<1> HIDE DEF qty
<1> QED
  BY <1>4, <1>5, <1>6, <1>7, <1>8, <1>11, <1>13 DEF LotsMoved

\* A call that begins has all it asked for left, and reported nothing.
LEMMA CallBegins ==
  ASSUME call = Idle, Next, call' # Idle
  PROVE  log' = <<>> /\ call'.remaining = call'.quantity
<1>1. ASSUME NEW symbol, NEW price, NEW quantity, NEW side,
             AddOrder(symbol, side, price, quantity)
      PROVE  log' = <<>> /\ call'.remaining = call'.quantity
  BY <1>1 DEF AddOrder, BeginCall
<1>2. ASSUME NEW id, NEW price, NEW quantity, NEW symbol, NEW i,
             AmendRematch(id, symbol, i, price, quantity)
      PROVE  log' = <<>> /\ call'.remaining = call'.quantity
  BY <1>2 DEF AmendRematch, BeginCall
<1>3. ASSUME NEW id, NEW price, NEW quantity, NEW symbol, NEW i,
             \/ AddRejected(symbol, price, quantity)
             \/ CancelMissed(id)
             \/ CancelOrder(id, symbol, i)
             \/ AmendMissed(id, price, quantity)
             \/ AmendInPlace(id, symbol, i, price, quantity)
      PROVE  FALSE
  BY <1>3 DEF AddRejected, CancelMissed, CancelOrder, AmendMissed, AmendInPlace
<1>4. ~ Advance
  BY DEF Advance, MatchStep, ReturnFilled, ReturnResting
<1> QED
  BY <1>1, <1>2, <1>3, <1>4 DEF Next

\* A client's request waits for the call before it to return.
LEMMA CallGoesOn ==
  ASSUME call # Idle, Next
  PROVE  Advance
<1>1. ASSUME NEW id, NEW price, NEW quantity, NEW symbol, NEW side, NEW i,
             \/ AddRejected(symbol, price, quantity)
             \/ AddOrder(symbol, side, price, quantity)
             \/ CancelMissed(id)
             \/ CancelOrder(id, symbol, i)
             \/ AmendMissed(id, price, quantity)
             \/ AmendInPlace(id, symbol, i, price, quantity)
             \/ AmendRematch(id, symbol, i, price, quantity)
      PROVE  FALSE
  BY <1>1 DEF AddRejected, AddOrder, CancelMissed, CancelOrder, AmendMissed, AmendInPlace,
              AmendRematch, BeginCall
<1> QED
  BY <1>1 DEF Next

\* A call starts with all the lots of its request to trade, and every step of
\* it takes out of both orders exactly the lots of the one trade it reports.
THEOREM LotsAreConserved == Spec => [][LotsConserved]_vars
<1>1. TypeOK /\ Placed /\ HasQuantity /\ LogTyped /\ [Next]_vars => [LotsConserved]_vars
  <2> SUFFICES ASSUME TypeOK, Placed, HasQuantity, LogTyped, Next, call' # Idle
               PROVE  LotsConserved
    BY DEF LotsConserved
  <2>1. CASE call = Idle
    BY <2>1, CallBegins DEF LotsConserved, TradesOf
  <2>2. CASE call # Idle
    <3>1. MatchStep
      BY <2>2, CallGoesOn DEF Advance, ReturnFilled, ReturnResting, RestRemainder
    <3> QED
      BY <2>2, <3>1, FillMovesLots DEF LotsConserved
  <2> QED
    BY <2>1, <2>2
<1> QED
  BY <1>1, TypeCorrect, OrdersPlaced, OrdersBalanced, LogOfEvents, PTL DEF Spec

\* The lots of some of the events, as the sum of a function.
Traded(events, T) == SumFunctionOnSet([k \in T |-> events[k].quantity], T)

LEMMA SumOfQuantities ==
  ASSUME NEW events, NEW T, IsFiniteSet(T)
  PROVE  MapThenSumSet(LAMBDA k : events[k].quantity, T) = Traded(events, T)
<1> DEFINE f == [k \in T |-> events[k].quantity]
           Solves(g) == g = [s \in SUBSET T |->
                               IF s = {} THEN 0
                               ELSE events[Some(s)].quantity + g[s \ {Some(s)}]]
           sum == CHOOSE g : Solves(g)
<1>1. MapThenSumSet(LAMBDA k : events[k].quantity, T) = sum[T]
  BY DEF MapThenSumSet, MapThenFoldSet, Some
<1>2. ASSUME NEW g PROVE Solves(g) <=> SumsOver(g, f, T)
  <2>1. \A s \in SUBSET T : s # {} => f[Some(s)] = events[Some(s)].quantity
    BY SomeOf
  <2> QED
    BY <2>1 DEF SumsOver
<1>3. \E g : Solves(g)
  <2>1. \E g : SumsOver(g, f, T)
    BY SumsExist
  <2> HIDE DEF f, Solves
  <2> QED
    BY <1>2, <2>1
<1>4. SumsOver(sum, f, T)
  <2>1. Solves(sum)
    BY <1>3
  <2> HIDE DEF sum, f, Solves
  <2> QED
    BY <1>2, <2>1
<1> HIDE DEF sum
<1>5. PICK g : SumsOver(g, f, T) /\ SumFunctionOnSet(f, T) = g[T]
  BY SumSolved
<1>6. sum[T] = g[T]
  <2> HIDE DEF f
  <2> QED
    BY <1>4, <1>5, SumsAgree
<1> QED
  BY <1>1, <1>5, <1>6 DEF Traded

LEMMA TradesFinite ==
  ASSUME NEW events, events \in Seq(Events)
  PROVE  /\ IsFiniteSet(TradesOf(events))
         /\ \A k \in TradesOf(events) : events[k].quantity \in Int
<1>1. DOMAIN events = 1..Len(events) /\ Len(events) \in Nat
  OBVIOUS
<1>2. IsFiniteSet(DOMAIN events) /\ TradesOf(events) \subseteq DOMAIN events
  BY <1>1, FS_Interval DEF TradesOf
<1> QED
  BY <1>2, FS_Subset DEF TradesOf, IsTrade, Events

\* One trade more adds its lots.
LEMMA TradedOneMore ==
  ASSUME NEW old, NEW new, NEW T, NEW k, NEW all, k \notin T, all = T \cup {k},
         IsFiniteSet(T), \A m \in T : new[m] = old[m],
         \A m \in all : new[m].quantity \in Int
  PROVE  /\ Traded(new, all) = Traded(old, T) + new[k].quantity
         /\ Traded(old, T) \in Int
<1> DEFINE f == [m \in all |-> new[m].quantity]
           h == [m \in T |-> old[m].quantity]
<1>1. (\A m \in all : f[m] \in Int) /\ \A m \in T : f[m] = h[m] /\ h[m] \in Int
  OBVIOUS
<1>2. f[k] = new[k].quantity
  OBVIOUS
<1> HIDE DEF f, h
<1>3. SumFunctionOnSet(f, all) = SumFunctionOnSet(f, T) + f[k]
  BY <1>1, SumOfOneMore
<1>4. SumFunctionOnSet(f, T) = SumFunctionOnSet(h, T)
  BY <1>1, SumOfSame
<1>5. SumFunctionOnSet(h, T) \in Int
  BY <1>1, SumOfIntegers
<1> QED
  BY <1>2, <1>3, <1>4, <1>5 DEF Traded, f, h

\* QuantityConserved, with the sum as that of a function.
LotsAddUp ==
  call # Idle => call.quantity = call.remaining + Traded(log, TradesOf(log))

LEMMA LotsAddUpOfSum ==
  ASSUME LogTyped
  PROVE  QuantityConserved <=> LotsAddUp
<1>1. IsFiniteSet(TradesOf(log))
  BY TradesFinite DEF LogTyped
<1>2. MapThenSumSet(LAMBDA k : log[k].quantity, TradesOf(log)) = Traded(log, TradesOf(log))
  BY <1>1, SumOfQuantities
<1> QED
  BY <1>2 DEF QuantityConserved, LotsAddUp

\* While a call runs, what its order traded and what it has left add up to what
\* the request asked for: no lot is lost or filled twice.
THEOREM QuantityIsConserved == Spec => []QuantityConserved
<1>1. Init => LotsAddUp
  BY DEF Init, LotsAddUp
<1>2. TypeOK /\ LogTyped /\ LogTyped' /\ TypeOK' /\ LotsAddUp /\ [LotsConserved]_vars
        => LotsAddUp'
  <2> SUFFICES ASSUME TypeOK, LogTyped, TypeOK', LogTyped', LotsAddUp,
                      [LotsConserved]_vars, call' # Idle
               PROVE  call'.quantity = call'.remaining + Traded(log', TradesOf(log'))
    BY DEF LotsAddUp
  <2> DEFINE now == TradesOf(log)
             next == TradesOf(log')
  <2>1. /\ IsFiniteSet(now)
        /\ \A k \in next : log'[k].quantity \in Int
    BY TradesFinite DEF LogTyped
  <2>2. call'.remaining \in Int /\ call'.quantity \in Int
    BY DEF TypeOK, Calls
  <2>3. CASE UNCHANGED vars
    BY <2>3 DEF LotsAddUp, vars
  <2>4. CASE LotsConserved /\ call = Idle
    <3>1. call'.remaining = call'.quantity /\ next = {}
      BY <2>4 DEF LotsConserved
    <3>2. Traded(log', next) = 0
      BY <3>1, SumOfNothing DEF Traded
    <3> QED
      BY <2>2, <3>1, <3>2
  <2>5. CASE LotsConserved /\ call # Idle
    <3> DEFINE k == Len(log) + 1
    <3>1. /\ next = now \cup {k} /\ k \notin now
          /\ \A m \in now : log'[m] = log[m]
          /\ call'.remaining = call.remaining - log'[k].quantity
          /\ call'.quantity = call.quantity
      BY <2>5 DEF LotsConserved, LotsMoved
    <3>2. /\ call.quantity = call.remaining + Traded(log, now)
          /\ call.remaining \in Int
      BY <2>5 DEF LotsAddUp, TypeOK, Calls
    <3> HIDE DEF k, now, next
    <3>3. /\ Traded(log', next) = Traded(log, now) + log'[k].quantity
          /\ Traded(log, now) \in Int
      BY <2>1, <3>1, TradedOneMore
    <3>4. log'[k].quantity \in Int
      BY <2>1, <3>1
    <3> QED
      BY <2>2, <3>1, <3>2, <3>3, <3>4 DEF next
  <2> QED
    BY <2>3, <2>4, <2>5
<1> QED
  BY <1>1, <1>2, LotsAddUpOfSum, TypeCorrect, LogOfEvents, LotsAreConserved, PTL DEF Spec

-----------------------------------------------------------------------------
(* The market as a function of the books, the call and the ranks.          *)

RestOf(b, ranks) == UNION {{InMarket(b[s][i], s, ranks) : i \in DOMAIN b[s]} : s \in Symbols}

CallOf(c, ranks) ==
  IF c # Idle /\ c.remaining > 0 THEN {InMarket(c, c.symbol, ranks)} ELSE {}

LEMMA MarketParts == MarketOrders = CallOf(call, rank) \cup RestOf(books, rank)
BY DEF MarketOrders, Aggressor, RestingOrders, CallOf, RestOf

LEMMA MarketPartsNext == MarketOrders' = CallOf(call', rank') \cup RestOf(books', rank')
BY DEF MarketOrders, Aggressor, RestingOrders, CallOf, RestOf

LEMMA InRest ==
  ASSUME NEW b, NEW ranks, NEW o
  PROVE  o \in RestOf(b, ranks) <=>
           \E s \in Symbols : \E i \in DOMAIN b[s] : o = InMarket(b[s][i], s, ranks)
BY DEF RestOf

\* Nothing changes for the resting orders while their books and ranks do not.
LEMMA RestUntouched ==
  ASSUME TypeOK, books' = books, \A id \in RestingIds : rank'[id] = rank[id]
  PROVE  RestOf(books', rank') = RestOf(books, rank)
<1>1. \A s \in Symbols : \A i \in DOMAIN books[s] :
        InMarket(books[s][i], s, rank') = InMarket(books[s][i], s, rank)
  BY RestingAt DEF InMarket
<1> QED
  BY <1>1 DEF RestOf

\* Two positions hold two orders of the market.
LEMMA OrdersDiffer ==
  ASSUME TypeOK, IdsDistinct, NEW s \in Symbols, NEW t \in Symbols,
         NEW i \in DOMAIN books[s], NEW j \in DOMAIN books[t],
         InMarket(books[s][i], s, rank) = InMarket(books[t][j], t, rank)
  PROVE  s = t /\ i = j
BY DEF InMarket, IdsDistinct

\* vector::erase takes one order off the market.
LEMMA RestAfterErase ==
  ASSUME TypeOK, IdsDistinct, NEW symbol \in Symbols, NEW i \in DOMAIN books[symbol],
         books' = [books EXCEPT ![symbol] = RemoveAt(books[symbol], i)],
         \A id \in RestingIds \ {books[symbol][i].id} : rank'[id] = rank[id]
  PROVE  RestOf(books', rank') =
           RestOf(books, rank) \ {InMarket(books[symbol][i], symbol, rank)}
<1> DEFINE book == books[symbol]
           new == RemoveAt(book, i)
           gone == InMarket(book[i], symbol, rank)
<1>1. PICK f : /\ Thins(new, book, f)
               /\ \A j \in DOMAIN new : f[j] # i /\ new[j] = book[f[j]]
               /\ \A k \in DOMAIN book \ {i} : \E j \in DOMAIN new : f[j] = k
  <2>1. book \in Seq(Orders) /\ i \in DOMAIN book
    BY BookTyped
  <2> HIDE DEF book
  <2> QED
    BY <2>1, EraseThins
<1>2. books'[symbol] = new /\ \A s \in Symbols \ {symbol} : books'[s] = books[s]
  BY DEF TypeOK
<1>3. \A j \in DOMAIN new : f[j] \in DOMAIN book
  BY <1>1 DEF Thins
<1>4. ASSUME NEW s \in Symbols, NEW j \in DOMAIN books[s], s # symbol \/ j # i
      PROVE  InMarket(books[s][j], s, rank') = InMarket(books[s][j], s, rank)
  <2>1. books[s][j].id \in RestingIds /\ books[s][j].id # books[symbol][i].id
    BY <1>4, RestingAt DEF IdsDistinct
  <2> QED
    BY <2>1 DEF InMarket
<1> HIDE DEF new
<1>5. ASSUME NEW o \in RestOf(books', rank')
      PROVE  o \in RestOf(books, rank) /\ o # gone
  <2>1. PICK s \in Symbols : \E j \in DOMAIN books'[s] : o = InMarket(books'[s][j], s, rank')
    BY <1>5 DEF RestOf
  <2>2. PICK j \in DOMAIN books'[s] : o = InMarket(books'[s][j], s, rank')
    BY <2>1
  <2>3. \E k \in DOMAIN books[s] : books'[s][j] = books[s][k] /\ (s # symbol \/ k # i)
    <3>1. CASE s = symbol
      BY <1>1, <1>2, <1>3, <2>2, <3>1
    <3>2. CASE s # symbol
      BY <1>2, <2>2, <3>2
    <3> QED
      BY <3>1, <3>2
  <2>4. PICK k \in DOMAIN books[s] : books'[s][j] = books[s][k] /\ (s # symbol \/ k # i)
    BY <2>3
  <2>5. o = InMarket(books[s][k], s, rank)
    BY <1>4, <2>2, <2>4
  <2> QED
    BY <2>4, <2>5, InRest, OrdersDiffer
<1>6. ASSUME NEW o \in RestOf(books, rank), o # gone
      PROVE  o \in RestOf(books', rank')
  <2>1. PICK s \in Symbols : \E j \in DOMAIN books[s] : o = InMarket(books[s][j], s, rank)
    BY <1>6, InRest
  <2>2. PICK j \in DOMAIN books[s] : o = InMarket(books[s][j], s, rank)
    BY <2>1
  <2>3. s # symbol \/ j # i
    BY <1>6, <2>2
  <2>4. PICK k \in DOMAIN books'[s] : books'[s][k] = books[s][j]
    BY <1>1, <1>2, <2>3
  <2>5. o = InMarket(books'[s][k], s, rank')
    BY <1>4, <2>2, <2>3, <2>4
  <2> QED
    BY <2>5, InRest
<1> QED
  BY <1>5, <1>6

\* An assignment to remaining_quantity changes the quantity of one order.
LEMMA RestAfterRefill ==
  ASSUME TypeOK, IdsDistinct, rank' = rank,
         NEW symbol \in Symbols, NEW i \in DOMAIN books[symbol], NEW q \in Nat,
         books' = [books EXCEPT ![symbol] = [books[symbol] EXCEPT ![i].remaining = q]]
  PROVE  LET o == InMarket(books[symbol][i], symbol, rank)
         IN  RestOf(books', rank') = (RestOf(books, rank) \ {o}) \cup {[o EXCEPT !.quantity = q]}
<1> DEFINE o == InMarket(books[symbol][i], symbol, rank)
           less == [o EXCEPT !.quantity = q]
<1>1. /\ books'[symbol] = [books[symbol] EXCEPT ![i].remaining = q]
      /\ \A s \in Symbols \ {symbol} : books'[s] = books[s]
  BY DEF TypeOK
<1>2. /\ DOMAIN books'[symbol] = DOMAIN books[symbol]
      /\ \A j \in DOMAIN books[symbol] :
           InMarket(books'[symbol][j], symbol, rank) =
             IF j = i THEN less ELSE InMarket(books[symbol][j], symbol, rank)
  <2> DEFINE book == books[symbol]
             new == [book EXCEPT ![i].remaining = q]
  <2>1. book \in Seq(Orders)
    BY BookTyped
  <2>2. /\ DOMAIN new = DOMAIN book
        /\ \A j \in DOMAIN book :
             /\ new[j].id = book[j].id
             /\ new[j].side = book[j].side
             /\ new[j].price = book[j].price
             /\ new[j].remaining = IF j = i THEN q ELSE book[j].remaining
    <3> HIDE DEF book
    <3> QED
      BY <2>1, RefillProperties
  <2>3. books'[symbol] = new
    BY <1>1
  <2> HIDE DEF new
  <2> QED
    BY <2>2, <2>3 DEF InMarket
<1> HIDE DEF less
<1> DEFINE Other(m) == \E s \in Symbols : \E j \in DOMAIN books[s] :
                         (s # symbol \/ j # i) /\ m = InMarket(books[s][j], s, rank)
<1>3. \A m : m \in RestOf(books', rank') <=> m = less \/ Other(m)
  <2>1. \A m : m \in RestOf(books', rank') <=>
          \E s \in Symbols : \E j \in DOMAIN books'[s] : m = InMarket(books'[s][j], s, rank)
    BY DEF RestOf
  <2>2. ASSUME NEW s \in Symbols, NEW j \in DOMAIN books'[s]
        PROVE  \/ InMarket(books'[s][j], s, rank) = less
               \/ Other(InMarket(books'[s][j], s, rank))
    <3>1. CASE s = symbol
      BY <1>2, <2>2, <3>1
    <3>2. CASE s # symbol
      BY <1>1, <2>2, <3>2
    <3> QED
      BY <3>1, <3>2
  <2>3. ASSUME NEW s \in Symbols, NEW j \in DOMAIN books[s], s # symbol \/ j # i
        PROVE  j \in DOMAIN books'[s] /\ InMarket(books'[s][j], s, rank) = InMarket(books[s][j], s, rank)
    <3>1. CASE s = symbol
      BY <1>2, <2>3, <3>1
    <3>2. CASE s # symbol
      BY <1>1, <3>2
    <3> QED
      BY <3>1, <3>2
  <2>4. i \in DOMAIN books'[symbol] /\ InMarket(books'[symbol][i], symbol, rank) = less
    BY <1>2
  <2>5. ASSUME NEW m \in RestOf(books', rank')
        PROVE  m = less \/ Other(m)
    <3>1. PICK s \in Symbols : \E j \in DOMAIN books'[s] : m = InMarket(books'[s][j], s, rank)
      BY ONLY <2>1, <2>5
    <3>2. PICK j \in DOMAIN books'[s] : m = InMarket(books'[s][j], s, rank)
      BY <3>1
    <3> HIDE DEF Other
    <3> QED
      BY <2>2, <3>2
  <2>6. ASSUME NEW m, m = less \/ Other(m)
        PROVE  m \in RestOf(books', rank')
    <3>1. CASE Other(m)
      <4>1. PICK s \in Symbols : \E j \in DOMAIN books[s] :
                (s # symbol \/ j # i) /\ m = InMarket(books[s][j], s, rank)
        BY <3>1
      <4>2. PICK j \in DOMAIN books[s] :
                (s # symbol \/ j # i) /\ m = InMarket(books[s][j], s, rank)
        BY <4>1
      <4> QED
        BY <2>1, <2>3, <4>2
    <3>2. CASE m = less
      BY <2>1, <2>4, <3>2
    <3> QED
      BY <2>6, <3>1, <3>2
  <2> QED
    BY <2>5, <2>6
<1>4. \A m : m \in RestOf(books, rank) \ {o} <=> Other(m)
  BY InRest, OrdersDiffer
<1> HIDE DEF Other
<1>5. RestOf(books', rank') = (RestOf(books, rank) \ {o}) \cup {less}
  BY <1>3, <1>4
<1> QED
  BY <1>5 DEF less

\* push_back puts one order on the market.
LEMMA RestAfterAppend ==
  ASSUME TypeOK, rank' = rank, NEW symbol \in Symbols, NEW o \in Orders,
         books' = [books EXCEPT ![symbol] = Append(books[symbol], o)]
  PROVE  RestOf(books', rank') = RestOf(books, rank) \cup {InMarket(o, symbol, rank)}
<1>1. /\ books'[symbol] = Append(books[symbol], o)
      /\ \A s \in Symbols \ {symbol} : books'[s] = books[s]
  BY DEF TypeOK
<1>2. /\ Len(books[symbol]) \in Nat
      /\ DOMAIN books[symbol] = 1..Len(books[symbol])
      /\ DOMAIN books'[symbol] = 1..Len(books[symbol]) + 1
      /\ books'[symbol][Len(books[symbol]) + 1] = o
      /\ \A j \in 1..Len(books[symbol]) : books'[symbol][j] = books[symbol][j]
  BY <1>1, BookTyped, AppendProperties, LenProperties
<1> DEFINE Held(m) == \E s \in Symbols : \E i \in DOMAIN books[s] : m = InMarket(books[s][i], s, rank)
           HeldNext(m) == \E s \in Symbols : \E i \in DOMAIN books'[s] : m = InMarket(books'[s][i], s, rank)
<1>3. ASSUME NEW m, HeldNext(m)
      PROVE  Held(m) \/ m = InMarket(o, symbol, rank)
  <2>1. PICK s \in Symbols : \E i \in DOMAIN books'[s] : m = InMarket(books'[s][i], s, rank)
    BY <1>3
  <2>2. PICK i \in DOMAIN books'[s] : m = InMarket(books'[s][i], s, rank)
    BY <2>1
  <2>3. CASE s = symbol
    BY <1>2, <2>2, <2>3
  <2>4. CASE s # symbol
    BY <1>1, <2>2, <2>4
  <2> QED
    BY <2>3, <2>4
<1>4. ASSUME NEW m, Held(m)
      PROVE  HeldNext(m)
  <2>1. PICK s \in Symbols : \E i \in DOMAIN books[s] : m = InMarket(books[s][i], s, rank)
    BY <1>4
  <2>2. PICK i \in DOMAIN books[s] : m = InMarket(books[s][i], s, rank)
    BY <2>1
  <2>3. i \in DOMAIN books'[s] /\ books'[s][i] = books[s][i]
    <3>1. CASE s = symbol
      BY <1>2, <3>1
    <3>2. CASE s # symbol
      BY <1>1, <3>2
    <3> QED
      BY <3>1, <3>2
  <2> QED
    BY <2>2, <2>3
<1>5. HeldNext(InMarket(o, symbol, rank))
  <2>1. Len(books[symbol]) + 1 \in DOMAIN books'[symbol]
    BY <1>2
  <2> QED
    BY <1>2, <2>1
<1>6. \A m : m \in RestOf(books', rank) <=> Held(m) \/ m = InMarket(o, symbol, rank)
  <2>1. \A m : m \in RestOf(books', rank) <=> HeldNext(m)
    BY DEF RestOf
  <2> HIDE DEF Held, HeldNext
  <2> QED
    BY <1>3, <1>4, <1>5, <2>1
<1>7. \A m : m \in RestOf(books, rank) <=> Held(m)
  BY InRest
<1> HIDE DEF Held
<1> QED
  BY <1>6, <1>7

-----------------------------------------------------------------------------
(* The callbacks and the tape.                                             *)

\* Trades are at the odd positions of the log, each with an update behind it;
\* a call that has not returned has sent nothing else.
TradesAlternate ==
  /\ call # Idle => Len(log) % 2 = 0
  /\ TradesOf(log) = {k \in DOMAIN log : k % 2 = 1 /\ k < Len(log)}

LEMMA EvenHalves ==
  ASSUME NEW n \in Nat, n % 2 = 0
  PROVE  /\ n \div 2 \in Nat /\ n = 2 * (n \div 2)
         /\ (n + 1) \div 2 = n \div 2
         /\ (n + 2) \div 2 = n \div 2 + 1
OBVIOUS

\* A step that sends at most one update, or begins with one, makes no trade.
LEMMA ShortLog ==
  ASSUME LogTyped, log' = <<>> \/ \E u \in Events : log' = <<u>> /\ ~ IsTrade(u)
  PROVE  /\ TradesOf(log') = {} /\ Len(log') \in {0, 1} /\ DOMAIN log' = 1..Len(log')
         /\ Tape' = <<>>
<1>1. /\ TradesOf(log') = {} /\ Len(log') \in {0, 1} /\ DOMAIN log' = 1..Len(log')
  BY DEF TradesOf
<1>2. 1..Len(log') \div 2 = {}
  BY <1>1
<1>3. Tape' = [k \in {} |-> OnTape(log'[2 * k - 1])]
  BY <1>2 DEF Tape
<1>4. Tape' = <<>>
  BY <1>3
<1> QED
  BY <1>1, <1>4

\* A fill puts one trade on the tape.
LEMMA TapeAfterFill ==
  ASSUME LogTyped, Len(log) % 2 = 0, NEW t \in Events, NEW u \in Events,
         IsTrade(t), ~ IsTrade(u), log' = log \o <<t, u>>
  PROVE  Tape' = Append(Tape, OnTape(t))
<1> DEFINE n == Len(log) \div 2
<1>1. /\ Len(log) \in Nat /\ DOMAIN log = 1..Len(log)
      /\ DOMAIN log' = 1..Len(log) + 2
      /\ \A k \in DOMAIN log : log'[k] = log[k]
      /\ log'[Len(log) + 1] = t
  BY LogAfterFill
<1>2. log' \in Seq(Events) /\ Len(log') = Len(log) + 2
  <2>1. log' \in Seq(Events)
    BY ConcatProperties DEF LogTyped
  <2> QED
    BY <1>1, <2>1, LenProperties
<1>3. /\ n \in Nat /\ Len(log) = 2 * n
      /\ Len(log') \div 2 = n + 1
      /\ 2 * (n + 1) - 1 = Len(log) + 1
      /\ \A k \in 1..n : 2 * k - 1 \in 1..Len(log)
  <2>1. n \in Nat /\ Len(log) = 2 * n /\ (Len(log) + 2) \div 2 = n + 1
    BY <1>1, EvenHalves
  <2> HIDE DEF n
  <2>2. \A k \in 1..n : 2 * k - 1 \in 1..2 * n
    BY ONLY <2>1
  <2> QED
    BY ONLY <1>2, <2>1, <2>2
<1> HIDE DEF n
<1> DEFINE S == {OnTape(log'[2 * k - 1]) : k \in 1..n + 1}
<1>4. Tape = [k \in 1..n |-> OnTape(log'[2 * k - 1])]
  <2>1. Tape = [k \in 1..n |-> OnTape(log[2 * k - 1])]
    BY DEF Tape, n
  <2>2. \A k \in 1..n : log'[2 * k - 1] = log[2 * k - 1]
    BY <1>1, <1>3
  <2> QED
    BY <2>1, <2>2
<1>5. Tape' = [k \in 1..n + 1 |-> OnTape(log'[2 * k - 1])]
  BY <1>3 DEF Tape
<1>6. OnTape(t) = OnTape(log'[2 * (n + 1) - 1])
  BY <1>1, <1>3
<1>7. /\ Tape \in Seq(S) /\ Len(Tape) = n
      /\ Tape' \in Seq(S) /\ Len(Tape') = n + 1
      /\ OnTape(t) \in S
  <2>1. \A k \in 1..n + 1 : OnTape(log'[2 * k - 1]) \in S
    OBVIOUS
  <2>2. 1..n \subseteq 1..n + 1 /\ n + 1 \in 1..n + 1
    BY <1>3
  <2> HIDE DEF S
  <2>3. Tape \in [1..n -> S] /\ Tape' \in [1..n + 1 -> S] /\ OnTape(t) \in S
    BY <1>4, <1>5, <1>6, <2>1, <2>2
  <2> QED
    BY <1>3, <2>3
<1> HIDE DEF S
<1>8. /\ Append(Tape, OnTape(t)) \in Seq(S)
      /\ Len(Append(Tape, OnTape(t))) = n + 1
      /\ \A k \in 1..n + 1 : Append(Tape, OnTape(t))[k] = Tape'[k]
  <2>1. /\ Append(Tape, OnTape(t)) \in Seq(S)
        /\ Len(Append(Tape, OnTape(t))) = n + 1
        /\ Append(Tape, OnTape(t))[n + 1] = OnTape(t)
        /\ \A k \in 1..n : Append(Tape, OnTape(t))[k] = Tape[k]
    BY <1>3, <1>7, AppendProperties
  <2>2. \A k \in 1..n : Tape'[k] = Tape[k]
    BY <1>3, <1>4, <1>5
  <2>3. Tape'[n + 1] = OnTape(t)
    BY <1>3, <1>5, <1>6
  <2> QED
    BY SMTT(40), <1>3, <2>1, <2>2, <2>3
<1> QED
  BY <1>7, <1>8, SeqEqual

\* A call that returns sends its order's update, or (an amendment) nothing.
LEMMA LastIsUpdate ==
  ASSUME TypeOK, ReturnFilled \/ ReturnResting
  PROVE  log' = log \o <<>> \/ \E u \in Events : log' = log \o <<u>> /\ ~ IsTrade(u)
<1>1. call.id \in OrderIds /\ call.remaining \in Nat
  BY CallTyped DEF ReturnFilled, ReturnResting
<1>2. \A status \in {"Filled", "Accepted"}, left \in Nat :
        LET u == OrderUpdate(call.id, status, left) IN u \in Events /\ ~ IsTrade(u)
  BY <1>1 DEF OrderUpdate, Events, IsTrade
<1>3. CASE ReturnFilled
  BY <1>2, <1>3 DEF ReturnFilled, CallBack
<1>4. CASE ReturnResting
  BY <1>1, <1>2, <1>4 DEF ReturnResting, RestRemainder, CallBack
<1> QED
  BY <1>3, <1>4

\* The call's own update, if it gets one, is not on the tape.
LEMMA TapeAfterReturn ==
  ASSUME LogTyped, Len(log) % 2 = 0,
         log' = log \o <<>> \/ \E u \in Events : log' = log \o <<u>> /\ ~ IsTrade(u)
  PROVE  /\ Tape' = Tape /\ TradesOf(log') = TradesOf(log)
         /\ DOMAIN log = 1..Len(log) /\ DOMAIN log' = 1..Len(log')
         /\ Len(log') \in {Len(log), Len(log) + 1}
<1>1. \A n \in Nat : n # n + 1
  OBVIOUS
<1>2. /\ Len(log) \in Nat /\ DOMAIN log = 1..Len(log)
      /\ DOMAIN log' = 1..Len(log')
      /\ Len(log') \in {Len(log), Len(log) + 1}
      /\ \A k \in DOMAIN log : log'[k] = log[k]
      /\ Len(log') = Len(log) + 1 => ~ IsTrade(log'[Len(log) + 1])
  <2>1. Len(log) \in Nat /\ DOMAIN log = 1..Len(log)
    BY LenProperties DEF LogTyped
  <2>2. CASE log' = log \o <<>>
    <3>1. log' = log
      BY <2>2, ConcatEmptySeq DEF LogTyped
    <3>2. Len(log') = Len(log) /\ DOMAIN log' = DOMAIN log
      BY <3>1
    <3>3. Len(log') # Len(log) + 1
      BY <1>1, <2>1, <3>2
    <3> QED
      BY <2>1, <3>1, <3>2, <3>3
  <2>3. ASSUME NEW u \in Events, log' = log \o <<u>>, ~ IsTrade(u)
        PROVE  /\ Len(log') = Len(log) + 1 /\ DOMAIN log' = 1..Len(log) + 1
               /\ log'[Len(log) + 1] = u
               /\ \A k \in DOMAIN log : log'[k] = log[k]
    <3>1. log' = Append(log, u)
      BY <2>3, AppendIsConcat DEF LogTyped
    <3>2. /\ log' \in Seq(Events) /\ Len(log') = Len(log) + 1
          /\ log'[Len(log) + 1] = u
          /\ \A k \in 1..Len(log) : log'[k] = log[k]
      BY <3>1, AppendProperties DEF LogTyped
    <3> QED
      BY <2>1, <3>2, LenProperties
  <2> QED
    BY <2>1, <2>2, <2>3
<1>3. TradesOf(log') = TradesOf(log)
  <2>1. \A k : k \in DOMAIN log' <=> k \in DOMAIN log \/ (k = Len(log') /\ Len(log') = Len(log) + 1)
    <3>1. CASE Len(log') = Len(log)
      BY <1>1, <1>2, <3>1
    <3>2. CASE Len(log') = Len(log) + 1
      BY <1>2, <3>2
    <3> QED
      BY <1>2, <3>1, <3>2
  <2> QED
    BY <1>2, <2>1 DEF TradesOf
<1>4. Len(log') \div 2 = Len(log) \div 2
  BY <1>2, EvenHalves
<1>5. \A k \in 1..Len(log) \div 2 : log'[2 * k - 1] = log[2 * k - 1]
  <2> DEFINE n == Len(log) \div 2
  <2>1. n \in Nat /\ Len(log) = 2 * n
    BY <1>2, EvenHalves
  <2> HIDE DEF n
  <2>2. \A k \in 1..n : 2 * k - 1 \in 1..Len(log)
    BY <2>1
  <2>3. \A k \in 1..n : log'[2 * k - 1] = log[2 * k - 1]
    BY <1>2, <2>2
  <2> QED
    BY <2>3 DEF n
<1>6. Tape' = Tape
  BY <1>4, <1>5 DEF Tape
<1> QED
  BY <1>2, <1>3, <1>6

-----------------------------------------------------------------------------
(* A command finds the market uncrossed.                                   *)

LEMMA RestUncrossed ==
  ASSUME TypeOK, BooksUncrossed, NEW s \in Symbols,
         NEW i \in DOMAIN books[s], NEW j \in DOMAIN books[s],
         books[s][i].side = "Buy", books[s][j].side = "Sell"
  PROVE  books[s][i].price < books[s][j].price
BY DEF BooksUncrossed

LEMMA IdleIsUncrossed ==
  ASSUME TypeOK, BooksUncrossed, call = Idle
  PROVE  MarketOrders = RestOf(books, rank) /\ ~ Auction!Crossed
<1>1. MarketOrders = RestOf(books, rank)
  BY MarketParts DEF CallOf
<1>2. ASSUME NEW bid \in RestOf(books, rank), NEW ask \in RestOf(books, rank),
             Auction!Crossing(bid, ask)
      PROVE  FALSE
  <2>1. PICK s \in Symbols : \E i \in DOMAIN books[s] : bid = InMarket(books[s][i], s, rank)
    BY InRest
  <2>2. PICK i \in DOMAIN books[s] : bid = InMarket(books[s][i], s, rank)
    BY <2>1
  <2>3. PICK t \in Symbols : \E j \in DOMAIN books[t] : ask = InMarket(books[t][j], t, rank)
    BY InRest
  <2>4. PICK j \in DOMAIN books[t] : ask = InMarket(books[t][j], t, rank)
    BY <2>3
  <2>5. /\ bid.symbol = s /\ bid.side = books[s][i].side /\ bid.price = books[s][i].price
        /\ ask.symbol = t /\ ask.side = books[t][j].side /\ ask.price = books[t][j].price
    BY <2>2, <2>4 DEF InMarket
  <2>6. /\ s = t /\ books[s][i].side = "Buy" /\ books[s][j].side = "Sell"
        /\ books[s][i].price >= books[s][j].price
    BY <1>2, <2>5 DEF Auction!Crossing
  <2>7. books[s][i].price \in Int /\ books[s][j].price \in Int
    BY <2>6, BookTyped
  <2> QED
    BY <2>6, <2>7, RestUncrossed
<1> QED
  BY <1>1, <1>2 DEF Auction!Crossed

\* Every call that begins is a command of the auction, if it changes the
\* market as that command does.
LEMMA CommandGiven ==
  ASSUME TypeOK, BooksUncrossed, LogTyped, call = Idle,
         log' = <<>> \/ \E u \in Events : log' = <<u>> /\ ~ IsTrade(u)
  PROVE  Auction!Command
BY ShortLog, IdleIsUncrossed DEF Auction!Command

\* addOrder enters an order, with the next id and the next priority.
LEMMA AddEnters ==
  ASSUME TypeOK, TypeOK', Placed, BooksUncrossed, LogTyped,
         NEW symbol \in Symbols \cup {EmptySymbol}, NEW side \in Sides,
         NEW price \in Prices, NEW quantity \in Quantities,
         AddOrder(symbol, side, price, quantity)
  PROVE  symbol \in Symbols /\ Auction!Enter(symbol, side, price, quantity)
<1>1. /\ call = Idle /\ log' = <<>> /\ books' = books
      /\ price > 0 /\ quantity # 0 /\ symbol # EmptySymbol
      /\ nextOrderId <= MaxOrders /\ nextRank <= MaxRanks
      /\ nextOrderId' = nextOrderId + 1 /\ nextRank' = nextRank + 1
      /\ rank' = [rank EXCEPT ![nextOrderId] = nextRank]
      /\ call' = [kind |-> "add", id |-> nextOrderId, symbol |-> symbol, side |-> side,
                  price |-> price, quantity |-> quantity, remaining |-> quantity]
  BY DEF AddOrder, ValidRequest, BeginCall, TakeRank
<1>2. symbol \in Symbols /\ quantity \in Nat /\ quantity > 0
  BY <1>1, QuantitiesAssumption
<1>3. nextOrderId \in OrderIds /\ nextOrderId \in Nat /\ rank \in [OrderIds -> Nat]
  BY <1>1, MaxOrdersAssumption DEF TypeOK, OrderIds
<1>4. rank'[nextOrderId] = nextRank /\ \A id \in RestingIds : rank'[id] = rank[id]
  BY <1>1, <1>3 DEF Placed, RestingIds
<1>5. RestOf(books', rank') = RestOf(books, rank)
  BY <1>1, <1>4, RestUntouched
<1>6. CallOf(call', rank') =
        {[id |-> nextOrderId, symbol |-> symbol, side |-> side,
          price |-> price, quantity |-> quantity, rank |-> nextRank]}
  <2>1. call' # Idle
    BY <1>1 DEF Idle
  <2>2. InMarket(call', call'.symbol, rank') =
          [id |-> nextOrderId, symbol |-> symbol, side |-> side,
           price |-> price, quantity |-> quantity, rank |-> nextRank]
    BY <1>1, <1>4 DEF InMarket
  <2>3. call'.remaining > 0
    BY <1>1, <1>2
  <2> QED
    BY <2>1, <2>2, <2>3 DEF CallOf
<1>7. MarketOrders = RestOf(books, rank) /\ Auction!Command
  BY <1>1, IdleIsUncrossed, CommandGiven
<1>8. MarketOrders' = MarketOrders \cup
        {[id |-> nextOrderId, symbol |-> symbol, side |-> side,
          price |-> price, quantity |-> quantity, rank |-> nextRank]}
  BY <1>5, <1>6, <1>7, MarketPartsNext
<1> QED
  BY <1>1, <1>2, <1>7, <1>8 DEF Auction!Enter

\* cancelOrder withdraws the order it finds.
LEMMA CancelWithdraws ==
  ASSUME TypeOK, TypeOK', Placed, BooksUncrossed, LogTyped,
         NEW id \in 0..MaxOrders, NEW symbol \in Symbols,
         NEW i \in DOMAIN books[symbol], CancelOrder(id, symbol, i)
  PROVE  \E o \in MarketOrders : Auction!Withdraw(o)
<1> DEFINE o == InMarket(books[symbol][i], symbol, rank)
<1>1. /\ call = Idle /\ call' = Idle /\ log' = <<OrderUpdate(id, "Cancelled", 0)>>
      /\ books' = [books EXCEPT ![symbol] = RemoveAt(books[symbol], i)]
      /\ rank' = rank /\ UNCHANGED <<nextOrderId, nextRank>>
      /\ id = books[symbol][i].id
  BY DEF CancelOrder, BeginCall, KeepRanks, At
<1>2. OrderUpdate(id, "Cancelled", 0) \in Events /\ ~ IsTrade(OrderUpdate(id, "Cancelled", 0))
  BY <1>1, BookTyped DEF OrderUpdate, Events, IsTrade
<1>3. MarketOrders = RestOf(books, rank) /\ Auction!Command
  BY <1>1, <1>2, IdleIsUncrossed, CommandGiven
<1>4. RestOf(books', rank') = RestOf(books, rank) \ {o}
  BY <1>1, RestAfterErase DEF Placed
<1>5. o \in MarketOrders
  BY <1>3, InRest
<1> HIDE DEF o
<1>6. MarketOrders' = MarketOrders \ {o}
  BY <1>1, <1>3, <1>4, MarketPartsNext DEF CallOf
<1> QED
  BY <1>1, <1>3, <1>5, <1>6 DEF Auction!Withdraw

\* amendOrder in place reduces the order it finds, which keeps its priority.
LEMMA AmendReduces ==
  ASSUME TypeOK, TypeOK', Placed, BooksUncrossed, LogTyped,
         NEW id \in 0..MaxOrders, NEW price \in Prices, NEW quantity \in Quantities,
         NEW symbol \in Symbols, NEW i \in DOMAIN books[symbol],
         AmendInPlace(id, symbol, i, price, quantity)
  PROVE  \E o \in MarketOrders : Auction!Reduce(o, quantity)
<1> DEFINE o == InMarket(books[symbol][i], symbol, rank)
<1>1. /\ call = Idle /\ call' = Idle /\ log' = <<>> /\ quantity \in Nat /\ quantity # 0
      /\ books' = [books EXCEPT ![symbol] = [books[symbol] EXCEPT ![i].remaining = quantity]]
      /\ UNCHANGED nextOrderId
      /\ price = books[symbol][i].price /\ quantity <= books[symbol][i].remaining
  BY QuantitiesAssumption DEF AmendInPlace, BeginCall, ValidAmendment, KeepsPriority
<1>2. books[symbol][i].remaining \in Nat
  BY BookTyped
<1>3. rank' = rank /\ nextRank' = nextRank
  BY <1>1, <1>2 DEF AmendInPlace, KeepRanks
<1>4. MarketOrders = RestOf(books, rank) /\ Auction!Command
  BY <1>1, IdleIsUncrossed, CommandGiven
<1>5. RestOf(books', rank') = (RestOf(books, rank) \ {o}) \cup {[o EXCEPT !.quantity = quantity]}
  BY <1>1, <1>3, RestAfterRefill DEF Placed
<1>6. o \in MarketOrders
  BY <1>4, InRest
<1>7. quantity > 0 /\ quantity <= o.quantity
  BY <1>1 DEF InMarket
<1> HIDE DEF o
<1>8. MarketOrders' = (MarketOrders \ {o}) \cup {[o EXCEPT !.quantity = quantity]}
  BY <1>1, <1>4, <1>5, MarketPartsNext DEF CallOf
<1> QED
  BY <1>1, <1>3, <1>4, <1>6, <1>7, <1>8 DEF Auction!Reduce

\* amendOrder by erasing and matching again replaces the order it finds.
LEMMA AmendReplaces ==
  ASSUME TypeOK, TypeOK', Placed, BooksUncrossed, LogTyped,
         NEW id \in 0..MaxOrders, NEW price \in Prices, NEW quantity \in Quantities,
         NEW symbol \in Symbols, NEW i \in DOMAIN books[symbol],
         AmendRematch(id, symbol, i, price, quantity)
  PROVE  \E o \in MarketOrders : Auction!Replace(o, price, quantity)
<1> DEFINE resting == books[symbol][i]
           o == InMarket(resting, symbol, rank)
           moved == [o EXCEPT !.price = price, !.quantity = quantity, !.rank = nextRank]
<1>1. /\ call = Idle /\ log' = <<>> /\ quantity \in Nat /\ quantity # 0 /\ price > 0
      /\ books' = [books EXCEPT ![symbol] = RemoveAt(books[symbol], i)]
      /\ id = resting.id
      /\ call' = [kind |-> "amend", id |-> id, symbol |-> symbol, side |-> resting.side,
                  price |-> price, quantity |-> quantity, remaining |-> quantity]
      /\ nextRank <= MaxRanks
      /\ rank' = [rank EXCEPT ![id] = nextRank] /\ nextRank' = nextRank + 1
      /\ UNCHANGED nextOrderId
      /\ price # resting.price \/ ~ (quantity <= resting.remaining)
  BY QuantitiesAssumption
     DEF AmendRematch, BeginCall, ValidAmendment, KeepsPriority, TakeRank, At
<1>2. resting.remaining \in Nat /\ id \in OrderIds /\ rank \in [OrderIds -> Nat]
  BY <1>1, BookTyped DEF TypeOK
<1>3. rank'[id] = nextRank /\ \A other \in RestingIds \ {id} : rank'[other] = rank[other]
  BY <1>1, <1>2 DEF RestingIds
<1>4. MarketOrders = RestOf(books, rank) /\ Auction!Command
  BY <1>1, IdleIsUncrossed, CommandGiven
<1>5. RestOf(books', rank') = RestOf(books, rank) \ {o}
  BY <1>1, <1>3, RestAfterErase DEF Placed
<1>6. o \in MarketOrders
  BY <1>4, InRest
<1>7. quantity > 0 /\ (price # o.price \/ quantity > o.quantity)
  BY <1>1, <1>2 DEF InMarket
<1>8. CallOf(call', rank') = {moved}
  <2>1. call' # Idle /\ call'.remaining > 0
    BY <1>1 DEF Idle
  <2>2. moved = [id |-> id, symbol |-> symbol, side |-> resting.side, price |-> price,
                 quantity |-> quantity, rank |-> nextRank]
    <3> DEFINE priced == [o EXCEPT !.price = price]
               filled == [priced EXCEPT !.quantity = quantity]
    <3>1. moved = [filled EXCEPT !.rank = nextRank]
      OBVIOUS
    <3>2. priced = [id |-> id, symbol |-> symbol, side |-> resting.side, price |-> price,
                    quantity |-> resting.remaining, rank |-> rank[id]]
      BY <1>1 DEF InMarket
    <3> HIDE DEF priced
    <3>3. filled = [id |-> id, symbol |-> symbol, side |-> resting.side, price |-> price,
                    quantity |-> quantity, rank |-> rank[id]]
      BY <3>2
    <3> HIDE DEF filled, moved, resting
    <3> QED
      BY <3>1, <3>3
  <2>3. InMarket(call', call'.symbol, rank') = moved
    <3> HIDE DEF moved, resting
    <3> QED
      BY <1>1, <1>3, <2>2 DEF InMarket
  <2> QED
    BY <2>1, <2>3 DEF CallOf
<1> HIDE DEF moved, o
<1>9. MarketOrders' = (MarketOrders \ {o}) \cup {moved}
  BY <1>4, <1>5, <1>8, MarketPartsNext
<1>10. Auction!Replace(o, price, quantity)
  BY <1>1, <1>4, <1>7, <1>9 DEF Auction!Replace, moved
<1> QED
  BY <1>6, <1>10

\* A call that is refused leaves the market as it is.
LEMMA CallRefused ==
  ASSUME TypeOK, BooksUncrossed, LogTyped, call = Idle, log' = <<>>,
         UNCHANGED <<books, call, rank, nextRank, nextOrderId>>
  PROVE  Auction!Refuse
<1>1. MarketOrders' = MarketOrders
  BY MarketParts, MarketPartsNext
<1> QED
  BY <1>1, CommandGiven DEF Auction!Refuse

-----------------------------------------------------------------------------
(* An iteration of matchOrder is a trade of best bid and best ask.         *)

\* The book is not crossed, so no order on the aggressor's side has a price as
\* good as one that reaches the order it crosses.
LEMMA AggressorIsBest ==
  ASSUME TypeOK, Placed, BooksUncrossed, call # Idle, call.remaining > 0,
         NEW i \in DOMAIN books[call.symbol],
         Crosses(call.side, call.price, books[call.symbol][i])
  PROVE  Auction!Best(InMarket(call, call.symbol, rank))
<1> DEFINE a == InMarket(call, call.symbol, rank)
           resting == books[call.symbol][i]
<1> SUFFICES ASSUME NEW p \in MarketOrders, Auction!SameSide(a, p), p # a
             PROVE  Auction!Precedes(a, p)
  BY DEF Auction!Best
<1>1. /\ call.symbol \in Symbols /\ call.side \in Sides /\ call.price \in Int
      /\ resting.price \in Int /\ resting.side \in Sides
  BY CallTyped, BookTyped
<1>2. p \in RestOf(books, rank)
  BY MarketParts DEF CallOf
<1>3. PICK s \in Symbols : \E j \in DOMAIN books[s] : p = InMarket(books[s][j], s, rank)
  BY <1>2, InRest
<1>4. PICK j \in DOMAIN books[s] : p = InMarket(books[s][j], s, rank)
  BY <1>3
<1>5. /\ s = call.symbol /\ books[s][j].side = call.side
      /\ p.side = call.side /\ p.price = books[s][j].price /\ p.price \in Int
      /\ a.side = call.side /\ a.price = call.price
  BY <1>4, BookTyped DEF InMarket, Auction!SameSide
<1>6. resting.side # call.side
  BY DEF Crosses
<1>7. CASE call.side = "Buy"
  <2>1. resting.side = "Sell" /\ resting.price <= call.price
    BY <1>1, <1>6, <1>7 DEF Crosses, Sides
  <2>2. p.price < resting.price
    BY <1>1, <1>5, <1>7, <2>1, RestUncrossed
  <2> QED
    BY <1>1, <1>5, <1>7, <2>1, <2>2 DEF Auction!Precedes
<1>8. CASE call.side = "Sell"
  <2>1. resting.side = "Buy" /\ resting.price >= call.price
    BY <1>1, <1>6, <1>8 DEF Crosses, Sides
  <2>2. resting.price < p.price
    BY <1>1, <1>5, <1>8, <2>1, RestUncrossed
  <2> QED
    BY <1>1, <1>5, <1>8, <2>1, <2>2 DEF Auction!Precedes
<1> QED
  BY <1>1, <1>7, <1>8 DEF Sides

\* The order the scan finds is the best of the other side: orders that do not
\* cross have worse prices, and position in the vector is time priority.
LEMMA ScannedIsBest ==
  ASSUME TypeOK, Ranked, call # Idle, call.remaining > 0,
         NEW i \in DOMAIN books[call.symbol],
         IsBest(books[call.symbol], call.side, call.price, i)
  PROVE  Auction!Best(InMarket(books[call.symbol][i], call.symbol, rank))
<1> DEFINE book == books[call.symbol]
           r == InMarket(book[i], call.symbol, rank)
<1> SUFFICES ASSUME NEW p \in MarketOrders, Auction!SameSide(r, p), p # r
             PROVE  Auction!Precedes(r, p)
  BY DEF Auction!Best
<1>1. /\ call.symbol \in Symbols /\ call.side \in Sides /\ call.price \in Int
      /\ DOMAIN book = 1..Len(book) /\ Len(book) \in Nat /\ i \in DOMAIN book
      /\ \A j \in DOMAIN book : book[j].price \in Int /\ book[j].side \in Sides
  BY CallTyped, BookTyped
<1>2. book[i].side # call.side /\ Crosses(call.side, call.price, book[i])
  BY DEF IsBest, Crosses
<1>3. r.side = book[i].side /\ r.price = book[i].price /\ r.rank = rank[book[i].id] /\ r.symbol = call.symbol
  BY DEF InMarket
<1>4. p \in RestOf(books, rank)
  <2>1. p # InMarket(call, call.symbol, rank)
    BY <1>2, <1>3 DEF InMarket, Auction!SameSide
  <2> QED
    BY <2>1, MarketParts DEF CallOf
<1>5. PICK s \in Symbols : \E j \in DOMAIN books[s] : p = InMarket(books[s][j], s, rank)
  BY <1>4, InRest
<1>6. PICK j \in DOMAIN books[s] : p = InMarket(books[s][j], s, rank)
  BY <1>5
<1>7. /\ s = call.symbol /\ j \in DOMAIN book /\ book[j].side = book[i].side
      /\ p.side = book[j].side /\ p.price = book[j].price /\ p.rank = rank[book[j].id]
  BY <1>3, <1>6 DEF InMarket, Auction!SameSide
<1>8. j # i
  BY <1>6, <1>7
<1>9. rank[book[i].id] < rank[book[j].id] \/ j < i
  BY <1>1, <1>7, <1>8 DEF Ranked, PositionIsTimePriority
<1>10. Crosses(call.side, call.price, book[j]) =>
         /\ ~ Better(call.side, book[j].price, book[i].price)
         /\ j < i => Better(call.side, book[i].price, book[j].price)
  BY <1>7 DEF IsBest
<1> HIDE DEF r, book
<1>11. CASE call.side = "Buy"
  <2>1. book[i].side = "Sell"
    BY <1>1, <1>2, <1>11 DEF Sides
  <2>2. book[i].price <= call.price
    BY <1>2, <1>11 DEF Crosses
  <2>3. CASE book[j].price <= call.price
    <3>1. ~ (book[j].price < book[i].price) /\ (j < i => book[i].price < book[j].price)
      BY <1>2, <1>7, <1>10, <1>11, <2>3 DEF Crosses, Better
    <3> QED
      BY <1>1, <1>3, <1>7, <1>9, <2>1, <3>1 DEF Auction!Precedes
  <2>4. CASE ~ (book[j].price <= call.price)
    <3>1. book[i].price < book[j].price
      BY <1>1, <1>7, <2>2, <2>4
    <3> QED
      BY <1>3, <1>7, <2>1, <3>1 DEF Auction!Precedes
  <2> QED
    BY <2>3, <2>4
<1>12. CASE call.side = "Sell"
  <2>1. book[i].side = "Buy"
    BY <1>1, <1>2, <1>12 DEF Sides
  <2>2. book[i].price >= call.price
    BY <1>2, <1>12 DEF Crosses
  <2>3. CASE book[j].price >= call.price
    <3>1. ~ (book[j].price > book[i].price) /\ (j < i => book[i].price > book[j].price)
      BY <1>2, <1>7, <1>10, <1>12, <2>3 DEF Crosses, Better
    <3> QED
      BY <1>1, <1>3, <1>7, <1>9, <2>1, <3>1 DEF Auction!Precedes
  <2>4. CASE ~ (book[j].price >= call.price)
    <3>1. book[i].price > book[j].price
      BY <1>1, <1>7, <2>2, <2>4
    <3> QED
      BY <1>3, <1>7, <2>1, <3>1 DEF Auction!Precedes
  <2> QED
    BY <2>3, <2>4
<1> QED
  BY <1>1, <1>11, <1>12 DEF Sides

\* The trade is at the resting order's price: of the two it is the older.
LEMMA MatchIsTrade ==
  ASSUME TypeOK, TypeOK', Placed, Ranked, BooksUncrossed, LogTyped,
         TradesAlternate, MatchStep
  PROVE  \E bid, ask \in MarketOrders : Auction!Execute(bid, ask)
<1> DEFINE book == books[call.symbol]
           a == InMarket(call, call.symbol, rank)
<1>1. PICK i \in DOMAIN book : IsBest(book, call.side, call.price, i) /\ Fill(i)
  BY DEF MatchStep
<1> DEFINE resting == book[i]
           r == InMarket(resting, call.symbol, rank)
           q == Smaller(call.remaining, resting.remaining)
<1>2. /\ call # Idle /\ call.remaining > 0 /\ rank' = rank
      /\ UNCHANGED <<nextOrderId, nextRank>>
      /\ call \in Calls /\ call.symbol \in Symbols /\ call.side \in Sides
      /\ call.price \in Int /\ call.remaining \in Nat
      /\ resting.id \in OrderIds /\ resting.side \in Sides
      /\ resting.price \in Int /\ resting.remaining \in Nat
  BY CallTyped, BookTyped DEF MatchStep, KeepRanks
<1>3. /\ resting.side # call.side
      /\ call.side = "Buy" => resting.price <= call.price
      /\ call.side = "Sell" => resting.price >= call.price
  BY <1>1 DEF IsBest, Crosses
<1>4. /\ a.id = call.id /\ a.symbol = call.symbol /\ a.side = call.side
      /\ a.price = call.price /\ a.quantity = call.remaining /\ a.rank = rank[call.id]
      /\ r.id = resting.id /\ r.symbol = call.symbol /\ r.side = resting.side
      /\ r.price = resting.price /\ r.quantity = resting.remaining
      /\ r.rank = rank[resting.id]
  BY DEF InMarket
<1>5. Auction!Best(a) /\ Auction!Best(r)
  BY <1>1, <1>2, AggressorIsBest, ScannedIsBest DEF IsBest
<1>6. /\ rank[resting.id] < rank[call.id]
      /\ rank[resting.id] \in Nat /\ rank[call.id] \in Nat
      /\ resting.id # call.id
  <2>1. resting.id \in RestingIds /\ call.id \in CallIds /\ call.id \in OrderIds
    BY <1>2, CallTyped, RestingAt DEF CallIds
  <2> QED
    BY <1>2, <2>1 DEF Ranked, Placed, TypeOK
<1>7. a \in MarketOrders /\ r \in MarketOrders /\ MarketOrders = {a} \cup RestOf(books, rank)
  <2>1. MarketOrders = {a} \cup RestOf(books, rank)
    BY <1>2, MarketParts DEF CallOf
  <2>2. r \in RestOf(books, rank)
    BY <1>1, <1>2, InRest
  <2> QED
    BY <2>1, <2>2
<1>8. a \notin RestOf(books, rank)
  <2>1. ASSUME NEW s \in Symbols, NEW j \in DOMAIN books[s], a = InMarket(books[s][j], s, rank)
        PROVE  FALSE
    <3>1. books[s][j].id = call.id
      BY <1>4, <2>1 DEF InMarket
    <3> QED
      BY <1>2, <3>1, RestingAt DEF Placed, CallIds
  <2> QED
    BY <2>1, InRest
<1>9. /\ q \in Nat /\ q <= call.remaining /\ q <= resting.remaining
      /\ call' = [call EXCEPT !.remaining = call.remaining - q] /\ call' \in Calls
      /\ IF q = resting.remaining
           THEN books'[call.symbol] = RemoveAt(book, i)
           ELSE books'[call.symbol] = [book EXCEPT ![i].remaining = resting.remaining - q]
      /\ \A s \in Symbols \ {call.symbol} : books'[s] = books[s]
      /\ books' \in [Symbols -> Seq(Orders)]
  BY <1>1, <1>2, FillEffect
<1>10. CallOf(call', rank') = Auction!LeftOf(a, q)
  <2> HIDE DEF q
  <2>1. /\ call'.id = call.id /\ call'.symbol = call.symbol /\ call'.side = call.side
        /\ call'.price = call.price /\ call'.remaining = call.remaining - q
        /\ call' # Idle
    BY <1>2, <1>9, CallsNotIdle DEF Calls
  <2>2. CASE q = call.remaining
    BY <1>2, <1>4, <2>1, <2>2 DEF CallOf, Auction!LeftOf
  <2>3. CASE q # call.remaining
    <3>1. call'.remaining > 0
      BY <1>2, <1>9, <2>1, <2>3
    <3>2. InMarket(call', call'.symbol, rank') = [a EXCEPT !.quantity = a.quantity - q]
      BY <1>2, <2>1 DEF InMarket
    <3> HIDE DEF a
    <3> QED
      BY <1>4, <2>1, <2>3, <3>1, <3>2 DEF CallOf, Auction!LeftOf
  <2> QED
    BY <2>2, <2>3
<1>11. RestOf(books', rank') = (RestOf(books, rank) \ {r}) \cup Auction!LeftOf(r, q)
  <2> DEFINE left == resting.remaining - q
  <2>1. CASE q = resting.remaining
    <3>1. books' = [books EXCEPT ![call.symbol] = RemoveAt(books[call.symbol], i)]
      BY <1>2, <1>9, <2>1 DEF TypeOK
    <3>2. RestOf(books', rank') = RestOf(books, rank) \ {r}
      BY <1>1, <1>2, <3>1, RestAfterErase DEF Placed
    <3> QED
      BY <1>4, <2>1, <3>2 DEF Auction!LeftOf
  <2>2. CASE q # resting.remaining
    <3>1. books' = [books EXCEPT ![call.symbol] = [books[call.symbol] EXCEPT ![i].remaining = left]]
      <4> DEFINE new == [books[call.symbol] EXCEPT ![i].remaining = left]
      <4>1. books'[call.symbol] = new
        BY <1>9, <2>2
      <4> HIDE DEF new
      <4>2. books' = [books EXCEPT ![call.symbol] = new]
        BY <1>2, <1>9, <4>1 DEF TypeOK
      <4> QED
        BY <4>2 DEF new
    <3>2. left \in Nat
      BY <1>2, <1>9
    <3> HIDE DEF left
    <3>3. RestOf(books', rank') = (RestOf(books, rank) \ {r}) \cup {[r EXCEPT !.quantity = left]}
      BY <1>1, <1>2, <3>1, <3>2, RestAfterRefill DEF Placed
    <3>4. left = r.quantity - q
      BY <1>4 DEF left
    <3> HIDE DEF r
    <3> QED
      BY <1>4, <2>2, <3>3, <3>4 DEF Auction!LeftOf
  <2> QED
    BY <2>1, <2>2
<1>12. PICK t \in Events, u \in Events :
           /\ log' = log \o <<t, u>>
           /\ IsTrade(t) /\ ~ IsTrade(u)
           /\ OnTape(t) = [buy |-> IF call.side = "Buy" THEN call.id ELSE resting.id,
                           sell |-> IF call.side = "Buy" THEN resting.id ELSE call.id,
                           symbol |-> call.symbol, quantity |-> q, price |-> resting.price]
  <2>1. \E t, u \in Events :
           /\ log' = log \o <<t, u>>
           /\ IsTrade(t) /\ ~ IsTrade(u)
           /\ t.buy = (IF call.side = "Buy" THEN call.id ELSE resting.id)
           /\ t.sell = (IF call.side = "Buy" THEN resting.id ELSE call.id)
           /\ t.symbol = call.symbol /\ t.price = resting.price /\ t.quantity = q
    BY <1>1, <1>2, FillEvents DEF IsTrade
  <2> HIDE DEF resting, q
  <2> QED
    BY <2>1 DEF OnTape
<1>13. Tape' = Append(Tape, OnTape(t))
  BY <1>2, <1>12, TapeAfterFill DEF TradesAlternate
<1> HIDE DEF a, r, q, resting, book
<1>14. MarketOrders' = (MarketOrders \ {a, r}) \cup Auction!LeftOf(a, q) \cup Auction!LeftOf(r, q)
  BY <1>7, <1>8, <1>10, <1>11, MarketPartsNext
<1>15. CASE call.side = "Buy"
  <2>1. Auction!Crossing(a, r)
    BY <1>2, <1>3, <1>4, <1>15 DEF Auction!Crossing, Sides
  <2>2. q = IF a.quantity <= r.quantity THEN a.quantity ELSE r.quantity
    BY <1>4 DEF q, Smaller
  <2>3. ~ (a.rank < r.rank)
    BY <1>4, <1>6
  <2> QED
    BY <1>2, <1>4, <1>5, <1>7, <1>12, <1>13, <1>14, <1>15, <2>1, <2>2, <2>3 DEF Auction!Execute
<1>16. CASE call.side = "Sell"
  <2>1. Auction!Crossing(r, a)
    BY <1>2, <1>3, <1>4, <1>16 DEF Auction!Crossing, Sides
  <2>2. q = IF r.quantity <= a.quantity THEN r.quantity ELSE a.quantity
    BY <1>2, <1>4 DEF q, Smaller
  <2>3. r.rank < a.rank
    BY <1>4, <1>6
  <2> QED
    BY <1>2, <1>4, <1>5, <1>7, <1>12, <1>13, <1>14, <1>16, <2>1, <2>2, <2>3 DEF Auction!Execute
<1> QED
  BY <1>2, <1>15, <1>16 DEF Sides

\* A return changes nothing the market can see: an order with nothing left is
\* no order of the market, and one that rests is the one that was matched.
LEMMA ReturnIsStutter ==
  ASSUME TypeOK, LogTyped, TradesAlternate, ReturnFilled \/ ReturnResting
  PROVE  UNCHANGED Auction!vars
<1>1. /\ call # Idle /\ call' = Idle /\ rank' = rank /\ UNCHANGED <<nextRank, nextOrderId>>
      /\ call.id \in OrderIds /\ call.symbol \in Symbols /\ call.side \in Sides
      /\ call.price \in Int /\ call.remaining \in Nat
  BY CallTyped DEF ReturnFilled, ReturnResting, RestRemainder, KeepRanks
<1>2. CallOf(call', rank') = {}
  BY <1>1 DEF CallOf
<1>3. MarketOrders' = MarketOrders
  <2>1. CASE ReturnFilled
    <3>1. books' = books /\ call.remaining = 0
      BY <2>1 DEF ReturnFilled
    <3>2. CallOf(call, rank) = {}
      BY <3>1 DEF CallOf
    <3> QED
      BY <1>1, <1>2, <3>1, <3>2, MarketParts, MarketPartsNext
  <2>2. CASE ReturnResting
    <3> DEFINE o == [id |-> call.id, side |-> call.side,
                     price |-> call.price, remaining |-> call.remaining]
    <3>1. call.remaining > 0 /\ books' = [books EXCEPT ![call.symbol] = Append(books[call.symbol], o)]
      BY <2>2 DEF ReturnResting, RestRemainder
    <3>2. o \in Orders
      BY <1>1 DEF Orders
    <3>3. CallOf(call, rank) = {InMarket(o, call.symbol, rank)}
      BY <1>1, <3>1 DEF CallOf, InMarket
    <3> HIDE DEF o
    <3>4. RestOf(books', rank') = RestOf(books, rank) \cup {InMarket(o, call.symbol, rank)}
      BY <1>1, <3>1, <3>2, RestAfterAppend
    <3> QED
      BY <1>2, <3>3, <3>4, MarketParts, MarketPartsNext
  <2> QED
    BY <2>1, <2>2
<1>4. log' = log \o <<>> \/ \E u \in Events : log' = log \o <<u>> /\ ~ IsTrade(u)
  BY LastIsUpdate
<1>5. Tape' = Tape
  BY <1>1, <1>4, TapeAfterReturn DEF TradesAlternate
<1> QED
  BY <1>1, <1>3, <1>5 DEF Auction!vars

-----------------------------------------------------------------------------
(* The refinement.                                                         *)

LEMMA AlternateKept ==
  ASSUME TypeOK, Placed, LogTyped, TradesAlternate, [Next]_vars
  PROVE  TradesAlternate'
<1>1. ASSUME log' = <<>>
      PROVE  TradesAlternate'
  BY <1>1 DEF TradesAlternate, TradesOf
<1>2. ASSUME NEW id, NEW symbol, NEW i, CancelOrder(id, symbol, i)
      PROVE  TradesAlternate'
  <2> DEFINE u == OrderUpdate(id, "Cancelled", 0)
  <2>1. call' = Idle /\ log' = <<u>> /\ ~ IsTrade(u)
    BY <1>2 DEF CancelOrder, BeginCall, OrderUpdate, IsTrade
  <2> HIDE DEF u
  <2> QED
    BY <2>1 DEF TradesAlternate, TradesOf
<1>3. CASE MatchStep
  <2>1. PICK i \in DOMAIN books[call.symbol] : Fill(i)
    BY <1>3 DEF MatchStep
  <2>2. call # Idle /\ Len(log) % 2 = 0
    BY <1>3 DEF MatchStep, TradesAlternate
  <2>3. PICK t \in Events, u \in Events : log' = log \o <<t, u>> /\ IsTrade(t) /\ ~ IsTrade(u)
    BY <2>1, <2>2, FillEvents DEF IsTrade
  <2>4. /\ Len(log) \in Nat /\ DOMAIN log = 1..Len(log)
        /\ DOMAIN log' = 1..Len(log) + 2
        /\ TradesOf(log') = TradesOf(log) \cup {Len(log) + 1}
    BY <2>3, LogAfterFill
  <2>5. Len(log') = Len(log) + 2
    <3>1. log' \in Seq(Events)
      BY <2>3, ConcatProperties DEF LogTyped
    <3> QED
      BY <2>4, <3>1, LenProperties
  <2> DEFINE n == Len(log)
  <2>6. n \in Nat /\ n % 2 = 0 /\ TradesOf(log) = {k \in 1..n : k % 2 = 1 /\ k < n}
    BY <2>2, <2>4 DEF TradesAlternate
  <2>7. (n + 2) % 2 = 0 /\ {k \in 1..n : k % 2 = 1 /\ k < n} \cup {n + 1} =
                             {k \in 1..n + 2 : k % 2 = 1 /\ k < n + 2}
    <3> HIDE DEF n
    <3> QED
      BY <2>6
  <2> QED
    BY <2>4, <2>5, <2>6, <2>7 DEF TradesAlternate
<1>4. CASE ReturnFilled \/ ReturnResting
  <2>1. call # Idle /\ call' = Idle
    BY <1>4 DEF ReturnFilled, ReturnResting, RestRemainder
  <2>2. Len(log) % 2 = 0 /\ TradesOf(log) = {k \in DOMAIN log : k % 2 = 1 /\ k < Len(log)}
    BY <2>1 DEF TradesAlternate
  <2>3. /\ TradesOf(log') = TradesOf(log) /\ DOMAIN log = 1..Len(log)
        /\ DOMAIN log' = 1..Len(log') /\ Len(log') \in {Len(log), Len(log) + 1}
    BY <1>4, <2>2, LastIsUpdate, TapeAfterReturn
  <2>4. \A k \in DOMAIN log' : k % 2 = 1 /\ k < Len(log') => k \in DOMAIN log /\ k < Len(log)
    <3> DEFINE n == Len(log)
               m == Len(log')
    <3>1. n \in Nat /\ n % 2 = 0 /\ m \in {n, n + 1}
      BY <2>2, <2>3, LenProperties DEF LogTyped
    <3> HIDE DEF n, m
    <3>2. \A k \in 1..m : k % 2 = 1 /\ k < m => k \in 1..n /\ k < n
      BY <3>1
    <3> QED
      BY <2>3, <3>2 DEF n, m
  <2>5. \A k \in DOMAIN log : k < Len(log) => k \in DOMAIN log' /\ k < Len(log')
    <3> DEFINE n == Len(log)
               m == Len(log')
    <3>1. n \in Nat /\ m \in {n, n + 1}
      BY <2>3, LenProperties DEF LogTyped
    <3> HIDE DEF n, m
    <3>2. \A k \in 1..n : k < n => k \in 1..m /\ k < m
      BY <3>1
    <3> QED
      BY <2>3, <3>2 DEF n, m
  <2>6. TradesOf(log') = {k \in DOMAIN log' : k % 2 = 1 /\ k < Len(log')}
    BY <2>2, <2>3, <2>4, <2>5
  <2> QED
    BY <2>1, <2>6 DEF TradesAlternate
<1>5. CASE UNCHANGED vars
  BY <1>5 DEF vars, TradesAlternate
<1>6. ASSUME NEW symbol, NEW price, NEW quantity, NEW side,
             AddRejected(symbol, price, quantity) \/ AddOrder(symbol, side, price, quantity)
      PROVE  TradesAlternate'
  BY <1>1, <1>6 DEF AddRejected, AddOrder, BeginCall
<1>7. ASSUME NEW id, CancelMissed(id)
      PROVE  TradesAlternate'
  BY <1>1, <1>7 DEF CancelMissed, BeginCall
<1>8. ASSUME NEW id, NEW price, NEW quantity, AmendMissed(id, price, quantity)
      PROVE  TradesAlternate'
  BY <1>1, <1>8 DEF AmendMissed, BeginCall
<1>9. ASSUME NEW id, NEW price, NEW quantity, NEW symbol, NEW i,
             \/ AmendInPlace(id, symbol, i, price, quantity)
             \/ AmendRematch(id, symbol, i, price, quantity)
      PROVE  TradesAlternate'
  BY <1>1, <1>9 DEF AmendInPlace, AmendRematch, BeginCall
<1> QED
  BY <1>2, <1>3, <1>4, <1>5, <1>6, <1>7, <1>8, <1>9 DEF Next, Advance

\* The log of a call is its trades, each with an update behind it, and at most
\* one update more: the tape the auction sees leaves out no trade of it.
THEOREM TapeIsComplete == Spec => []TradesAlternate
<1>1. Init => TradesAlternate
  BY DEF Init, TradesAlternate, TradesOf
<1>2. TypeOK /\ Placed /\ LogTyped /\ TradesAlternate /\ [Next]_vars => TradesAlternate'
  BY AlternateKept
<1> QED
  BY <1>1, <1>2, TypeCorrect, OrdersPlaced, LogOfEvents, PTL DEF Spec

LEMMA StepOfAuction ==
  ASSUME TypeOK, TypeOK', Placed, Ranked, BooksUncrossed, LogTyped, TradesAlternate,
         [Next]_vars
  PROVE  [Auction!Next]_(Auction!vars)
<1>1. ASSUME NEW symbol \in Symbols \cup {EmptySymbol}, NEW price \in Prices,
             NEW quantity \in Quantities, AddRejected(symbol, price, quantity)
      PROVE  Auction!Next
  BY <1>1, CallRefused DEF AddRejected, BeginCall, KeepRanks, Auction!Next
<1>2. ASSUME NEW symbol \in Symbols \cup {EmptySymbol}, NEW price \in Prices,
             NEW quantity \in Quantities, NEW side \in Sides,
             AddOrder(symbol, side, price, quantity)
      PROVE  Auction!Next
  BY <1>2, AddEnters DEF Sides, Auction!Sides, Auction!Next
<1>3. ASSUME NEW id \in 0..MaxOrders, CancelMissed(id)
      PROVE  Auction!Next
  BY <1>3, CallRefused DEF CancelMissed, BeginCall, KeepRanks, Auction!Next
<1>4. ASSUME NEW id \in 0..MaxOrders, NEW symbol \in Symbols,
             NEW i \in DOMAIN books[symbol], CancelOrder(id, symbol, i)
      PROVE  Auction!Next
  BY <1>4, CancelWithdraws DEF Auction!Next
<1>5. ASSUME NEW id \in 0..MaxOrders, NEW price \in Prices, NEW quantity \in Quantities,
             AmendMissed(id, price, quantity)
      PROVE  Auction!Next
  BY <1>5, CallRefused DEF AmendMissed, BeginCall, KeepRanks, Auction!Next
<1>6. ASSUME NEW id \in 0..MaxOrders, NEW price \in Prices, NEW quantity \in Quantities,
             NEW symbol \in Symbols, NEW i \in DOMAIN books[symbol],
             AmendInPlace(id, symbol, i, price, quantity)
      PROVE  Auction!Next
  BY <1>6, AmendReduces DEF Auction!Next
<1>7. ASSUME NEW id \in 0..MaxOrders, NEW price \in Prices, NEW quantity \in Quantities,
             NEW symbol \in Symbols, NEW i \in DOMAIN books[symbol],
             AmendRematch(id, symbol, i, price, quantity)
      PROVE  Auction!Next
  BY <1>7, AmendReplaces DEF Auction!Next
<1>8. CASE MatchStep
  BY <1>8, MatchIsTrade DEF Auction!Next
<1>9. CASE ReturnFilled \/ ReturnResting
  BY <1>9, ReturnIsStutter
<1>10. CASE UNCHANGED vars
  <2>1. MarketOrders' = MarketOrders /\ Tape' = Tape
    BY <1>10, MarketParts, MarketPartsNext DEF vars, Tape
  <2> QED
    BY <1>10, <2>1 DEF vars, Auction!vars
<1> QED
  BY <1>1, <1>2, <1>3, <1>4, <1>5, <1>6, <1>7, <1>8, <1>9, <1>10 DEF Next, Advance

\* The engine implements the double auction: each of its steps is a command or
\* a trade of the auction, or changes nothing of it.  What is left of
\* ImplementsAuction is its fairness.
THEOREM AuctionImplemented == Spec => Auction!Init /\ [][Auction!Next]_(Auction!vars)
<1>1. Init => Auction!Init
  <2> SUFFICES ASSUME Init PROVE Auction!Init
    OBVIOUS
  <2>1. CallOf(call, rank) = {} /\ RestOf(books, rank) = {}
    BY DEF Init, CallOf, RestOf
  <2>2. Tape = <<>>
    <3>1. 1..Len(log) \div 2 = {}
      BY DEF Init
    <3> QED
      BY <3>1 DEF Tape
  <2> QED
    BY <2>1, <2>2, MarketParts DEF Init, Auction!Init
<1>2. TypeOK /\ TypeOK' /\ Placed /\ Ranked /\ BooksUncrossed /\ LogTyped /\ TradesAlternate
        /\ [Next]_vars => [Auction!Next]_(Auction!vars)
  BY StepOfAuction
<1> QED
  BY <1>1, <1>2, TypeCorrect, OrdersPlaced, RanksKept, Uncrossed, LogOfEvents, TapeIsComplete,
     PTL DEF Spec

=============================================================================
