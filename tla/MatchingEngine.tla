--------------------------- MODULE MatchingEngine ---------------------------
(***************************************************************************)
(* The reference matching engine, reference/matching_engine.{h,cpp}.       *)
(*                                                                         *)
(* One limit order book per symbol.  A book is one flat vector that holds  *)
(* the buys and the sells together, in the order in which they were pushed *)
(* back; time priority is the position in that vector.  A call of addOrder *)
(* or amendOrder that matches is several steps here: it starts, performs   *)
(* one fill per iteration of matchOrder's loop, and returns.  The engine   *)
(* is single-threaded, so a new call starts only when the last returned.   *)
(***************************************************************************)
EXTENDS Integers, FiniteSets, Sequences, SequencesExt

CONSTANTS
  Symbols,      \* the non-empty symbols a request may name
  EmptySymbol,  \* the empty string
  Prices,       \* int64_t prices a request may carry, some of them invalid
  Quantities,   \* uint32_t quantities a request may carry, 0 included
  MaxOrders,    \* bound: orders accepted by addOrder
  MaxRanks      \* bound: time priorities handed out (adds and amendments)

ASSUME SymbolsAssumption == EmptySymbol \notin Symbols
ASSUME PricesAssumption == Prices \subseteq Int
ASSUME QuantitiesAssumption == Quantities \subseteq Nat
ASSUME MaxOrdersAssumption == MaxOrders \in Nat
ASSUME MaxRanksAssumption == MaxRanks \in Nat

VARIABLES
  books,        \* orders_: the vector of resting orders of each symbol
  nextOrderId,  \* next_order_id_
  call,         \* the addOrder / amendOrder call being matched, or Idle
  log,          \* callbacks received by listener_ during the current call
  ret,          \* what the last finished call returned
  rank,         \* history: the time priority each order is due by the rules
  nextRank,     \* history: the next time priority
  closed        \* history: ids whose Filled or Cancelled was called back

vars == <<books, nextOrderId, call, log, ret, rank, nextRank, closed>>

Sides == {"Buy", "Sell"}
OrderIds == 1..MaxOrders

\* struct Order; the symbol is the key of the book that holds it.
Orders == [id : OrderIds, side : Sides, price : Int, remaining : Nat]

Calls == [kind : {"add", "amend"}, id : OrderIds, symbol : Symbols,
          side : Sides, price : Int, quantity : Nat, remaining : Nat]

Idle == [kind |-> "idle"]

Trade(buyId, sellId, symbol, price, quantity) ==
  [event |-> "Trade", buy |-> buyId, sell |-> sellId, symbol |-> symbol,
   price |-> price, quantity |-> quantity]

OrderUpdate(id, status, remaining) ==
  [event |-> "OrderUpdate", id |-> id, status |-> status, remaining |-> remaining]

\* Mutant: addOrder acknowledges every valid order as accepted.
AckAccepted(id, status) ==
  [op |-> "addOrder", id |-> id, status |-> IF id = 0 THEN status ELSE "Accepted"]

Ack(id, status) == [op |-> "addOrder", id |-> id, status |-> status]
Cancelled(ok) == [op |-> "cancelOrder", ok |-> ok]
Amended(ok) == [op |-> "amendOrder", ok |-> ok]

-----------------------------------------------------------------------------
(* The rules matchOrder and amendOrder apply.                              *)

ValidRequest(symbol, price, quantity) ==
  price > 0 /\ quantity # 0 /\ symbol # EmptySymbol

ValidAmendment(price, quantity) == price > 0 /\ quantity # 0

\* Mutant: an order does not cross one at its own price.
CrossesStrictly(side, price, order) ==
  /\ order.side # side
  /\ IF side = "Buy" THEN order.price < price ELSE order.price > price

Crosses(side, price, order) ==
  /\ order.side # side
  /\ IF side = "Buy" THEN order.price <= price ELSE order.price >= price

\* A resting order at price p is better than one at q for an aggressor on side.
Better(side, p, q) == IF side = "Buy" THEN p < q ELSE p > q

\* Mutant: of the best prices the last order in the vector is taken.
IsBestLatest(book, side, price, i) ==
  /\ Crosses(side, price, book[i])
  /\ \A j \in DOMAIN book :
       Crosses(side, price, book[j]) =>
         /\ ~ Better(side, book[j].price, book[i].price)
         /\ j > i => Better(side, book[i].price, book[j].price)

\* Mutant: the first order that crosses is taken, whatever its price.
IsFirst(book, side, price, i) ==
  /\ Crosses(side, price, book[i])
  /\ \A j \in DOMAIN book : j < i => ~ Crosses(side, price, book[j])

\* best_idx after the scan of the book: of the orders that cross, none has a
\* better price, and none before it in the vector has the same price.
IsBest(book, side, price, i) ==
  /\ Crosses(side, price, book[i])
  /\ \A j \in DOMAIN book :
       Crosses(side, price, book[j]) =>
         /\ ~ Better(side, book[j].price, book[i].price)
         /\ j < i => Better(side, book[i].price, book[j].price)

\* The scan leaves best_idx at -1.
NoneCrosses(book, side, price) ==
  \A j \in DOMAIN book : ~ Crosses(side, price, book[j])

\* Mutant: more quantity at the same price keeps the place in the queue.
KeepsPriorityAtPrice(order, price, quantity) == price = order.price

KeepsPriority(order, price, quantity) ==
  price = order.price /\ quantity <= order.remaining

\* Mutant: a fill takes all the aggressor has left.
FirstOf(a, b) == a

Smaller(a, b) == IF a <= b THEN a ELSE b

-----------------------------------------------------------------------------
(* History: what the callbacks and the published rules say, kept apart     *)
(* from the vectors so that properties can compare the two.                *)

TerminalIds(events) ==
  {events[k].id : k \in {n \in DOMAIN events :
     events[n].event = "OrderUpdate" /\ events[n].status \in {"Filled", "Cancelled"}}}

\* Mutant: onTrade is not called.
CallBackUpdates(events) ==
  /\ log' = log \o SelectSeq(events, LAMBDA e : e.event # "Trade")
  /\ closed' = closed \cup TerminalIds(events)

\* The listener receives events within the current call.
CallBack(events) ==
  /\ log' = log \o events
  /\ closed' = closed \cup TerminalIds(events)

\* A new call begins, and the listener receives events at once.
BeginCall(events) ==
  /\ call = Idle
  /\ log' = events
  /\ closed' = closed \cup TerminalIds(events)

TakeRank(id) ==
  /\ rank' = [rank EXCEPT ![id] = nextRank]
  /\ nextRank' = nextRank + 1

KeepRanks == UNCHANGED <<rank, nextRank>>

-----------------------------------------------------------------------------
Init ==
  /\ books = [s \in Symbols |-> <<>>]
  /\ nextOrderId = 1
  /\ call = Idle
  /\ log = <<>>
  /\ ret = [op |-> "none"]
  /\ rank = [id \in OrderIds |-> 0]
  /\ nextRank = 1
  /\ closed = {}

\* addOrder refuses an invalid request before it takes an id.
AddRejected(symbol, price, quantity) ==
  /\ ~ ValidRequest(symbol, price, quantity)
  /\ BeginCall(<<>>)
  /\ ret' = Ack(0, "Rejected")
  /\ KeepRanks
  /\ UNCHANGED <<books, nextOrderId, call>>

\* addOrder takes an id and enters matchOrder.
AddOrder(symbol, side, price, quantity) ==
  /\ ValidRequest(symbol, price, quantity)
  /\ nextOrderId <= MaxOrders
  /\ nextRank <= MaxRanks
  /\ BeginCall(<<>>)
  /\ call' = [kind |-> "add", id |-> nextOrderId, symbol |-> symbol, side |-> side,
              price |-> price, quantity |-> quantity, remaining |-> quantity]
  /\ nextOrderId' = nextOrderId + 1
  /\ TakeRank(nextOrderId)
  /\ UNCHANGED <<books, ret>>

\* One iteration of matchOrder's loop: the fill against book[best_idx].
Fill(i) ==
  LET book == books[call.symbol]
      resting == book[i]
      qty == Smaller(call.remaining, resting.remaining)
      left == resting.remaining - qty
      buyId == IF call.side = "Buy" THEN call.id ELSE resting.id
      sellId == IF call.side = "Buy" THEN resting.id ELSE call.id
  IN  /\ call' = [call EXCEPT !.remaining = @ - qty]
      /\ books' = [books EXCEPT ![call.symbol] =
                     IF left = 0 THEN RemoveAt(book, i)
                                 ELSE [book EXCEPT ![i].remaining = left]]
      /\ CallBack(<<Trade(buyId, sellId, call.symbol, resting.price, qty),
                    OrderUpdate(resting.id, IF left = 0 THEN "Filled" ELSE "Accepted", left)>>)

MatchStep ==
  /\ call # Idle
  /\ call.remaining > 0
  /\ \E i \in DOMAIN books[call.symbol] :
       /\ IsBest(books[call.symbol], call.side, call.price, i)
       /\ Fill(i)
  /\ KeepRanks
  /\ UNCHANGED <<nextOrderId, ret>>

\* The aggressor ends with nothing left: addOrder and amendOrder alike.
ReturnFilled ==
  /\ call # Idle
  /\ call.remaining = 0
  /\ CallBack(<<OrderUpdate(call.id, "Filled", 0)>>)
  /\ ret' = IF call.kind = "add" THEN Ack(call.id, "Filled") ELSE Amended(TRUE)
  /\ call' = Idle
  /\ KeepRanks
  /\ UNCHANGED <<books, nextOrderId>>

\* The remainder goes to the back of the vector; only addOrder reports it.
RestRemainder ==
  /\ books' = [books EXCEPT ![call.symbol] =
                 Append(@, [id |-> call.id, side |-> call.side,
                            price |-> call.price, remaining |-> call.remaining])]
  /\ IF call.kind = "add"
       THEN /\ CallBack(<<OrderUpdate(call.id, "Accepted", call.remaining)>>)
            /\ ret' = Ack(call.id, "Accepted")
       ELSE /\ CallBack(<<>>)
            /\ ret' = Amended(TRUE)
  /\ call' = Idle
  /\ KeepRanks
  /\ UNCHANGED nextOrderId

\* Mutant: the loop is left only when the book is empty, else it spins.
ReturnRestingSpins ==
  /\ call # Idle
  /\ call.remaining > 0
  /\ NoneCrosses(books[call.symbol], call.side, call.price)
  /\ IF books[call.symbol] = <<>> THEN RestRemainder ELSE UNCHANGED vars

ReturnResting ==
  /\ call # Idle
  /\ call.remaining > 0
  /\ NoneCrosses(books[call.symbol], call.side, call.price)
  /\ RestRemainder

\* id is the order at position i of the book of symbol.
At(id, symbol, i) == i \in DOMAIN books[symbol] /\ books[symbol][i].id = id

Resting(id) == \E symbol \in Symbols : \E i \in DOMAIN books[symbol] : At(id, symbol, i)

\* Mutant: the order is reported as cancelled but stays in the vector.
CancelOrderKept(id, symbol, i) ==
  /\ At(id, symbol, i)
  /\ BeginCall(<<OrderUpdate(id, "Cancelled", 0)>>)
  /\ ret' = Cancelled(TRUE)
  /\ KeepRanks
  /\ UNCHANGED <<books, nextOrderId, call>>

CancelOrder(id, symbol, i) ==
  /\ At(id, symbol, i)
  /\ BeginCall(<<OrderUpdate(id, "Cancelled", 0)>>)
  /\ books' = [books EXCEPT ![symbol] = RemoveAt(@, i)]
  /\ ret' = Cancelled(TRUE)
  /\ KeepRanks
  /\ UNCHANGED <<nextOrderId, call>>

\* Mutant: a cancel that finds nothing is reported all the same.
CancelMissedReported(id) ==
  /\ ~ Resting(id)
  /\ BeginCall(<<OrderUpdate(id, "Cancelled", 0)>>)
  /\ ret' = Cancelled(FALSE)
  /\ KeepRanks
  /\ UNCHANGED <<books, nextOrderId, call>>

CancelMissed(id) ==
  /\ ~ Resting(id)
  /\ BeginCall(<<>>)
  /\ ret' = Cancelled(FALSE)
  /\ KeepRanks
  /\ UNCHANGED <<books, nextOrderId, call>>

\* amendOrder returns false: invalid values, or no such resting order.
AmendMissed(id, price, quantity) ==
  /\ ~ ValidAmendment(price, quantity) \/ ~ Resting(id)
  /\ BeginCall(<<>>)
  /\ ret' = Amended(FALSE)
  /\ KeepRanks
  /\ UNCHANGED <<books, nextOrderId, call>>

\* Same price, no more quantity: the order is changed where it stands, with no
\* callback.  Its rank moves only if the published rules say it should.
AmendInPlace(id, symbol, i, price, quantity) ==
  /\ ValidAmendment(price, quantity)
  /\ At(id, symbol, i)
  /\ KeepsPriority(books[symbol][i], price, quantity)
  /\ BeginCall(<<>>)
  /\ books' = [books EXCEPT ![symbol][i].remaining = quantity]
  /\ ret' = Amended(TRUE)
  /\ IF price # books[symbol][i].price \/ quantity > books[symbol][i].remaining
       THEN nextRank <= MaxRanks /\ TakeRank(id)
       ELSE KeepRanks
  /\ UNCHANGED <<nextOrderId, call>>

\* Mutant: the order is matched again without being erased.
AmendRematchKept(id, symbol, i, price, quantity) ==
  /\ ValidAmendment(price, quantity)
  /\ At(id, symbol, i)
  /\ ~ KeepsPriority(books[symbol][i], price, quantity)
  /\ nextRank <= MaxRanks
  /\ BeginCall(<<>>)
  /\ call' = [kind |-> "amend", id |-> id, symbol |-> symbol,
              side |-> books[symbol][i].side, price |-> price,
              quantity |-> quantity, remaining |-> quantity]
  /\ TakeRank(id)
  /\ UNCHANGED <<books, nextOrderId, ret>>

\* Otherwise the order is erased and matched again as an aggressor.
AmendRematch(id, symbol, i, price, quantity) ==
  /\ ValidAmendment(price, quantity)
  /\ At(id, symbol, i)
  /\ ~ KeepsPriority(books[symbol][i], price, quantity)
  /\ nextRank <= MaxRanks
  /\ BeginCall(<<>>)
  /\ books' = [books EXCEPT ![symbol] = RemoveAt(@, i)]
  /\ call' = [kind |-> "amend", id |-> id, symbol |-> symbol,
              side |-> books[symbol][i].side, price |-> price,
              quantity |-> quantity, remaining |-> quantity]
  /\ TakeRank(id)
  /\ UNCHANGED <<nextOrderId, ret>>

\* The steps of a call that has begun.
Advance == MatchStep \/ ReturnFilled \/ ReturnResting

Next ==
  \/ \E symbol \in Symbols \cup {EmptySymbol}, price \in Prices, quantity \in Quantities :
       \/ AddRejected(symbol, price, quantity)
       \/ \E side \in Sides : AddOrder(symbol, side, price, quantity)
  \/ \E id \in 0..MaxOrders :
       \/ CancelMissed(id)
       \/ \E symbol \in Symbols : \E i \in DOMAIN books[symbol] : CancelOrder(id, symbol, i)
  \/ \E id \in 0..MaxOrders, price \in Prices, quantity \in Quantities :
       \/ AmendMissed(id, price, quantity)
       \/ \E symbol \in Symbols : \E i \in DOMAIN books[symbol] :
            \/ AmendInPlace(id, symbol, i, price, quantity)
            \/ AmendRematch(id, symbol, i, price, quantity)
  \/ Advance

\* A call runs to its return; nothing obliges a client to make one.
Fairness == WF_vars(Advance)

Spec == Init /\ [][Next]_vars /\ Fairness

-----------------------------------------------------------------------------
(* Properties                                                              *)

\* Every variable has its type; a resting order is a live order of the model.
TypeOK ==
  /\ books \in [Symbols -> Seq(Orders)]
  /\ nextOrderId \in 1..MaxOrders + 1
  /\ call = Idle \/ call \in Calls
  /\ rank \in [OrderIds -> Nat]
  /\ nextRank \in Nat
  /\ closed \subseteq OrderIds

\* No book holds a buy at or above the price of a sell, not even between two
\* fills of one call: matchOrder leaves nothing executable behind.
BooksUncrossed ==
  \A s \in Symbols : \A i, j \in DOMAIN books[s] :
    books[s][i].side = "Buy" /\ books[s][j].side = "Sell" =>
      books[s][i].price < books[s][j].price

\* The position of an order in its vector is its time priority under the
\* published rules (README.md, Matching Rules 2 and 8), whatever erasures,
\* amendments and re-insertions the vector went through.
PositionIsTimePriority ==
  \A s \in Symbols : \A i, j \in DOMAIN books[s] :
    i < j => rank[books[s][i].id] < rank[books[s][j].id]

InCall(id) == call # Idle /\ call.id = id

\* The callbacks account for every accepted order: until its Filled or
\* Cancelled update it is at exactly one place (one position of one book, or
\* the order being matched), with quantity left if it rests; after, nowhere.
EveryOrderAccounted ==
  /\ closed \subseteq 1..nextOrderId - 1
  /\ \A id \in OrderIds :
       (id < nextOrderId /\ id \notin closed) <=> (Resting(id) \/ InCall(id))
  /\ \A id \in OrderIds : ~ (Resting(id) /\ InCall(id))
  /\ \A s, t \in Symbols : \A i \in DOMAIN books[s], j \in DOMAIN books[t] :
       books[s][i].id = books[t][j].id => s = t /\ i = j
  /\ \A s \in Symbols : \A i \in DOMAIN books[s] : books[s][i].remaining > 0

IsTrade(event) == event.event = "Trade"
TradesOf(events) == {k \in DOMAIN events : IsTrade(events[k])}

\* The resting order of a trade: the side the call's order is not on.
Passive(trade, aggressor) == IF trade.buy = aggressor THEN trade.sell ELSE trade.buy

\* Within one call the fills come in price-time priority order, each at the
\* resting order's price and followed by that order's update (types.h:67-70).
FillsInPriceTimeOrder ==
  call # Idle =>
    /\ \A k \in TradesOf(log) :
         /\ call.id \in {log[k].buy, log[k].sell}
         /\ k + 1 \in DOMAIN log
         /\ log[k + 1].event = "OrderUpdate"
         /\ log[k + 1].id = Passive(log[k], call.id)
    /\ \A k, m \in TradesOf(log) : k < m =>
         \/ Better(call.side, log[k].price, log[m].price)
         \/ /\ log[k].price = log[m].price
            /\ rank[Passive(log[k], call.id)] < rank[Passive(log[m], call.id)]

\* What the call's order has traded and what it has left add up to what the
\* request asked for: no lot is lost or filled twice.
QuantityConserved ==
  call # Idle =>
    call.quantity = call.remaining + MapThenSumSet(LAMBDA k : log[k].quantity, TradesOf(log))

\* When addOrder returns, its acknowledgement, its last callback and the book
\* agree: Accepted with what rests, or Filled and gone.
AckAgrees ==
  call = Idle /\ ret.op = "addOrder" /\ ret.id # 0 =>
    /\ log # <<>>
    /\ Last(log).event = "OrderUpdate"
    /\ Last(log).id = ret.id
    /\ Last(log).status = ret.status
    /\ ret.status = "Filled" => Last(log).remaining = 0 /\ ~ Resting(ret.id)
    /\ ret.status = "Accepted" =>
         \E s \in Symbols : \E i \in DOMAIN books[s] :
           At(ret.id, s, i) /\ books[s][i].remaining = Last(log).remaining

\* The callbacks of this step: those of a new call, or those it appended.
NewEvents == IF call = Idle THEN log' ELSE SubSeq(log', Len(log) + 1, Len(log'))

IdsOf(event) == IF IsTrade(event) THEN {event.buy, event.sell} ELSE {event.id}

\* No callback ever names an order whose Filled or Cancelled update was sent
\* before: a terminal status is final, through every cancel and amend of it.
NothingAfterTerminal ==
  [][\A k \in DOMAIN NewEvents : IdsOf(NewEvents[k]) \cap closed = {}]_vars

\* A call that entered matchOrder returns.
CallReturns == (call # Idle) ~> (call = Idle)

=============================================================================
