---------------------------- MODULE DoubleAuction ----------------------------
(***************************************************************************)
(* What the exchange promises (README.md, Matching Rules 1-8), without     *)
(* vectors, positions, scans or calls: a set of live orders per symbol,    *)
(* each with a time priority.  An order that arrives may cross the other   *)
(* side; while a market is crossed the best bid trades with the best ask,  *)
(* at the price of the older of the two, and nothing else may happen.      *)
(***************************************************************************)
EXTENDS Integers, Sequences

CONSTANTS
  Symbols, EmptySymbol, Prices, Quantities,
  MaxOrders,    \* bound: orders accepted
  MaxRanks      \* bound: time priorities handed out

VARIABLES
  orders,       \* the live orders
  nextId,       \* the id of the next order accepted
  clock,        \* the next time priority
  tape          \* the trades executed since the last command

vars == <<orders, nextId, clock, tape>>

Sides == {"Buy", "Sell"}

LiveOrders == [id : 1..MaxOrders, symbol : Symbols, side : Sides,
               price : Int, quantity : Nat \ {0}, rank : Nat]

\* Better price first, then earlier rank.
Precedes(a, b) ==
  \/ a.side = "Buy" /\ a.price > b.price
  \/ a.side = "Sell" /\ a.price < b.price
  \/ a.price = b.price /\ a.rank < b.rank

SameSide(a, b) == a.symbol = b.symbol /\ a.side = b.side

Best(o) == \A p \in orders : SameSide(o, p) /\ p # o => Precedes(o, p)

Crossing(bid, ask) ==
  /\ bid.symbol = ask.symbol
  /\ bid.side = "Buy" /\ ask.side = "Sell"
  /\ bid.price >= ask.price

Crossed == \E bid, ask \in orders : Crossing(bid, ask)

\* The order left after q lots of it trade: nothing, or a smaller order.
LeftOf(o, q) == IF o.quantity = q THEN {} ELSE {[o EXCEPT !.quantity = @ - q]}

Init ==
  /\ orders = {}
  /\ nextId = 1
  /\ clock = 1
  /\ tape = <<>>

\* Every command waits for the market to be uncrossed and opens a new tape.
Command == tape' = <<>> /\ ~ Crossed

Enter(symbol, side, price, quantity) ==
  /\ price > 0 /\ quantity > 0
  /\ nextId <= MaxOrders /\ clock <= MaxRanks
  /\ nextId' = nextId + 1
  /\ clock' = clock + 1
  /\ Command
  /\ orders' = orders \cup {[id |-> nextId, symbol |-> symbol, side |-> side,
                             price |-> price, quantity |-> quantity, rank |-> clock]}

Withdraw(o) ==
  /\ UNCHANGED <<nextId, clock>>
  /\ Command
  /\ orders' = orders \ {o}

\* Fewer lots at the same price: the order keeps its time priority.
Reduce(o, quantity) ==
  /\ quantity > 0 /\ quantity <= o.quantity
  /\ UNCHANGED <<nextId, clock>>
  /\ Command
  /\ orders' = (orders \ {o}) \cup {[o EXCEPT !.quantity = quantity]}

\* Another price, or more lots: the order goes to the back of the queue.
Replace(o, price, quantity) ==
  /\ price > 0 /\ quantity > 0
  /\ price # o.price \/ quantity > o.quantity
  /\ clock <= MaxRanks
  /\ clock' = clock + 1
  /\ UNCHANGED nextId
  /\ Command
  /\ orders' = (orders \ {o}) \cup
                 {[o EXCEPT !.price = price, !.quantity = quantity, !.rank = clock]}

\* A command the exchange refuses.
Refuse ==
  /\ UNCHANGED <<nextId, clock>>
  /\ Command
  /\ UNCHANGED orders

Execute(bid, ask) ==
  /\ Crossing(bid, ask)
  /\ Best(bid) /\ Best(ask)
  /\ LET q == IF bid.quantity <= ask.quantity THEN bid.quantity ELSE ask.quantity
     IN  /\ orders' = (orders \ {bid, ask}) \cup LeftOf(bid, q) \cup LeftOf(ask, q)
         /\ tape' = Append(tape,
              [buy |-> bid.id, sell |-> ask.id, symbol |-> bid.symbol, quantity |-> q,
               price |-> IF bid.rank < ask.rank THEN bid.price ELSE ask.price])
  /\ UNCHANGED <<nextId, clock>>

Next ==
  \/ \E symbol \in Symbols, side \in Sides, price \in Prices, quantity \in Quantities :
       Enter(symbol, side, price, quantity)
  \/ \E o \in orders :
       \/ Withdraw(o)
       \/ \E quantity \in Quantities : Reduce(o, quantity)
       \/ \E price \in Prices, quantity \in Quantities : Replace(o, price, quantity)
  \/ Refuse
  \/ \E bid, ask \in orders : Execute(bid, ask)

\* A crossed market keeps trading until it is uncrossed.
Spec == Init /\ [][Next]_vars /\ WF_vars(\E bid, ask \in orders : Execute(bid, ask))

=============================================================================
