----------------------- MODULE MatchingEngineRefinement -----------------------
(***************************************************************************)
(* The reference engine implements the continuous double auction: the      *)
(* order being matched is an order of the market like those that rest, so  *)
(* each iteration of matchOrder is the trade of best bid and best ask.     *)
(* Seen from one order, it implements the life of an order.                *)
(***************************************************************************)
EXTENDS MatchingEngine

\* An order of a book, or the one being matched, as an order of the market.
InMarket(order, symbol, ranks) ==
  [id |-> order.id, symbol |-> symbol, side |-> order.side, price |-> order.price,
   quantity |-> order.remaining, rank |-> ranks[order.id]]

RestingOrders(s) == {InMarket(books[s][i], s, rank) : i \in DOMAIN books[s]}

\* The order being matched, while any of it is left.
Aggressor ==
  IF call # Idle /\ call.remaining > 0 THEN {InMarket(call, call.symbol, rank)} ELSE {}

MarketOrders == Aggressor \cup UNION {RestingOrders(s) : s \in Symbols}

OnTape(trade) ==
  [buy |-> trade.buy, sell |-> trade.sell, symbol |-> trade.symbol,
   quantity |-> trade.quantity, price |-> trade.price]

\* The trades among the callbacks: each is followed by the resting order's
\* update, and the call's own update comes last.
Tape == [k \in 1..Len(log) \div 2 |-> OnTape(log[2 * k - 1])]

Auction == INSTANCE DoubleAuction
  WITH orders <- MarketOrders, nextId <- nextOrderId, clock <- nextRank, tape <- Tape

\* Every behaviour of the engine is one of the double auction: its trades are
\* those of best bid and best ask at the older order's price, amendments keep
\* or lose priority as the rules say, a fill changes nothing else, and a
\* crossed market is traded until it is uncrossed.
ImplementsAuction == Auction!Spec

-----------------------------------------------------------------------------
RestingIds == {id \in OrderIds : Resting(id)}
CallIds == IF call = Idle THEN {} ELSE {call.id}

Life == INSTANCE OrderLife
  WITH resting <- RestingIds, matching <- CallIds, nextId <- nextOrderId

\* Every step of the engine is a step in the life of at most one order: a fill
\* that exhausts an order, a cancel and a completed call close it and take it
\* out of the one place it had; an amendment moves it, or changes nothing but
\* its quantity; no order comes back after it was closed.
ImplementsOrderLife == Life!Spec

=============================================================================
