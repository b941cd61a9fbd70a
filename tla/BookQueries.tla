----------------------------- MODULE BookQueries -----------------------------
(***************************************************************************)
(* The two queries of the engine, getBookSnapshot and getOrderCount        *)
(* (reference/matching_engine.cpp:140-170), over the state of              *)
(* MatchingEngine.  Totals are uint32_t sums: they wrap.                   *)
(***************************************************************************)
EXTENDS MatchingEngine

CONSTANT UInt32Modulus  \* 2^32 in the code, small enough here to wrap

ASSUME UInt32Assumption == UInt32Modulus \in Nat \ {0}

\* Bound: fewer orders than a level's count, a uint32_t as well, can hold.
ASSUME CountsFit == MaxOrders < UInt32Modulus

\* The count is a sum over the books: there are finitely many.
ASSUME FinitelyManySymbols == IsFiniteSet(Symbols)

\* The orders a price level aggregates, by position.
AtLevel(symbol, side, price) ==
  {i \in DOMAIN books[symbol] :
     books[symbol][i].side = side /\ books[symbol][i].price = price}

\* Mutant: a level's total is overwritten, not added to.
PriceLevelOfLast(symbol, side, price) ==
  LET level == AtLevel(symbol, side, price)
      last == CHOOSE i \in level : \A j \in level : j <= i
  IN  [price |-> price, total |-> books[symbol][last].remaining % UInt32Modulus,
       count |-> Cardinality(level) % UInt32Modulus]

LotsAt(symbol, positions) ==
  SumFunctionOnSet([i \in DOMAIN books[symbol] |-> books[symbol][i].remaining], positions)

PriceLevel(symbol, side, price) ==
  LET level == AtLevel(symbol, side, price)
  IN  [price |-> price,
       total |-> LotsAt(symbol, level) % UInt32Modulus,
       count |-> Cardinality(level) % UInt32Modulus]

\* The keys of price_map.
PricesOf(symbol, side) ==
  {books[symbol][i].price : i \in {j \in DOMAIN books[symbol] : books[symbol][j].side = side}}

\* The keys of the map read backwards for the buys and forwards for the sells.
InOrder(prices, side) ==
  CHOOSE f \in [1..Cardinality(prices) -> prices] :
    \A k, m \in DOMAIN f : k < m => IF side = "Buy" THEN f[k] > f[m] ELSE f[k] < f[m]

GetBookSnapshot(symbol, side) ==
  LET prices == InOrder(PricesOf(symbol, side), side)
  IN  [k \in DOMAIN prices |-> PriceLevel(symbol, side, prices[k])]

\* Mutant: orders_.size(), the number of books.
BookCount == Cardinality({s \in Symbols : books[s] # <<>>})

GetOrderCount == MapThenSumSet(LAMBDA s : Len(books[s]), Symbols)

-----------------------------------------------------------------------------
\* Between calls getOrderCount is the number of orders accepted and not yet
\* reported Filled or Cancelled: the queries and the callbacks agree.
OrderCountAgreesWithCallbacks ==
  call = Idle => GetOrderCount = nextOrderId - 1 - Cardinality(closed)

OrdersIn(levels) == SumFunction([k \in DOMAIN levels |-> levels[k].count])
LotsIn(levels) == SumFunction([k \in DOMAIN levels |-> levels[k].total])

\* Both snapshots of a symbol, read from the best price outwards, have their
\* best bid below their best ask, strictly worsening prices, and between them
\* every resting order once and every resting lot once, up to the wrap-around
\* of the 32-bit totals.
SnapshotsShowBook ==
  \A s \in Symbols :
    LET bids == GetBookSnapshot(s, "Buy")
        asks == GetBookSnapshot(s, "Sell")
    IN  /\ bids # <<>> /\ asks # <<>> => bids[1].price < asks[1].price
        /\ \A k \in 1..Len(bids) - 1 : bids[k].price > bids[k + 1].price
        /\ \A k \in 1..Len(asks) - 1 : asks[k].price < asks[k + 1].price
        /\ OrdersIn(bids) + OrdersIn(asks) = Len(books[s])
        /\ (LotsIn(bids) + LotsIn(asks)) % UInt32Modulus
             = LotsAt(s, DOMAIN books[s]) % UInt32Modulus

=============================================================================
