----------------------------- MODULE BenchStream -----------------------------
(***************************************************************************)
(* One scenario of the benchmark: bench/order_generator.cpp writes a       *)
(* stream of actions without seeing any engine, guessing the ids its adds  *)
(* will be given, and runScenario of bench/benchmark.cpp then replays the  *)
(* stream on an engine, here the reference one.  Random draws are choices. *)
(***************************************************************************)
EXTENDS MatchingEngine

CONSTANTS
  FairValues,   \* fair values, as the integers they are cut to
  SpreadWidth,  \* the half-width of the prices drawn, 20, 50 or 200 ticks
  Bias,         \* how far a buy may be above fair and a sell below, 5 ticks
  AmendPrices,  \* prices drawn for amendments, 10000 give or take 10
  Count         \* actions of the stream, 500,000 and 10,000,000 in the code

ASSUME FairValuesAssumption == FairValues \subseteq Nat \ {0}
ASSUME GeneratorAssumption == SpreadWidth \in Nat /\ Bias \in Nat /\ Count \in Nat

VARIABLES
  actions,         \* the stream generated so far
  liveOrderIds,    \* live_order_ids_
  nextExpectedId,  \* next_expected_id_
  replayed         \* actions given to the engine

streamVars == <<actions, liveOrderIds, nextExpectedId, replayed>>
allVars == <<books, nextOrderId, call, log, ret, rank, nextRank, closed,
             actions, liveOrderIds, nextExpectedId, replayed>>

StreamInit ==
  /\ Init
  /\ actions = <<>> /\ liveOrderIds = <<>> /\ nextExpectedId = 1 /\ replayed = 0

-----------------------------------------------------------------------------
(* The generator.                                                          *)

Larger(a, b) == IF a >= b THEN a ELSE b

\* Mutant: the price is not kept at one tick or more.
AddPriceUnclamped(side, fair, offset) ==
  IF side = "Buy" THEN Smaller(fair + offset, fair + Bias) ELSE Larger(fair + offset, fair - Bias)

\* generateAdd's price, from the fair value and the offset drawn.
AddPrice(side, fair, offset) ==
  LET drawn == Larger(fair + offset, 1)
      biased == IF side = "Buy" THEN Smaller(drawn, fair + Bias) ELSE Larger(drawn, fair - Bias)
  IN  Larger(biased, 1)

\* The engine takes any int64_t: the prices of the stream are among its prices.
ASSUME PricesDrawn ==
  /\ \A side \in Sides, fair \in FairValues, offset \in -SpreadWidth..SpreadWidth :
       AddPrice(side, fair, offset) \in Prices
  /\ \A price \in AmendPrices : price \in Int /\ Larger(price, 1) \in Prices

Generating == Len(actions) < Count

GenerateAdd(symbol, side, fair, offset, quantity) ==
  /\ Generating
  /\ actions' = Append(actions,
       [type |-> "Add", symbol |-> symbol, side |-> side,
        price |-> AddPrice(side, fair, offset), quantity |-> quantity])
  /\ liveOrderIds' = Append(liveOrderIds, nextExpectedId)
  /\ nextExpectedId' = nextExpectedId + 1

\* live_order_ids_[idx] = live_order_ids_.back(); pop_back()
SwapAndPop(ids, idx) == Front([ids EXCEPT ![idx] = Last(ids)])

GenerateCancel(idx) ==
  /\ Generating
  /\ actions' = Append(actions, [type |-> "Cancel", target |-> liveOrderIds[idx]])
  /\ liveOrderIds' = SwapAndPop(liveOrderIds, idx)
  /\ UNCHANGED nextExpectedId

\* Mutant: an amended order is no longer tracked.
GenerateAmendForgets(idx, price, quantity) ==
  /\ Generating
  /\ actions' = Append(actions, [type |-> "Amend", target |-> liveOrderIds[idx],
                                 price |-> Larger(price, 1), quantity |-> quantity])
  /\ liveOrderIds' = SwapAndPop(liveOrderIds, idx)
  /\ UNCHANGED nextExpectedId

\* The price is drawn around the fair value the simulation started from.
GenerateAmend(idx, price, quantity) ==
  /\ Generating
  /\ actions' = Append(actions, [type |-> "Amend", target |-> liveOrderIds[idx],
                                 price |-> Larger(price, 1), quantity |-> quantity])
  /\ UNCHANGED <<liveOrderIds, nextExpectedId>>

Generate ==
  /\ \/ \E symbol \in Symbols, side \in Sides, fair \in FairValues,
           offset \in -SpreadWidth..SpreadWidth, quantity \in Quantities \ {0} :
          GenerateAdd(symbol, side, fair, offset, quantity)
     \/ \E idx \in DOMAIN liveOrderIds :
          \/ GenerateCancel(idx)
          \/ \E price \in AmendPrices, quantity \in Quantities \ {0} : GenerateAmend(idx, price, quantity)
  /\ UNCHANGED <<vars, replayed>>

-----------------------------------------------------------------------------
(* The replay.                                                             *)

Apply(action) ==
  CASE action.type = "Add" ->
         \/ AddRejected(action.symbol, action.price, action.quantity)
         \/ AddOrder(action.symbol, action.side, action.price, action.quantity)
    [] action.type = "Cancel" ->
         \/ CancelMissed(action.target)
         \/ \E s \in Symbols : \E i \in DOMAIN books[s] : CancelOrder(action.target, s, i)
    [] action.type = "Amend" ->
         \/ AmendMissed(action.target, action.price, action.quantity)
         \/ \E s \in Symbols : \E i \in DOMAIN books[s] :
              \/ AmendInPlace(action.target, s, i, action.price, action.quantity)
              \/ AmendRematch(action.target, s, i, action.price, action.quantity)

Replay ==
  /\ ~ Generating
  /\ call = Idle
  /\ replayed < Count
  /\ Apply(actions[replayed + 1])
  /\ replayed' = replayed + 1
  /\ UNCHANGED <<actions, liveOrderIds, nextExpectedId>>

\* The engine gets on with the call.
Continue == Advance /\ UNCHANGED streamVars

StreamNext == Generate \/ Replay \/ Continue

StreamSpec == StreamInit /\ [][StreamNext]_allVars /\ WF_allVars(StreamNext)

-----------------------------------------------------------------------------
(* Properties                                                              *)

AddsBefore(n) == Cardinality({k \in 1..n : actions[k].type = "Add"})

\* The ids the generator guessed are those the engine hands out: no generated
\* order is refused, and every cancel or amendment names an order the engine
\* knew by then and the stream has not cancelled before.
GuessedIdsAreReal ==
  /\ nextOrderId = 1 + AddsBefore(replayed)
  /\ \A k \in DOMAIN actions :
       actions[k].type # "Add" =>
         /\ actions[k].target \in 1..AddsBefore(k)
         /\ \A j \in 1..k - 1 :
              actions[j].type = "Cancel" => actions[j].target # actions[k].target

\* After the replay every order that rests is one the generator still takes for
\* live: swap-and-pop drops the cancelled order and no other, so each resting
\* order could be cancelled or amended by a longer stream.
RestingOrdersAreLive ==
  replayed = Count /\ call = Idle =>
    /\ \A id \in OrderIds : Resting(id) => id \in Range(liveOrderIds)
    /\ IsInjective(liveOrderIds)

\* The replay of the whole stream ends.
ReplayEnds == <>(replayed = Count /\ call = Idle)

=============================================================================
