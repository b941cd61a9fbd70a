------------------------------ MODULE MatchLoop ------------------------------
(***************************************************************************)
(* matchOrder line by line (reference/matching_engine.cpp:14-66): the scan *)
(* of the book with its index and best_idx, the two callbacks of a fill    *)
(* and the erasure, one step each.  The rest of the engine is that of      *)
(* MatchingEngine, which this module implements: there a fill is one step  *)
(* and best_idx is defined by what it means.                               *)
(***************************************************************************)
EXTENDS MatchingEngine

VARIABLES
  pc,       \* "out" of matchOrder, at the "loop" head, in the "scan", about
            \* to "trade", to send the resting order's "update" or to "return"
  idx,      \* i, as a position from 1
  bestIdx   \* best_idx, 0 for the code's -1

allVars == <<books, nextOrderId, call, log, ret, rank, nextRank, closed, pc, idx, bestIdx>>

Book == books[call.symbol]

LoopInit == Init /\ pc = "out" /\ idx = 0 /\ bestIdx = 0

\* A call of the client: it enters matchOrder if it left something to match.
EnterCall ==
  /\ pc = "out"
  /\ call = Idle /\ Next
  /\ pc' = IF call' = Idle THEN "out" ELSE "loop"
  /\ UNCHANGED <<idx, bestIdx>>

\* while (remaining > 0) { int best_idx = -1; int i = 0; ...
BeginScan ==
  /\ pc = "loop" /\ call.remaining > 0
  /\ pc' = "scan" /\ idx' = 1 /\ bestIdx' = 0
  /\ UNCHANGED vars

\* Mutant: at equal prices the later order replaces best_idx.
LatestBest ==
  IF ~ Crosses(call.side, call.price, Book[idx]) THEN bestIdx
  ELSE IF bestIdx = 0 THEN idx
  ELSE IF Better(call.side, Book[bestIdx].price, Book[idx].price) THEN bestIdx
  ELSE idx

\* Mutant: best_idx stays at the first order that crosses.
FirstBest ==
  IF bestIdx = 0 /\ Crosses(call.side, call.price, Book[idx]) THEN idx ELSE bestIdx

\* best_idx after book[i] was looked at.
NextBest ==
  IF ~ Crosses(call.side, call.price, Book[idx]) THEN bestIdx
  ELSE IF bestIdx = 0 THEN idx
  ELSE IF Better(call.side, Book[idx].price, Book[bestIdx].price) THEN idx
  ELSE bestIdx

\* One iteration of the for loop over the book.
ScanOne ==
  /\ pc = "scan" /\ idx <= Len(Book)
  /\ bestIdx' = NextBest
  /\ idx' = idx + 1
  /\ UNCHANGED <<vars, pc>>

\* Mutant: no break when no order crosses.
EndScanNoBreak ==
  /\ pc = "scan" /\ idx > Len(Book)
  /\ pc' = IF bestIdx = 0 THEN "loop" ELSE "trade"
  /\ UNCHANGED <<vars, idx, bestIdx>>

\* The scan is over: break out of matchOrder, or fill.
EndScan ==
  /\ pc = "scan" /\ idx > Len(Book)
  /\ pc' = IF bestIdx = 0 THEN "return" ELSE "trade"
  /\ UNCHANGED <<vars, idx, bestIdx>>

\* onTrade, then both remaining quantities are decremented.
SendTrade ==
  /\ pc = "trade"
  /\ LET resting == Book[bestIdx]
         qty == Smaller(call.remaining, resting.remaining)
         buyId == IF call.side = "Buy" THEN call.id ELSE resting.id
         sellId == IF call.side = "Buy" THEN resting.id ELSE call.id
     IN  /\ CallBack(<<Trade(buyId, sellId, call.symbol, resting.price, qty)>>)
         /\ books' = [books EXCEPT ![call.symbol][bestIdx].remaining = @ - qty]
         /\ call' = [call EXCEPT !.remaining = @ - qty]
  /\ pc' = "update"
  /\ KeepRanks
  /\ UNCHANGED <<nextOrderId, ret, idx, bestIdx>>

\* What the update of the resting order does once it is sent.
AfterUpdate ==
  IF Book[bestIdx].remaining = 0 THEN RemoveAt(Book, bestIdx) ELSE Book

UpdateOfResting ==
  LET resting == Book[bestIdx]
  IN  OrderUpdate(resting.id, IF resting.remaining = 0 THEN "Filled" ELSE "Accepted",
                  resting.remaining)

\* onOrderUpdate for the resting order, erased after it if it is filled.
SendUpdate ==
  /\ pc = "update"
  /\ CallBack(<<UpdateOfResting>>)
  /\ books' = [books EXCEPT ![call.symbol] = AfterUpdate]
  /\ pc' = "loop"
  /\ KeepRanks
  /\ UNCHANGED <<nextOrderId, call, ret, idx, bestIdx>>

\* matchOrder returned: addOrder or amendOrder finishes the call.
LeaveCall ==
  /\ \/ pc = "loop" /\ call.remaining = 0 /\ ReturnFilled
     \/ pc = "return" /\ RestRemainder
  /\ pc' = "out"
  /\ UNCHANGED <<idx, bestIdx>>

LoopStep == BeginScan \/ ScanOne \/ EndScan \/ SendTrade \/ SendUpdate \/ LeaveCall

LoopNext == EnterCall \/ LoopStep

LoopSpec == LoopInit /\ [][LoopNext]_allVars /\ WF_allVars(LoopStep)

-----------------------------------------------------------------------------
(* The engine this implements: a fill is complete once its trade is sent.  *)

FilledBooks == IF pc = "update" THEN [books EXCEPT ![call.symbol] = AfterUpdate] ELSE books
FilledLog == IF pc = "update" THEN log \o <<UpdateOfResting>> ELSE log
FilledClosed == IF pc = "update" THEN closed \cup TerminalIds(<<UpdateOfResting>>) ELSE closed

Engine == INSTANCE MatchingEngine WITH
  books <- FilledBooks, log <- FilledLog, closed <- FilledClosed

\* The loops as written do what MatchingEngine says of them: the scan finds
\* the best crossing order, first come first served at equal prices, matching
\* stops only when none is left, and every call ends.
ImplementsEngine == Engine!Spec

\* best_idx is in range and best among the orders scanned so far, in the
\* middle of the scan too; the fill uses it only after the whole book was seen.
ScanFindsBest ==
  /\ pc = "scan" =>
       LET seen == SubSeq(Book, 1, idx - 1)
       IN  IF bestIdx = 0 THEN NoneCrosses(seen, call.side, call.price)
           ELSE bestIdx \in DOMAIN seen /\ IsBest(seen, call.side, call.price, bestIdx)
  /\ pc = "trade" => bestIdx \in DOMAIN Book /\ IsBest(Book, call.side, call.price, bestIdx)
  /\ pc = "return" => NoneCrosses(Book, call.side, call.price)

\* A book queried from a callback or between calls shows no exhausted order,
\* but for the one whose Filled update is being delivered: it is erased only
\* after the listener returns (matching_engine.cpp:56-58).
ExhaustedOnlyWhileReported ==
  \A s \in Symbols : \A i \in DOMAIN books[s] :
    books[s][i].remaining = 0 => pc = "update" /\ s = call.symbol /\ i = bestIdx

\* The loops end: matchOrder always returns to the caller.
LoopTerminates == (pc # "out") ~> (pc = "out")

=============================================================================
