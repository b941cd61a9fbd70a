------------------------------ MODULE OrderLife ------------------------------
(***************************************************************************)
(* The life of an order as its owner may count on it (README.md, Matching  *)
(* Rules; include/exchange/types.h): it arrives under a new id, is matched,*)
(* rests, may be matched again, and is closed once.  Nothing is said here  *)
(* of prices, quantities, vectors or sides.  What the matching engine does *)
(* to its books, one fill, erasure or re-insertion at a time, is each time *)
(* one of these steps, or changes nothing an owner counts on.              *)
(***************************************************************************)
EXTENDS Integers

CONSTANT MaxOrders   \* bound: orders that arrive

VARIABLES
  resting,    \* ids of the orders in a book
  matching,   \* the id of the order being matched, in a set, or {}
  closed,     \* ids reported Filled or Cancelled
  nextId,     \* the id of the next order
  rank,       \* the time priority of each order
  nextRank    \* the next time priority

vars == <<resting, matching, closed, nextId, rank, nextRank>>

Init ==
  /\ resting = {} /\ matching = {} /\ closed = {}
  /\ nextId = 1
  /\ rank = [id \in 1..MaxOrders |-> 0] /\ nextRank = 1

\* An order enters the matching behind all others.
Enter(id) ==
  /\ matching = {} /\ matching' = {id}
  /\ rank' = [rank EXCEPT ![id] = nextRank]
  /\ nextRank' = nextRank + 1
  /\ UNCHANGED closed

Arrive ==
  /\ nextId <= MaxOrders
  /\ Enter(nextId)
  /\ nextId' = nextId + 1
  /\ UNCHANGED resting

\* An amendment that loses priority.
Reenter(id) ==
  /\ id \in resting
  /\ Enter(id)
  /\ resting' = resting \ {id}
  /\ UNCHANGED nextId

\* What is left of the order being matched goes into its book.
Rest ==
  /\ matching # {}
  /\ resting' = resting \cup matching
  /\ matching' = {}
  /\ UNCHANGED <<closed, nextId, rank, nextRank>>

\* An order is filled, or cancelled, and reported so.
Close(id) ==
  /\ id \in resting \cup matching
  /\ resting' = resting \ {id}
  /\ matching' = matching \ {id}
  /\ closed' = closed \cup {id}
  /\ UNCHANGED <<nextId, rank, nextRank>>

Next ==
  \/ Arrive \/ Rest
  \/ \E id \in resting : Reenter(id)
  \/ \E id \in resting \cup matching : Close(id)

Spec == Init /\ [][Next]_vars

=============================================================================
