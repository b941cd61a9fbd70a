------------------------ MODULE LeaderboardFeedProofs -------------------------
(***************************************************************************)
(* The types of the feed, for any number of changes, of fetches in flight, *)
(* of failures and for every cap of the delay.  What takes an argument is  *)
(* that no version has more replies on their way than the page has fetches *)
(* unanswered: the count of one version is at most the sum over all.       *)
(***************************************************************************)
EXTENDS LeaderboardFeed, SumProofs, SequenceTheorems

LEMMA VersionsAre ==
  /\ Nothing \notin Versions /\ 0 \in Versions /\ IsFiniteSet(Versions)
  /\ Versions \subseteq Int
BY BoundsAssumption, FS_Interval DEF Nothing, Versions

Unanswered == FoldFunction(+, 0, fetches)

\* The replies of one version on their way are at most the fetches unanswered.
LEMMA OneOfTheFetches ==
  ASSUME TypeOK, NEW v \in Versions
  PROVE  fetches[v] \in Nat /\ Unanswered \in Nat /\ fetches[v] <= Unanswered
<1>1. /\ DOMAIN fetches = Versions
      /\ \A w \in Versions : fetches[w] \in Nat
  BY BoundsAssumption DEF TypeOK
<1>2. Unanswered = SumFunctionOnSet(fetches, Versions)
  BY <1>1 DEF Unanswered, FoldFunction, SumFunctionOnSet
<1> QED
  BY <1>1, <1>2, VersionsAre, SumOfNaturals

\* The delay between two attempts to connect stays within its cap.
LEMMA DelayCapped ==
  ASSUME NEW delay \in 1..MaxDelay
  PROVE  Min({delay * 2, MaxDelay}) \in 1..MaxDelay
<1> DEFINE S == {delay * 2, MaxDelay}
<1>1. delay * 2 \in Int /\ delay * 2 >= 1 /\ MaxDelay \in Int /\ MaxDelay >= 1
  BY BoundsAssumption
<1>2. \E x \in S : \A y \in S : x <= y
  BY <1>1
<1>3. Min(S) \in S /\ \A y \in S : Min(S) <= y
  <2> HIDE DEF S
  <2> QED
    BY <1>2 DEF Min
<1> QED
  BY <1>1, <1>3

\* Every step of the feed keeps the types.
LEMMA FeedTypesKept ==
  ASSUME TypeOK, [Next]_vars
  PROVE  TypeOK'
<1> USE VersionsAre
<1>1. ASSUME NEW thread \in PipelineThreads, Change(thread)
      PROVE  TypeOK'
  BY <1>1, BoundsAssumption DEF TypeOK, Change, NotifyLeaderboardUpdate, Versions
<1>2. CASE SendLeaderboard
  BY <1>2, AppendProperties DEF TypeOK, SendLeaderboard, server
<1>3. CASE StartWaiting
  BY <1>3 DEF TypeOK, StartWaiting, server
<1>4. CASE ClearEvent
  BY <1>4 DEF TypeOK, ClearEvent
<1>5. CASE OtherStreamClears
  BY <1>5 DEF TypeOK, OtherStreamClears, connection
<1>6. CASE FetchData
  <2>1. /\ Unanswered < MaxInFlight
        /\ fetches' = [fetches EXCEPT ![version] = @ + 1]
        /\ UNCHANGED <<server, connection, shown, failures>>
    BY <1>6, Zenon DEF FetchData, Unanswered
  <2>2. version \in Versions
    BY DEF TypeOK
  <2>3. /\ fetches[version] \in Nat /\ fetches[version] + 1 <= MaxInFlight
        /\ MaxInFlight \in Nat
    BY <2>1, <2>2, OneOfTheFetches, BoundsAssumption
  <2>4. fetches' \in [Versions -> 0..MaxInFlight]
    BY <2>1, <2>2, <2>3 DEF TypeOK
  <2> QED
    BY <2>1, <2>4 DEF TypeOK, server, connection
<1>7. ASSUME NEW v \in Versions, fetches[v] > 0, fetches' = [fetches EXCEPT ![v] = @ - 1]
      PROVE  fetches' \in [Versions -> 0..MaxInFlight]
  BY SMTT(40), <1>7, BoundsAssumption DEF TypeOK
<1>8. ASSUME NEW v \in Versions, ReceiveReply(v)
      PROVE  TypeOK'
  BY <1>7, <1>8 DEF TypeOK, ReceiveReply, HandleData, server, connection
<1>9. ASSUME NEW v \in Versions, FetchFails(v)
      PROVE  TypeOK'
  BY <1>7, <1>9 DEF TypeOK, FetchFails, server, connection
<1>10. CASE OpenSource
  BY <1>10, BoundsAssumption DEF TypeOK, OpenSource, server
<1>11. CASE ReceiveMessage
  <2>1. wire' \in Seq(Versions) /\ Head(wire) \in Versions
    BY <1>11, HeadTailProperties DEF TypeOK, ReceiveMessage
  <2> QED
    BY <1>11, <2>1 DEF TypeOK, ReceiveMessage, HandleData, server
<1>12. CASE LoseSource
  BY <1>12 DEF TypeOK, LoseSource, server
<1>13. CASE Reconnect
  <2>1. retryDelay' \in 1..MaxDelay
    BY <1>13, DelayCapped DEF TypeOK, Reconnect
  <2> QED
    BY <1>13, <2>1 DEF TypeOK, Reconnect, server
<1>14. CASE UNCHANGED vars
  BY <1>14 DEF TypeOK, vars
<1> QED
  BY <1>1, <1>2, <1>3, <1>4, <1>5, <1>6, <1>8, <1>9, <1>10, <1>11, <1>12, <1>13, <1>14
     DEF Next, StreamStep

\* The feed's variables keep their types; in particular the delay never leaves
\* 1..MaxDelay (sseRetryDelay), and the fetches of one version never exceed the
\* fetches in flight.
THEOREM FeedTypes == Spec => []TypeOK
<1>1. Init => TypeOK
  BY VersionsAre, BoundsAssumption DEF Init, TypeOK
<1> QED
  BY <1>1, FeedTypesKept, PTL DEF Spec

=============================================================================
