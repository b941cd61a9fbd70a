--------------------------- MODULE LeaderboardFeed ---------------------------
(***************************************************************************)
(* How a change of the leaderboard reaches a page: the event stream of     *)
(* infra/server/app.py and the page's fetches and EventSource in           *)
(* leaderboard/static/js/leaderboard.js.  The leaderboard is a version     *)
(* number here; a reply or a message carries the version it was read at.   *)
(***************************************************************************)
EXTENDS Integers, FiniteSets, Sequences, SequencesExt

CONSTANTS
  PipelineThreads,  \* where pipelines end: "worker" (a background task) and
                    \* "cron" in the deployed server, and "loop" for a task
                    \* that ran on the event loop itself
  MaxChanges,   \* bound: changes of the leaderboard
  MaxInFlight,  \* bound: fetches unanswered at once, one more every 10 s
  MaxFailures,  \* bound: failed fetches and broken streams
  MaxDelay      \* the cap of sseRetryDelay, 30 s in the code

ASSUME ThreadsAssumption == PipelineThreads \subseteq {"worker", "cron", "loop"}
ASSUME BoundsAssumption ==
  /\ MaxChanges \in Nat /\ MaxInFlight \in Nat \ {0} /\ MaxFailures \in Nat
  /\ MaxDelay \in Nat \ {0}

VARIABLES
  version,      \* the leaderboard in the database
  sseEvent,     \* _sse_event is set
  stream,       \* where event_generator is, for the page's connection
  told,         \* history: the last version that stream sent
  wire,         \* messages of the stream on their way to the page
  fetches,      \* by version, the replies to fetches on their way
  source,       \* the page's EventSource
  retryDelay,   \* sseRetryDelay, in seconds
  shown,        \* the version handleData last rendered, Nothing before
  failures

vars == <<version, sseEvent, stream, told, wire, fetches, source, retryDelay, shown,
          failures>>

Nothing == -1
Versions == 0..MaxChanges

server == <<version, sseEvent>>
connection == <<stream, told, wire, source, retryDelay>>

Init ==
  /\ version = 0 /\ sseEvent = FALSE
  /\ stream = "none" /\ told = Nothing /\ wire = <<>>
  /\ fetches = [v \in Versions |-> IF v = 0 THEN 1 ELSE 0]
  /\ source = "connecting"
  /\ retryDelay = 1
  /\ shown = Nothing
  /\ failures = 0

-----------------------------------------------------------------------------
(* The server.                                                             *)

\* _notify_leaderboard_update: asyncio.get_event_loop finds the running loop in
\* the loop's own thread.  A worker thread has none, and the RuntimeError that
\* get_event_loop raises there is passed over; a cron process notifies nobody.
NotifyLeaderboardUpdate(thread) ==
  IF thread = "loop"
    THEN /\ sseEvent' = TRUE
         /\ stream' = IF stream = "waiting" THEN "woken" ELSE stream
    ELSE UNCHANGED <<sseEvent, stream>>

\* A pipeline completes a submission that changes the leaderboard.
Change(thread) ==
  /\ version < MaxChanges
  /\ version' = version + 1
  /\ NotifyLeaderboardUpdate(thread)
  /\ UNCHANGED <<told, wire, source, retryDelay, fetches, shown, failures>>

\* The leaderboard is read and sent: at once on a new connection, and again
\* after each wait that returned.
SendLeaderboard ==
  /\ stream = "reading"
  /\ wire' = Append(wire, version) /\ told' = version
  /\ stream' = "sent"
  /\ UNCHANGED <<server, source, retryDelay, fetches, shown, failures>>

\* await _sse_event.wait() returns at once if the event is set.  A wait that
\* times out sends a heartbeat, which the page ignores, and is started again.
StartWaiting ==
  /\ stream = "sent"
  /\ stream' = IF sseEvent THEN "woken" ELSE "waiting"
  /\ UNCHANGED <<server, told, wire, source, retryDelay, fetches, shown, failures>>

\* The wait returned: the event, shared by all streams, is cleared.
ClearEvent ==
  /\ stream = "woken"
  /\ sseEvent' = FALSE
  /\ stream' = "reading"
  /\ UNCHANGED <<version, told, wire, source, retryDelay, fetches, shown, failures>>

\* The stream of another page clears the event first.
OtherStreamClears ==
  /\ sseEvent
  /\ sseEvent' = FALSE
  /\ UNCHANGED <<version, connection, fetches, shown, failures>>

StreamStep == SendLeaderboard \/ StartWaiting \/ ClearEvent

-----------------------------------------------------------------------------
(* The page.                                                               *)

\* setInterval: a fetch every ten seconds, whether or not the last returned.
FetchData ==
  /\ FoldFunction(+, 0, fetches) < MaxInFlight
  /\ fetches' = [fetches EXCEPT ![version] = @ + 1]
  /\ UNCHANGED <<server, connection, shown, failures>>

\* Mutant: only the first data is rendered.
HandleDataOnce(v) == shown' = IF shown = Nothing THEN v ELSE shown

\* handleData renders whatever it is given; what it adds to the ticker is left
\* out.
HandleData(v) == shown' = v

ReceiveReply(v) ==
  /\ fetches[v] > 0
  /\ fetches' = [fetches EXCEPT ![v] = @ - 1]
  /\ HandleData(v)
  /\ UNCHANGED <<server, connection, failures>>

FetchFails(v) ==
  /\ fetches[v] > 0
  /\ failures < MaxFailures
  /\ failures' = failures + 1
  /\ fetches' = [fetches EXCEPT ![v] = @ - 1]
  /\ UNCHANGED <<server, connection, shown>>

OpenSource ==
  /\ source = "connecting"
  /\ source' = "open"
  /\ stream' = "reading"
  /\ retryDelay' = 1
  /\ UNCHANGED <<server, told, wire, fetches, shown, failures>>

ReceiveMessage ==
  /\ source = "open" /\ wire # <<>>
  /\ wire' = Tail(wire)
  /\ HandleData(Head(wire))
  /\ UNCHANGED <<server, stream, told, source, retryDelay, fetches, failures>>

\* onerror closes the source; what was on the wire is lost with it.
LoseSource ==
  /\ source \in {"connecting", "open"}
  /\ failures < MaxFailures
  /\ failures' = failures + 1
  /\ source' = "closed" /\ stream' = "none" /\ wire' = <<>> /\ told' = Nothing
  /\ UNCHANGED <<server, retryDelay, fetches, shown>>

\* Mutant: the delay is doubled without a cap.
ReconnectUncapped ==
  /\ source = "closed"
  /\ source' = "connecting"
  /\ retryDelay' = retryDelay * 2
  /\ UNCHANGED <<server, stream, told, wire, fetches, shown, failures>>

\* The timer of onerror: the next delay is doubled, then a new source made.
Reconnect ==
  /\ source = "closed"
  /\ source' = "connecting"
  /\ retryDelay' = Min({retryDelay * 2, MaxDelay})
  /\ UNCHANGED <<server, stream, told, wire, fetches, shown, failures>>

Next ==
  \/ \E thread \in PipelineThreads : Change(thread)
  \/ StreamStep \/ OtherStreamClears
  \/ FetchData \/ \E v \in Versions : ReceiveReply(v) \/ FetchFails(v)
  \/ OpenSource \/ ReceiveMessage \/ LoseSource \/ Reconnect

\* The server answers, the network delivers and the page's timers fire; changes
\* and failures need not happen.
Fairness ==
  /\ WF_vars(StreamStep)
  /\ WF_vars(FetchData) /\ \A v \in Versions : WF_vars(ReceiveReply(v))
  /\ WF_vars(OpenSource) /\ WF_vars(ReceiveMessage) /\ WF_vars(Reconnect)

Spec == Init /\ [][Next]_vars /\ Fairness

-----------------------------------------------------------------------------
(* Properties                                                              *)

TypeOK ==
  /\ version \in Versions
  /\ stream \in {"none", "reading", "sent", "waiting", "woken"}
  /\ told \in Versions \cup {Nothing}
  /\ wire \in Seq(Versions)
  /\ fetches \in [Versions -> 0..MaxInFlight]
  /\ source \in {"connecting", "open", "closed"}
  /\ retryDelay \in 1..MaxDelay
  /\ shown \in Versions \cup {Nothing}

\* Once the leaderboard no longer changes, the page comes to show it and keeps
\* showing it, although replies overtake each other, fetches fail, streams
\* break or are not told of a change: the polling heals them all.
PageSettles == <>[](shown = version)

\* "Server-Sent Events for live leaderboard updates" (README.md:449), "then
\* notify SSE" (app.py:96): a stream that is open comes to send each version, or
\* a later one, or it breaks.
StreamHearsOfChanges ==
  \A v \in Versions :
    (stream = "waiting" /\ version = v) ~> (stream # "waiting" \/ told >= v)

=============================================================================
