--------------------------- MODULE LeaderboardProofs ---------------------------
(***************************************************************************)
(* The leaderboard for every set of teams and scenarios, any weights and   *)
(* figures and any number of submissions.  A reply is read in pieces while *)
(* pipelines write; what holds it together is that a complete submission   *)
(* never changes, so every entry can be checked against its row at any     *)
(* time (Grounded, Filled).  The sums of the score stay closed: no proof   *)
(* needs what they add up.                                                 *)
(***************************************************************************)
EXTENDS Leaderboard, FiniteSetTheorems, SequenceTheorems, TLAPS

Benches == UNION {[done -> Stats] : done \in SUBSET Scenarios}

Entries ==
  [row : Nat, team : Teams, ops : {WeightedOps(b) : b \in Benches},
   p50 : {WeightedP50(b) : b \in Benches}, scenarios : Benches,
   mean : {0} \cup {WeightedMean(b) : b \in Benches}, submissions : Nat]

Replies == [phase : {"scenarios", "counts", "sent"}, next : Nat, entries : Seq(Entries)]

\* An entry tells what its submission's row says in database d, which is complete.
Grounded(d, entry) ==
  /\ entry.row \in DOMAIN d
  /\ d[entry.row].status = "complete" /\ d[entry.row].tests = "all"
  /\ d[entry.row].team = entry.team /\ DOMAIN d[entry.row].benches # {}
  /\ entry.ops = WeightedOps(d[entry.row].benches)
  /\ entry.p50 = WeightedP50(d[entry.row].benches)

\* The breakdown is that of the row.
Filled(d, entry) == entry.scenarios = d[entry.row].benches

\* SubmissionCount, of database d.
CountIn(d, team) == Cardinality({k \in DOMAIN d : d[k].team = team})

\* The count has the entry's own submission and none that is not there.
Counted(d, entry) == entry.submissions \in 1..CountIn(d, entry.team)

\* Rows have their types.
Whole(d) == d \in Seq(Submission)

\* The entries tell what the rows say, as far as the reply has come.
Tells(d, r) ==
  \A i \in DOMAIN r.entries :
    /\ Grounded(d, r.entries[i])
    /\ r.phase # "scenarios" \/ i < r.next => Filled(d, r.entries[i])
    /\ r.phase = "sent" \/ (r.phase = "counts" /\ i < r.next) => Counted(d, r.entries[i])

Fits(r) == r \in Replies /\ r.next \in 1..Len(r.entries) + 1

LeaderboardInv == Whole(db) /\ Fits(reply) /\ Tells(db, reply)

-----------------------------------------------------------------------------
(* The writes.                                                             *)

\* What every write leaves as it was: the rows stay, with their teams, and so
\* does what is complete or failed.
Kept(d, e) ==
  /\ DOMAIN d \subseteq DOMAIN e
  /\ \A k \in DOMAIN d :
       /\ e[k].team = d[k].team
       /\ d[k].status # "running" => e[k] = d[k]

\* No benchmark results yet.
LEMMA NoBenches == <<>> \in Benches /\ DOMAIN <<>> = {}
<1>1. <<>> \in [{} -> Stats]
  OBVIOUS
<1> QED
  BY <1>1 DEF Benches

\* The row of a submission that is being worked on is edited.
LEMMA RowEdit ==
  ASSUME Whole(db), NEW k, Running(k),
         NEW new \in Submission, db' = [db EXCEPT ![k] = new], new.team = db[k].team
  PROVE  Whole(db') /\ Kept(db, db')
<1>1. /\ db \in Seq(Submission) /\ k \in DOMAIN db /\ db[k].status = "running"
      /\ DOMAIN db = 1..Len(db)
  BY LenProperties DEF Running, Whole
<1>2. /\ db' \in Seq(Submission) /\ DOMAIN db' = DOMAIN db
      /\ \A j \in DOMAIN db : db'[j] = IF j = k THEN new ELSE db[j]
  BY <1>1, ExceptSeq, LenProperties
<1>3. Whole(db')
  BY <1>2 DEF Whole
<1>4. Kept(db, db')
  BY <1>1, <1>2 DEF Kept
<1> QED
  BY <1>2, <1>3, <1>4

\* A write keeps types and rows.
LEMMA Writes ==
  ASSUME Whole(db), Write
  PROVE  reply' = reply /\ Whole(db') /\ Kept(db, db')
<1> db \in Seq(Submission)
  BY DEF Whole
<1>1. CASE \E team \in Teams : InsertSubmission(team)
  <2>1. PICK team \in Teams : InsertSubmission(team)
    BY <1>1
  <2> DEFINE new == [team |-> team, status |-> "running", tests |-> "none", benches |-> <<>>]
  <2>2. new \in Submission /\ new.status = "running"
    BY NoBenches DEF Submission, Benches
  <2>3. reply' = reply /\ db' = Append(db, new)
    BY <2>1 DEF InsertSubmission
  <2> HIDE DEF new
  <2>4. /\ db' \in Seq(Submission) /\ Len(db) \in Nat
        /\ DOMAIN db = 1..Len(db) /\ DOMAIN db' = 1..Len(db) + 1
        /\ \A k \in 1..Len(db) : db'[k] = db[k]
        /\ db'[Len(db) + 1] = new
    BY <2>2, <2>3, AppendProperties, LenProperties
  <2>5. Whole(db')
    BY <2>2, <2>4 DEF Whole
  <2> QED
    BY <2>3, <2>4, <2>5 DEF Kept
<1>2. ASSUME NEW k \in DOMAIN db, NEW outcome \in {"all", "some", "zero"}, InsertTestResult(k, outcome)
      PROVE  reply' = reply /\ Whole(db') /\ Kept(db, db')
  <2> DEFINE new == [db[k] EXCEPT !.tests = outcome]
  <2>1. Running(k) /\ reply' = reply /\ db' = [db EXCEPT ![k] = new]
    BY <1>2 DEF InsertTestResult
  <2>2. db[k] \in Submission /\ db[k].status = "running"
    BY <2>1, ElementOfSeq, LenProperties DEF Running
  <2>3. new \in Submission /\ new.team = db[k].team /\ new.status = "running"
    BY <2>2 DEF Submission
  <2> HIDE DEF new
  <2> QED
    BY <2>1, <2>3, RowEdit
<1>3. ASSUME NEW k \in DOMAIN db, NEW scenario \in Scenarios, NEW stats \in Stats,
             InsertBenchResult(k, scenario, stats)
      PROVE  reply' = reply /\ Whole(db') /\ Kept(db, db')
  <2> DEFINE old == db[k].benches
             benches == [s \in DOMAIN old \cup {scenario} |-> IF s = scenario THEN stats ELSE old[s]]
             new == [db[k] EXCEPT !.benches = benches]
  <2>1. Running(k) /\ reply' = reply /\ db' = [db EXCEPT ![k] = new]
    BY <1>3 DEF InsertBenchResult
  <2>2. db[k] \in Submission /\ db[k].status = "running"
    BY <2>1, ElementOfSeq, LenProperties DEF Running
  <2>3. PICK done \in SUBSET Scenarios : old \in [done -> Stats]
    BY <2>2 DEF Submission
  <2>4. done \cup {scenario} \in SUBSET Scenarios /\ benches \in [done \cup {scenario} -> Stats]
    BY <2>3
  <2> HIDE DEF benches
  <2>5. new \in Submission /\ new.team = db[k].team /\ new.status = "running"
    BY <2>2, <2>4 DEF Submission
  <2> HIDE DEF new
  <2> QED
    BY <2>1, <2>5, RowEdit
<1>4. ASSUME NEW k \in DOMAIN db, Complete(k) \/ Fail(k)
      PROVE  reply' = reply /\ Whole(db') /\ Kept(db, db')
  <2>1. PICK status \in {"complete", "failed"} :
          db' = [db EXCEPT ![k].status = status]
    BY <1>4 DEF Complete, Fail
  <2> DEFINE new == [db[k] EXCEPT !.status = status]
  <2>2. Running(k) /\ reply' = reply /\ db' = [db EXCEPT ![k] = new]
    BY <1>4, <2>1 DEF Complete, Fail
  <2>3. db[k] \in Submission
    BY <2>2, ElementOfSeq, LenProperties DEF Running
  <2>4. /\ new \in Submission /\ new.team = db[k].team
    BY <2>3 DEF Submission
  <2> HIDE DEF new
  <2> QED
    BY <2>1, <2>2, <2>4, RowEdit
<1> QED
  BY <1>1, <1>2, <1>3, <1>4 DEF Write

\* The submissions of a team can be counted.
LEMMA Countable ==
  ASSUME NEW d \in Seq(Submission), NEW team
  PROVE  /\ IsFiniteSet({k \in DOMAIN d : d[k].team = team}) /\ CountIn(d, team) \in Nat
         /\ \A k \in DOMAIN d : d[k].team = team => CountIn(d, team) >= 1
<1> DEFINE Own == {k \in DOMAIN d : d[k].team = team}
<1>1. IsFiniteSet(Own) /\ Cardinality(Own) \in Nat
  <2>1. DOMAIN d = 1..Len(d) /\ Len(d) \in Nat
    BY LenProperties
  <2>2. IsFiniteSet(DOMAIN d)
    BY <2>1, FS_Interval
  <2>3. Own \in SUBSET DOMAIN d
    OBVIOUS
  <2> HIDE DEF Own
  <2> QED
    BY <2>2, <2>3, FS_Subset, FS_CardinalityType
<1>2. ASSUME NEW k \in DOMAIN d, d[k].team = team
      PROVE  Cardinality(Own) >= 1
  <2>1. k \in Own
    BY <1>2
  <2> HIDE DEF Own
  <2> QED
    BY <1>1, <2>1, FS_EmptySet
<1> QED
  BY <1>1, <1>2 DEF CountIn

\* Writes make them no fewer.
LEMMA CountsGrow ==
  ASSUME NEW d \in Seq(Submission), NEW e \in Seq(Submission), Kept(d, e), NEW team
  PROVE  CountIn(d, team) <= CountIn(e, team)
<1> DEFINE Before == {k \in DOMAIN d : d[k].team = team}
           After == {k \in DOMAIN e : e[k].team = team}
<1>1. IsFiniteSet(After)
  BY Countable
<1>2. Before \in SUBSET After
  BY DEF Kept
<1>3. CountIn(d, team) = Cardinality(Before) /\ CountIn(e, team) = Cardinality(After)
  BY DEF CountIn
<1> HIDE DEF Before, After
<1> QED
  BY <1>1, <1>2, <1>3, FS_Subset

\* What a reply tells stays true while pipelines write.
LEMMA RepliesStay ==
  ASSUME NEW d, NEW e, Whole(d), Whole(e), Kept(d, e), NEW r, Fits(r), Tells(d, r)
  PROVE  Tells(e, r)
<1> SUFFICES ASSUME NEW i \in DOMAIN r.entries
             PROVE  /\ Grounded(e, r.entries[i])
                    /\ Filled(d, r.entries[i]) => Filled(e, r.entries[i])
                    /\ Counted(d, r.entries[i]) => Counted(e, r.entries[i])
  BY DEF Tells
<1> DEFINE entry == r.entries[i]
<1>1. Grounded(d, entry)
  BY DEF Tells
<1>2. entry \in Entries
  BY ElementOfSeq, LenProperties DEF Fits, Replies
<1> HIDE DEF entry
<1>3. entry.row \in DOMAIN e /\ e[entry.row] = d[entry.row]
  BY <1>1 DEF Grounded, Kept
<1>4. Grounded(e, entry) /\ (Filled(d, entry) => Filled(e, entry))
  BY <1>1, <1>3 DEF Grounded, Filled
<1>5. /\ CountIn(d, entry.team) \in Nat /\ CountIn(e, entry.team) \in Nat
      /\ CountIn(d, entry.team) <= CountIn(e, entry.team)
  BY Countable, CountsGrow DEF Whole
<1>6. Counted(d, entry) => Counted(e, entry)
  BY <1>2, <1>5 DEF Counted, Entries
<1> QED
  BY <1>4, <1>6 DEF entry

-----------------------------------------------------------------------------
(* The parts of a reply.                                                   *)

\* A row that can be ranked.
LEMMA ScoredRows ==
  ASSUME LeaderboardInv, NEW k \in Scored
  PROVE  /\ k \in DOMAIN db /\ k \in Nat /\ db[k] \in Submission
         /\ db[k].status = "complete" /\ db[k].tests = "all" /\ DOMAIN db[k].benches # {}
<1>1. /\ k \in DOMAIN db /\ db[k].status = "complete" /\ db[k].tests = "all"
      /\ DOMAIN db[k].benches # {}
  BY DEF Scored, Qualified
<1>2. db \in Seq(Submission)
  BY DEF LeaderboardInv, Whole
<1>3. db[k] \in Submission /\ k \in 1..Len(db)
  BY <1>1, <1>2, ElementOfSeq, LenProperties
<1> QED
  BY <1>1, <1>2, <1>3, LenProperties

\* What the ranking tells is what the rows say.
LEMMA EntryGrounded ==
  ASSUME LeaderboardInv, NEW k \in Scored
  PROVE  /\ Entry(k) \in Entries /\ Grounded(db, Entry(k))
         /\ Entry(k).team = db[k].team /\ Entry(k).ops = Score(k)
<1>1. /\ k \in DOMAIN db /\ k \in Nat /\ db[k].team \in Teams /\ db[k].benches \in Benches
      /\ db[k].status = "complete" /\ db[k].tests = "all" /\ DOMAIN db[k].benches # {}
  BY ScoredRows DEF Submission, Benches
<1>2. /\ Entry(k).row = k /\ Entry(k).team = db[k].team /\ Entry(k).ops = Score(k)
      /\ Entry(k).ops = WeightedOps(db[k].benches) /\ Entry(k).p50 = WeightedP50(db[k].benches)
  BY DEF Entry, Score
<1>3. Grounded(db, Entry(k))
  BY <1>1, <1>2 DEF Grounded
<1>4. Entry(k) \in Entries
  BY <1>1, NoBenches DEF Entry, Entries, Score
<1> QED
  BY <1>2, <1>3, <1>4

\* A ranking is a sequence of such rows.
LEMMA RankingTyped ==
  ASSUME NEW r \in Rankings
  PROVE  \E n \in Nat : r \in [1..n -> Scored]
<1>1. Cardinality(Teams) \in Nat
  BY TeamsAssumption, FS_CardinalityType
<1>2. PICK n \in 0..Cardinality(Teams) : r \in [1..n -> Scored]
  BY DEF Rankings
<1> QED
  BY <1>1, <1>2

\* The SELECT for the ranking.
LEMMA RankingKeepsInv ==
  ASSUME LeaderboardInv, QueryRanking
  PROVE  LeaderboardInv'
<1>1. PICK r \in Rankings :
        reply' = [phase |-> "scenarios", next |-> 1, entries |-> [i \in DOMAIN r |-> Entry(r[i])]]
  BY DEF QueryRanking
<1>2. PICK n \in Nat : r \in [1..n -> Scored]
  BY RankingTyped
<1> DEFINE entries == [i \in DOMAIN r |-> Entry(r[i])]
<1>3. \A i \in 1..n : entries[i] \in Entries /\ Grounded(db, entries[i])
  BY <1>2, EntryGrounded
<1>4. entries \in Seq(Entries) /\ Len(entries) = n /\ DOMAIN entries = 1..n
  BY <1>2, <1>3
<1>5. reply'.phase = "scenarios" /\ reply'.next = 1 /\ reply'.entries = entries /\ db' = db
  BY <1>1 DEF QueryRanking
<1>6. reply' \in Replies
  BY <1>1, <1>4 DEF Replies
<1> HIDE DEF entries
<1>7. Fits(reply')
  BY <1>4, <1>5, <1>6 DEF Fits
<1>8. Tells(db', reply')
  BY <1>3, <1>4, <1>5 DEF Tells
<1> QED
  BY <1>5, <1>7, <1>8 DEF LeaderboardInv

\* An entry of a reply that is being put together.
LEMMA EntryTyped ==
  ASSUME LeaderboardInv, NEW i \in DOMAIN reply.entries
  PROVE  /\ reply.entries[i] \in Entries /\ Grounded(db, reply.entries[i])
         /\ i \in 1..Len(reply.entries) /\ Len(reply.entries) \in Nat
         /\ reply.entries[i].row \in DOMAIN db
         /\ db[reply.entries[i].row] \in Submission
<1>1. reply.entries \in Seq(Entries) /\ db \in Seq(Submission)
  BY DEF LeaderboardInv, Whole, Fits, Replies
<1>2. Grounded(db, reply.entries[i])
  BY DEF LeaderboardInv, Tells
<1>3. reply.entries[i].row \in DOMAIN db
  BY <1>2 DEF Grounded
<1> QED
  BY <1>1, <1>2, <1>3, ElementOfSeq, LenProperties

\* The next entry is replaced by one that says the same and more.
LEMMA NextEntry ==
  ASSUME LeaderboardInv, reply.phase # "sent", reply.next \in DOMAIN reply.entries, NEW entry \in Entries,
         reply' = [reply EXCEPT !.next = @ + 1, !.entries[reply.next] = entry], db' = db,
         Grounded(db, entry), Filled(db, entry), reply.phase = "counts" => Counted(db, entry)
  PROVE  LeaderboardInv'
<1> DEFINE y == [reply EXCEPT !.next = @ + 1]
           entries == [reply.entries EXCEPT ![reply.next] = entry]
<1>1. reply \in Replies /\ reply.next \in 1..Len(reply.entries) + 1 /\ Len(reply.entries) \in Nat
      /\ DOMAIN reply.entries = 1..Len(reply.entries)
  BY LenProperties DEF LeaderboardInv, Fits, Replies
<1>2. reply' = [y EXCEPT !.entries = entries]
  BY <1>1 DEF Replies
<1>3. y \in Replies /\ y.phase = reply.phase /\ y.next = reply.next + 1
  BY <1>1 DEF Replies
<1>4. /\ entries \in Seq(Entries) /\ Len(entries) = Len(reply.entries)
      /\ DOMAIN entries = DOMAIN reply.entries
      /\ \A i \in DOMAIN reply.entries :
           entries[i] = IF i = reply.next THEN entry ELSE reply.entries[i]
  BY <1>1, ExceptSeq, LenProperties DEF Replies
<1> HIDE DEF y, entries
<1>5. /\ reply' \in Replies /\ reply'.phase = reply.phase
      /\ reply'.next = reply.next + 1 /\ reply'.entries = entries
  BY <1>2, <1>3, <1>4 DEF Replies
<1>6. Fits(reply')
  BY <1>1, <1>4, <1>5 DEF Fits
<1>7. Tells(db', reply')
  <2> SUFFICES ASSUME NEW i \in DOMAIN reply.entries
               PROVE  /\ Grounded(db, entries[i])
                      /\ reply.phase # "scenarios" \/ i < reply.next + 1 => Filled(db, entries[i])
                      /\ reply.phase = "counts" /\ i < reply.next + 1 => Counted(db, entries[i])
    BY <1>4, <1>5 DEF Tells
  <2>1. CASE i = reply.next
    BY <1>4, <2>1
  <2>2. CASE i # reply.next
    <3>1. entries[i] = reply.entries[i] /\ (i < reply.next + 1 => i < reply.next)
      BY <1>1, <1>4, <2>2
    <3> QED
      BY <3>1 DEF LeaderboardInv, Tells
  <2> QED
    BY <2>1, <2>2
<1> QED
  BY <1>6, <1>7 DEF LeaderboardInv

\* The SELECT for the scenarios of an entry.
LEMMA ScenariosKeepInv ==
  ASSUME LeaderboardInv, QueryScenarios
  PROVE  LeaderboardInv'
<1> DEFINE old == reply.entries[reply.next]
           new == [old EXCEPT !.scenarios = db[old.row].benches]
<1>1. /\ old \in Entries /\ Grounded(db, old) /\ db[old.row] \in Submission
  BY EntryTyped DEF QueryScenarios
<1>2. db[old.row].benches \in Benches
  BY <1>1 DEF Submission, Benches
<1>3. /\ reply' = [reply EXCEPT !.next = @ + 1, !.entries[reply.next] = new] /\ db' = db
      /\ reply.next \in DOMAIN reply.entries /\ reply.phase = "scenarios"
  BY DEF QueryScenarios
<1> HIDE DEF old
<1>4. /\ new \in Entries /\ new.row = old.row /\ new.team = old.team /\ new.ops = old.ops
      /\ new.p50 = old.p50 /\ new.scenarios = db[old.row].benches
  BY <1>1, <1>2 DEF Entries
<1> HIDE DEF new
<1>5. Grounded(db, new) /\ Filled(db, new)
  BY <1>1, <1>4 DEF Grounded, Filled
<1> QED
  BY <1>3, <1>4, <1>5, NextEntry

\* The mean and the count of an entry.
LEMMA TransformKeepsInv ==
  ASSUME LeaderboardInv, TransformEntry
  PROVE  LeaderboardInv'
<1> DEFINE old == reply.entries[reply.next]
           y == [old EXCEPT !.mean = WeightedMean(old.scenarios)]
           new == [y EXCEPT !.submissions = SubmissionCount(old.team)]
<1>1. /\ old \in Entries /\ Grounded(db, old) /\ Filled(db, old) /\ db \in Seq(Submission)
      /\ reply.next \in DOMAIN reply.entries
  BY EntryTyped DEF TransformEntry, LeaderboardInv, Tells, Whole
<1>2. SubmissionCount(old.team) = CountIn(db, old.team) /\ CountIn(db, old.team) \in Nat
  BY <1>1, Countable DEF SubmissionCount, CountIn
<1>3. CountIn(db, old.team) >= 1
  BY <1>1, Countable DEF Grounded
<1>4. reply' = [reply EXCEPT !.next = @ + 1, !.entries[reply.next] = new] /\ db' = db
      /\ reply.phase = "counts"
  BY DEF TransformEntry
<1> HIDE DEF old
<1>5. /\ y \in Entries /\ y.row = old.row /\ y.team = old.team /\ y.ops = old.ops
      /\ y.p50 = old.p50 /\ y.scenarios = old.scenarios
  BY <1>1 DEF Entries
<1> HIDE DEF y
<1>6. /\ new \in Entries /\ new.row = old.row /\ new.team = old.team /\ new.ops = old.ops
      /\ new.p50 = old.p50 /\ new.scenarios = old.scenarios
      /\ new.submissions = CountIn(db, old.team)
  BY <1>2, <1>5 DEF Entries
<1> HIDE DEF new
<1>7. Grounded(db, new) /\ Filled(db, new) /\ Counted(db, new)
  BY <1>1, <1>2, <1>3, <1>6 DEF Grounded, Filled, Counted
<1> QED
  BY <1>1, <1>4, <1>6, <1>7, NextEntry

\* The phases end.
LEMMA PhaseKeepsInv ==
  ASSUME LeaderboardInv, StartTransform \/ SendReply
  PROVE  LeaderboardInv'
<1>1. reply \in Replies /\ reply.next \in 1..Len(reply.entries) + 1 /\ Len(reply.entries) \in Nat
      /\ DOMAIN reply.entries = 1..Len(reply.entries) /\ reply.next = Len(reply.entries) + 1 /\ db' = db
  BY LenProperties DEF LeaderboardInv, Fits, Replies, StartTransform, SendReply
<1>2. CASE StartTransform
  <2> DEFINE y == [reply EXCEPT !.phase = "counts"]
  <2>1. reply' = [y EXCEPT !.next = 1] /\ reply.phase = "scenarios"
    BY <1>2 DEF StartTransform
  <2>2. y \in Replies /\ y.phase = "counts" /\ y.entries = reply.entries
    BY <1>1 DEF Replies
  <2> HIDE DEF y
  <2>3. reply' \in Replies /\ reply'.phase = "counts" /\ reply'.next = 1 /\ reply'.entries = reply.entries
    BY <2>1, <2>2 DEF Replies
  <2>4. \A i \in DOMAIN reply.entries : i < reply.next /\ ~ i < 1
    BY <1>1
  <2> QED
    BY <1>1, <2>1, <2>3, <2>4 DEF LeaderboardInv, Fits, Tells
<1>3. CASE SendReply
  <2>1. /\ reply' \in Replies /\ reply'.phase = "sent" /\ reply'.next = reply.next
        /\ reply'.entries = reply.entries /\ reply.phase = "counts"
    BY <1>1, <1>3 DEF SendReply, Replies
  <2>2. \A i \in DOMAIN reply.entries : i < reply.next
    BY <1>1
  <2> QED
    BY <1>1, <2>1, <2>2 DEF LeaderboardInv, Fits, Tells
<1> QED
  BY <1>2, <1>3

\* At the start there is nothing to tell.
LEMMA InitHasBoard == Init => LeaderboardInv
<1> SUFFICES ASSUME Init
             PROVE  LeaderboardInv
  OBVIOUS
<1>1. <<>> \in Seq(Submission) /\ <<>> \in Seq(Entries) /\ Len(<<>>) = 0 /\ DOMAIN <<>> = {}
  BY EmptySeq
<1>2. Whole(db)
  BY <1>1 DEF Init, Whole
<1>3. reply \in Replies /\ reply.next = 1 /\ reply.entries = <<>>
  BY <1>1 DEF Init, Replies
<1>4. Fits(reply) /\ Tells(db, reply)
  BY <1>1, <1>3 DEF Fits, Tells
<1> QED
  BY <1>2, <1>4 DEF LeaderboardInv

\* One case per step.
LEMMA StepKeepsBoard == LeaderboardInv /\ [Next]_vars => LeaderboardInv'
<1> SUFFICES ASSUME LeaderboardInv, [Next]_vars
             PROVE  LeaderboardInv'
  OBVIOUS
<1>1. CASE Write
  <2>1. reply' = reply /\ Whole(db') /\ Kept(db, db')
    BY <1>1, Writes DEF LeaderboardInv
  <2>2. Tells(db', reply)
    BY <2>1, RepliesStay DEF LeaderboardInv
  <2> QED
    BY <2>1, <2>2 DEF LeaderboardInv
<1>2. CASE UNCHANGED vars
  BY <1>2 DEF vars, LeaderboardInv
<1> QED
  BY <1>1, <1>2, RankingKeepsInv, ScenariosKeepInv, TransformKeepsInv, PhaseKeepsInv DEF Next

\* The inductive invariant.
LEMMA BoardHolds == Spec => []LeaderboardInv
BY InitHasBoard, StepKeepsBoard, PTL DEF Spec

-----------------------------------------------------------------------------
(* The properties.                                                         *)

\* Submissions, result tables and the reply in the making keep their types.
THEOREM LeaderboardTypes == Spec => []TypeOK
<1>1. LeaderboardInv => TypeOK
  BY DEF LeaderboardInv, Whole, Fits, Replies, TypeOK
<1> QED
  BY <1>1, BoardHolds, PTL

\* Nobody is ranked on a submission that is unfinished, failed, or did not pass
\* its tests, at any time until the next reply.
THEOREM RankedAreQualified == Spec => []OnlyQualifiedRanked
<1>1. LeaderboardInv => OnlyQualifiedRanked
  BY DEF LeaderboardInv, Tells, Grounded, OnlyQualifiedRanked
<1> QED
  BY <1>1, BoardHolds, PTL

\* A reply read in pieces, with any number of pipelines writing in between, is one
\* that could have been read at once: each entry has at least one scenario, its
\* scores are those of its scenarios, and its team's count includes it.
THEOREM RepliesAreConsistent == Spec => []ReplyIsConsistent
<1>1. ASSUME LeaderboardInv
      PROVE  ReplyIsConsistent
  <2> SUFFICES ASSUME reply.phase = "sent", NEW i \in DOMAIN reply.entries
               PROVE  LET entry == reply.entries[i]
                      IN  /\ DOMAIN entry.scenarios # {}
                          /\ entry.ops = WeightedOps(entry.scenarios)
                          /\ entry.p50 = WeightedP50(entry.scenarios)
                          /\ entry.submissions \in 1..SubmissionCount(entry.team)
    BY DEF ReplyIsConsistent
  <2> DEFINE entry == reply.entries[i]
  <2>1. Grounded(db, entry) /\ Filled(db, entry) /\ Counted(db, entry)
    BY <1>1 DEF LeaderboardInv, Tells
  <2>2. DOMAIN db[entry.row].benches # {}
    BY <2>1 DEF Grounded
  <2>3. SubmissionCount(entry.team) = CountIn(db, entry.team)
    BY DEF SubmissionCount, CountIn
  <2> HIDE DEF entry
  <2>4. /\ DOMAIN entry.scenarios # {}
        /\ entry.ops = WeightedOps(entry.scenarios)
        /\ entry.p50 = WeightedP50(entry.scenarios)
        /\ entry.submissions \in 1..SubmissionCount(entry.team)
    BY <2>1, <2>2, <2>3 DEF Grounded, Filled, Counted
  <2> QED
    BY <2>4 DEF entry
<1> QED
  BY <1>1, BoardHolds, PTL

\* From one reply to the next no team disappears or scores less, for any figures,
\* weights and interleaving of the pipelines' writes.
THEOREM GroundIsKept == Spec => TeamsNeverLoseGround
<1>1. ASSUME LeaderboardInv, [Next]_vars
      PROVE  [reply.phase = "sent" /\ reply'.phase # "sent" =>
                \A i \in DOMAIN reply.entries :
                  \E j \in DOMAIN reply'.entries :
                    /\ reply'.entries[j].team = reply.entries[i].team
                    /\ reply'.entries[j].ops >= reply.entries[i].ops]_vars
  <2> SUFFICES ASSUME reply.phase = "sent", reply'.phase # "sent", NEW i \in DOMAIN reply.entries
               PROVE  \E j \in DOMAIN reply'.entries :
                        /\ reply'.entries[j].team = reply.entries[i].team
                        /\ reply'.entries[j].ops >= reply.entries[i].ops
    OBVIOUS
  <2>1. QueryRanking
    <3>1. ~ Write
      BY <1>1, Writes DEF LeaderboardInv
    <3> QED
      BY <1>1, <3>1 DEF Next, vars, QueryScenarios, StartTransform, TransformEntry, SendReply
  <2>2. PICK r \in Rankings :
          reply' = [phase |-> "scenarios", next |-> 1, entries |-> [j \in DOMAIN r |-> Entry(r[j])]]
    BY <2>1 DEF QueryRanking
  <2>3. PICK n \in Nat : r \in [1..n -> Scored]
    BY RankingTyped
  <2> DEFINE k == reply.entries[i].row
  <2>4. /\ k \in DOMAIN db /\ db[k].status = "complete" /\ db[k].tests = "all"
        /\ db[k].team = reply.entries[i].team /\ reply.entries[i].ops = Score(k)
    BY <1>1 DEF LeaderboardInv, Tells, Grounded, Score
  <2>5. k \in Scored
    <3>1. DOMAIN db[k].benches # {}
      BY <1>1 DEF LeaderboardInv, Tells, Grounded
    <3> QED
      BY <2>4, <3>1 DEF Scored, Qualified
  <2>6. PICK j \in DOMAIN r : db[r[j]].team = db[k].team
    <3> HIDE DEF k
    <3> QED
      BY <2>5 DEF Rankings
  <2>7. BestOfTeam(r[j])
    BY DEF Rankings
  <2>8. Score(k) <= Score(r[j])
    BY <2>5, <2>6, <2>7 DEF BestOfTeam
  <2>9. Entry(r[j]).team = db[r[j]].team /\ Entry(r[j]).ops = Score(r[j])
    BY DEF Entry
  <2>10. j \in DOMAIN reply'.entries /\ reply'.entries[j] = Entry(r[j])
    BY <2>2
  <2> HIDE DEF k
  <2> QED
    BY <2>4, <2>6, <2>8, <2>9, <2>10
<1> QED
  BY <1>1, BoardHolds, PTL DEF Spec, TeamsNeverLoseGround

=============================================================================
