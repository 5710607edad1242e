---------------------------- MODULE ResultsProofs ----------------------------
(***************************************************************************)
(* What an entry's points say of the results, proved for any number of     *)
(* fixtures, entries, pollers, admins and workers, and any number of syncs.*)
(* Totals rest on the contest's advisory lock alone.  Convergence rests on *)
(* the history of what a job read: as long as no final row was changed,    *)
(* all jobs of a fixture carry the goals its row shows.                    *)
(***************************************************************************)
EXTENDS Results, DataLemmas

Callers == Pollers \cup Admins

Rows == [status : {"SCHEDULED", "LIVE", "FINISHED"}, goals : Goals \cup {NoGoals}]

Calls == {Idle}
           \cup [at : {"ask"}, f : Fixtures, seen : {"SCHEDULED", "LIVE", "FINISHED"}]
           \cup [at : {"live"}, f : Fixtures]
           \cup [at : {"check", "write"}, f : Fixtures, goals : Goals]

Jobs == {Idle}
          \cup [at : {"read", "locked"}, f : Fixtures, goals : Goals]
          \cup [at : {"summed"}, f : Fixtures, goals : Goals, sums : [Entries -> Int]]
          \cup [at : {"count", "complete"}, f : Fixtures]

SourceTyped ==
  /\ provider \in [Fixtures -> Rows] /\ row \in [Fixtures -> Rows]
  /\ \A f \in Fixtures : provider[f].status = "FINISHED" => provider[f].goals \in Goals
  /\ final \subseteq Fixtures /\ events \subseteq final /\ overwritten \subseteq Fixtures
  /\ call \in [Callers -> Calls]
  /\ DOMAIN fetched \subseteq Fixtures /\ \A f \in DOMAIN fetched : fetched[f] \in Rows

ScoreTyped ==
  /\ job \in [Workers -> Jobs]
  /\ points \in [Entries -> [Fixtures -> {NoPoints, 0, 1}]]
  /\ total \in [Entries -> Int]
  /\ status \in {"LOCKED", "SCORING", "SCORED"}

SumsWith(scores, f, goals) ==
  [e \in Entries |-> Sum([scores[e] EXCEPT ![f] = Worth(e, f, goals)])]

(* The holder of the advisory lock, the only one, has summed up the        *)
(* predictions as they still are.                                          *)
LockInv ==
  /\ \A v, w \in Workers : Holds(v) /\ Holds(w) => v = w
  /\ \A w \in Workers : job[w].at = "summed" =>
       job[w].sums = SumsWith(points, job[w].f, job[w].goals)

Unscored(f) == \A e \in Entries : points[e][f] = NoPoints
AllScoredFor(f) == \A e \in Entries : points[e][f] # NoPoints

(* A job carries the goals of a final row, unless the row was changed.     *)
JobsCarryResult ==
  \A w \in Workers : job[w].at \in {"read", "locked", "summed"} =>
    /\ job[w].f \in final
    /\ job[w].f \notin overwritten => job[w].goals = row[job[w].f].goals

(* An event is given up, and a job goes on to count, only once the match   *)
(* is scored.                                                              *)
HandledIsScored ==
  /\ \A w \in Workers : job[w].at \in {"count", "complete"} => AllScoredFor(job[w].f)
  /\ \A f \in final \ events : AllScoredFor(f)

(* Points are those of the row's goals, or not there yet.                  *)
PointsFollowRow ==
  /\ \A f \in Fixtures \ final : Unscored(f)
  /\ \A f \in final \ overwritten :
       /\ row[f].goals \in Goals
       /\ \A e \in Entries : points[e][f] \in {NoPoints, Worth(e, f, row[f].goals)}

CompleteInv ==
  status = "SCORED" \/ (\E w \in Workers : job[w].at = "complete") =>
    final = Fixtures /\ \A f \in Fixtures : AllScoredFor(f)

ScoreInv == JobsCarryResult /\ HandledIsScored /\ PointsFollowRow /\ CompleteInv

IInv == SourceTyped /\ ScoreTyped /\ LockInv /\ ScoreInv /\ TotalsAddUp

-----------------------------------------------------------------------------

LEMMA Elements ==
  /\ NoPoints \in Int /\ NoPoints # 0 /\ NoPoints # 1
  /\ \A e, f, g : Worth(e, f, g) \in {0, 1}
  /\ Idle.at = "idle" /\ Idle \in Calls /\ Idle \in Jobs
BY DEF NoPoints, Worth, Idle, Calls, Jobs

(* What the step an operation is at says of its record.                    *)
LEMMA JobKinds ==
  ASSUME ScoreTyped, NEW w \in Workers
  PROVE  /\ job[w].at \in {"read", "locked"} =>
              job[w] \in [at : {"read", "locked"}, f : Fixtures, goals : Goals]
         /\ job[w].at = "summed" =>
              job[w] \in [at : {"summed"}, f : Fixtures, goals : Goals, sums : [Entries -> Int]]
         /\ job[w].at \in {"count", "complete"} => job[w] \in [at : {"count", "complete"}, f : Fixtures]
         /\ job[w].at \in {"idle", "read", "locked", "summed", "count", "complete"}
         /\ job[w].at = "idle" <=> job[w] = Idle
<1>1. job[w] \in Jobs
  BY DEF ScoreTyped
<1> QED
  BY <1>1 DEF Jobs, Idle

LEMMA CallKinds ==
  ASSUME SourceTyped, NEW c \in Callers
  PROVE  /\ call[c].at = "ask" =>
              call[c] \in [at : {"ask"}, f : Fixtures, seen : {"SCHEDULED", "LIVE", "FINISHED"}]
         /\ call[c].at = "live" => call[c] \in [at : {"live"}, f : Fixtures]
         /\ call[c].at \in {"check", "write"} =>
              call[c] \in [at : {"check", "write"}, f : Fixtures, goals : Goals]
<1>1. call[c] \in Calls
  BY DEF SourceTyped
<1> QED
  BY <1>1 DEF Calls, Idle

LEMMA SumTyped ==
  ASSUME NEW scores \in [Fixtures -> {NoPoints, 0, 1}]
  PROVE  Sum(scores) \in Int
<1> DEFINE S == {f \in Fixtures : scores[f] # NoPoints}
<1>1. IsFiniteSet(S)
  BY ResultsAssumption, FS_Subset
<1>2. \A f \in S : scores[f] \in Int
  BY Elements
<1>3. SumFunctionOnSet(scores, S) \in Int
  BY <1>1, <1>2, SumType
<1> QED
  BY <1>3 DEF Sum

LEMMA ScoredTyped ==
  ASSUME ScoreTyped, NEW e \in Entries, NEW f \in Fixtures, NEW goals
  PROVE  /\ Scored(e, f, goals) \in [Fixtures -> {NoPoints, 0, 1}]
         /\ \A g \in Fixtures : Scored(e, f, goals)[g] = IF g = f THEN Worth(e, f, goals) ELSE points[e][g]
BY Elements DEF ScoreTyped, Scored

-----------------------------------------------------------------------------

LEMMA InitIInv == Init => IInv
<1> SUFFICES ASSUME Init PROVE IInv
  OBVIOUS
<1>1. SourceTyped
  BY Elements, ResultsAssumption DEF Init, SourceTyped, Rows, Row, Callers
<1>2. ScoreTyped
  BY Elements DEF Init, ScoreTyped
<1>3. \A w \in Workers : job[w].at = "idle"
  BY Elements DEF Init
<1>4. LockInv
  BY <1>3 DEF LockInv, Holds
<1>5. ScoreInv
  BY <1>3 DEF Init, ScoreInv, JobsCarryResult, HandledIsScored, PointsFollowRow, CompleteInv, Unscored
<1>6. TotalsAddUp
  <2> SUFFICES ASSUME NEW e \in Entries PROVE total[e] = Sum(points[e])
    BY DEF TotalsAddUp
  <2>1. {f \in Fixtures : points[e][f] # NoPoints} = {}
    BY DEF Init
  <2> QED
    BY <2>1, SumEmpty DEF Init, Sum
<1> QED
  BY <1>1, <1>2, <1>4, <1>5, <1>6 DEF IInv

(* What the poller, the admins and the sync do, as the scoring sees it.    *)
LEMMA NextSourceTyped == IInv /\ [Next]_vars => SourceTyped'
<1> SUFFICES ASSUME IInv, [Next]_vars PROVE SourceTyped'
  OBVIOUS
<1>a. SourceTyped /\ ScoreTyped
  BY DEF IInv
<1> USE DEF SourceTyped
<1>1. CASE UNCHANGED vars
  BY <1>1, <1>a DEF vars, sourceVars
<1>2. ASSUME NEW f \in Fixtures, Play(f) PROVE SourceTyped'
  <2>1. NilNil \in Goals /\ Actual[f] \in Goals
    BY ResultsAssumption
  <2>2. /\ UNCHANGED <<row, final, call, fetched, syncs, overwritten, events>>
        /\ \E new \in {Row("LIVE", NilNil), Row("FINISHED", Actual[f])} :
             provider' = [provider EXCEPT ![f] = new]
    BY <1>2 DEF Play
  <2>3. provider' \in [Fixtures -> Rows]
    BY <1>a, <2>1, <2>2 DEF Row, Rows
  <2>4. \A g \in Fixtures : provider'[g].status = "FINISHED" => provider'[g].goals \in Goals
    BY <1>a, <2>1, <2>2 DEF Row
  <2> QED
    BY <1>a, <2>2, <2>3, <2>4
<1>3. ASSUME NEW c \in Callers, UNCHANGED <<provider, row, final, fetched, overwritten, events>>,
             NEW new \in Calls, call' = [call EXCEPT ![c] = new]
      PROVE  SourceTyped'
  BY <1>3, <1>a
<1>4. ASSUME NEW p \in Pollers, NEW f \in Fixtures, PollSelect(p, f) PROVE SourceTyped'
  <2> DEFINE new == [at |-> "ask", f |-> f, seen |-> row[f].status]
  <2>1. new \in Calls
    BY <1>a DEF Calls, Rows
  <2>2. p \in Callers /\ call' = [call EXCEPT ![p] = new]
        /\ UNCHANGED <<provider, row, final, fetched, overwritten, events>>
    BY <1>4 DEF PollSelect, Callers
  <2> HIDE DEF new
  <2> QED
    BY <1>3, <2>1, <2>2
<1>5. ASSUME NEW p \in Pollers, PollAsk(p) PROVE SourceTyped'
  <2> DEFINE f == call[p].f
             remote == provider[f]
             new == CASE remote.status = "FINISHED" /\ f \in Told ->
                           [at |-> "check", f |-> f, goals |-> remote.goals]
                      [] remote.status = "LIVE" /\ call[p].seen # "LIVE" -> [at |-> "live", f |-> f]
                      [] OTHER -> Idle
  <2>1. p \in Callers
    BY DEF Callers
  <2>2. f \in Fixtures
    BY <1>5, <1>a, <2>1, CallKinds DEF PollAsk
  <2>3. remote.status = "FINISHED" => [at |-> "check", f |-> f, goals |-> remote.goals] \in Calls
    BY <1>a, <2>2 DEF Calls
  <2>4. [at |-> "live", f |-> f] \in Calls
    BY <2>2 DEF Calls
  <2>5. new \in Calls
    BY <2>3, <2>4, Elements
  <2>6. call' = [call EXCEPT ![p] = new] /\ UNCHANGED <<provider, row, final, fetched, overwritten, events>>
    BY <1>5, <1>a, <2>1 DEF PollAsk
  <2> HIDE DEF new
  <2> QED
    BY <1>3, <2>1, <2>5, <2>6
<1>6. ASSUME NEW a \in Admins, NEW f \in Fixtures, NEW g \in Goals, AdminFinalize(a, f, g)
      PROVE  SourceTyped'
  <2>1. [at |-> "check", f |-> f, goals |-> g] \in Calls
    BY DEF Calls
  <2> QED
    BY <1>3, <1>6, <2>1 DEF AdminFinalize, Callers
<1>7. ASSUME NEW c \in Callers, FinalizeCheck(c) \/ CallFails(c) PROVE SourceTyped'
  <2>1. CASE call' = [call EXCEPT ![c] = Idle]
    BY <1>3, <1>7, <2>1, Elements DEF FinalizeCheck, CallFails
  <2>2. CASE FinalizeCheck(c) /\ call' = [call EXCEPT ![c].at = "write"]
    <3>1. [call[c] EXCEPT !.at = "write"] \in Calls
      BY <1>a, <2>2, CallKinds DEF FinalizeCheck, Calls
    <3>2. call' = [call EXCEPT ![c] = [call[c] EXCEPT !.at = "write"]]
      BY <2>2
    <3> QED
      BY <1>3, <2>2, <3>1, <3>2 DEF FinalizeCheck
  <2> QED
    BY <1>7, <2>1, <2>2 DEF FinalizeCheck, CallFails, Ends
<1>8. ASSUME NEW c \in Callers, FinalizeWrite(c) PROVE SourceTyped'
  <2>1. call[c].f \in Fixtures /\ call[c].goals \in Goals
    BY <1>8, <1>a, CallKinds DEF FinalizeWrite
  <2>2. Row("FINISHED", call[c].goals) \in Rows
    BY <2>1 DEF Row, Rows
  <2> QED
    BY <1>8, <1>a, <2>1, <2>2, Elements DEF FinalizeWrite, Write, Ends
<1>9. ASSUME NEW p \in Pollers, PollLive(p) PROVE SourceTyped'
  <2>1. p \in Callers
    BY DEF Callers
  <2>2. call[p].f \in Fixtures
    BY <1>9, <1>a, <2>1, CallKinds DEF PollLive
  <2>3. Row("LIVE", row[call[p].f].goals) \in Rows
    BY <1>a, <2>2 DEF Row, Rows
  <2> QED
    BY <1>9, <1>a, <2>1, <2>2, <2>3, Elements DEF PollLive, Write, Ends
<1>10. ASSUME NEW f \in Fixtures, SyncWrite(f) PROVE SourceTyped'
  BY <1>10, <1>a DEF SyncWrite, Write, Restrict
<1>11. CASE SyncFetch \/ SyncFails
  BY <1>11, <1>a DEF SyncFetch, SyncFails
<1>12. ASSUME UNCHANGED sourceVars, events' \subseteq events PROVE SourceTyped'
  BY <1>12, <1>a DEF sourceVars
<1>13. ASSUME NEW w \in Workers,
              \/ \E f \in Fixtures : JobRead(w, f)
              \/ ScoreLock(w) \/ Recompute(w) \/ ScoreCommit(w)
              \/ CountPending(w) \/ MarkScored(w) \/ JobFails(w)
       PROVE  SourceTyped'
  <2>1. UNCHANGED sourceVars
    BY <1>13 DEF JobRead, ScoreLock, Recompute, ScoreCommit, CountPending, MarkScored, JobFails
  <2>2. events' \subseteq events
    BY <1>13 DEF JobRead, ScoreLock, Recompute, ScoreCommit, CountPending, MarkScored, JobFails,
       Acknowledge
  <2> QED
    BY <1>12, <2>1, <2>2
<1> QED
  BY <1>1, <1>2, <1>4, <1>5, <1>6, <1>7, <1>8, <1>9, <1>10, <1>11, <1>13 DEF Next, Callers

(* The scoring jobs.                                                       *)
LEMMA NextScoreTyped == IInv /\ [Next]_vars => ScoreTyped' /\ LockInv' /\ TotalsAddUp'
<1> SUFFICES ASSUME IInv, [Next]_vars PROVE ScoreTyped' /\ LockInv' /\ TotalsAddUp'
  OBVIOUS
<1>a. SourceTyped /\ ScoreTyped /\ LockInv /\ TotalsAddUp
  BY DEF IInv
<1>1. CASE UNCHANGED scoreVars
  <2>1. UNCHANGED <<job, points, total, status>>
    BY <1>1 DEF scoreVars
  <2>2. ScoreTyped' /\ TotalsAddUp'
    BY <1>a, <2>1 DEF ScoreTyped, TotalsAddUp
  <2>3. LockInv'
    BY <1>a, <2>1 DEF LockInv, Holds
  <2> QED
    BY <2>2, <2>3
(* A job that neither takes the lock nor sums up.                          *)
<1>2. ASSUME NEW w \in Workers, NEW new \in Jobs, job' = [job EXCEPT ![w] = new],
             new.at \notin {"locked", "summed"}, UNCHANGED <<points, total>>,
             status' \in {"LOCKED", "SCORING", "SCORED"}
      PROVE  ScoreTyped' /\ LockInv' /\ TotalsAddUp'
  <2>1. ScoreTyped' /\ TotalsAddUp'
    BY <1>a, <1>2 DEF ScoreTyped, TotalsAddUp
  <2>2. /\ job'[w].at \notin {"locked", "summed"}
        /\ \A v \in Workers \ {w} : job'[v] = job[v]
    BY <1>a, <1>2 DEF ScoreTyped
  <2>3. LockInv'
    BY <1>a, <1>2, <2>2 DEF LockInv, Holds
  <2> QED
    BY <2>1, <2>3
<1>3. ASSUME NEW w \in Workers, NEW f \in Fixtures, JobRead(w, f)
      PROVE  ScoreTyped' /\ LockInv' /\ TotalsAddUp'
  <2> DEFINE new == [at |-> "read", f |-> f,
                     goals |-> IF row[f].goals = NoGoals THEN NilNil ELSE row[f].goals]
  <2>1. new \in Jobs
    BY <1>a, ResultsAssumption DEF SourceTyped, Rows, Jobs
  <2>2. UNCHANGED scoreVars \/ (job' = [job EXCEPT ![w] = new] /\ UNCHANGED <<points, total, status>>)
    BY <1>3 DEF JobRead, scoreVars
  <2>3. new.at = "read"
    OBVIOUS
  <2>4. status \in {"LOCKED", "SCORING", "SCORED"}
    BY <1>a DEF ScoreTyped
  <2> HIDE DEF new
  <2> QED
    BY <1>1, <1>2, <2>1, <2>2, <2>3, <2>4
<1>4. ASSUME NEW w \in Workers, ScoreLock(w) PROVE ScoreTyped' /\ LockInv' /\ TotalsAddUp'
  <2> DEFINE new == [job[w] EXCEPT !.at = "locked"]
  <2>1. new \in Jobs /\ new.at = "locked"
    BY <1>4, <1>a, JobKinds DEF ScoreLock, Jobs
  <2>2. job' = [job EXCEPT ![w] = new] /\ UNCHANGED <<points, total, status>>
        /\ \A v \in Workers : ~Holds(v)
    BY <1>4 DEF ScoreLock
  <2> HIDE DEF new
  <2>3. ScoreTyped' /\ TotalsAddUp'
    BY <1>a, <2>1, <2>2 DEF ScoreTyped, TotalsAddUp
  <2>4. job'[w].at = "locked" /\ \A v \in Workers \ {w} : job'[v] = job[v]
    BY <1>a, <2>1, <2>2 DEF ScoreTyped
  <2>5. LockInv'
    BY <1>a, <2>2, <2>4 DEF LockInv, Holds
  <2> QED
    BY <2>3, <2>5
<1>5. ASSUME NEW w \in Workers, Recompute(w) PROVE ScoreTyped' /\ LockInv' /\ TotalsAddUp'
  <2> DEFINE f == job[w].f
             goals == job[w].goals
             sums == [e \in Entries |-> Sum(Scored(e, f, goals))]
             new == [at |-> "summed", f |-> f, goals |-> goals, sums |-> sums]
  <2>1. f \in Fixtures /\ goals \in Goals /\ job[w].at = "locked"
    BY <1>5, <1>a, JobKinds DEF Recompute
  <2>2. sums \in [Entries -> Int]
    BY <1>a, <2>1, ScoredTyped, SumTyped
  <2>3. job' = [job EXCEPT ![w] = new] /\ UNCHANGED <<points, total, status>>
    BY <1>5, <1>a DEF Recompute, ScoreTyped
  <2>4. new.f = f /\ new.goals = goals /\ new.sums = sums /\ new.at = "summed"
    OBVIOUS
  <2>5. new \in Jobs
    <3> HIDE DEF sums, f, goals
    <3> QED
      BY <2>1, <2>2 DEF Jobs
  <2>6. sums = SumsWith(points, f, goals)
    BY DEF SumsWith, Scored
  <2> HIDE DEF new
  <2>7. ScoreTyped' /\ TotalsAddUp'
    BY <1>a, <2>3, <2>5 DEF ScoreTyped, TotalsAddUp
  <2>8. job'[w] = new /\ \A v \in Workers \ {w} : job'[v] = job[v]
    BY <1>a, <2>3 DEF ScoreTyped
  <2>9. \A v \in Workers \ {w} : ~Holds(v)'
    BY <1>a, <2>1, <2>8 DEF LockInv, Holds
  <2>10. job'[w].sums = SumsWith(points', job'[w].f, job'[w].goals)
    BY <2>3, <2>4, <2>6, <2>8
  <2>11. LockInv'
    BY <2>9, <2>10 DEF LockInv, Holds
  <2> QED
    BY <2>7, <2>11
<1>6. ASSUME NEW w \in Workers, ScoreCommit(w) PROVE ScoreTyped' /\ LockInv' /\ TotalsAddUp'
  <2> DEFINE f == job[w].f
             goals == job[w].goals
             new == [at |-> "count", f |-> f]
  <2>1. f \in Fixtures /\ goals \in Goals /\ job[w].at = "summed" /\ job[w].sums \in [Entries -> Int]
    BY <1>6, <1>a, JobKinds DEF ScoreCommit
  <2>2. /\ points' = [e \in Entries |-> Scored(e, f, goals)]
        /\ total' = job[w].sums
        /\ status' \in {"LOCKED", "SCORING", "SCORED"}
        /\ job' = [job EXCEPT ![w] = new]
    BY <1>6, <1>a DEF ScoreCommit, ScoreTyped
  <2>3. new \in Jobs /\ new.at = "count"
    BY <2>1 DEF Jobs
  <2> HIDE DEF new
  <2>4. ScoreTyped'
    BY <1>a, <2>1, <2>2, <2>3, ScoredTyped DEF ScoreTyped
  <2>5. \A e \in Entries : total'[e] = Sum(Scored(e, f, goals)) /\ points'[e] = Scored(e, f, goals)
    BY <1>a, <2>1, <2>2 DEF LockInv, SumsWith, Scored
  <2>6. TotalsAddUp'
    BY <2>5 DEF TotalsAddUp
  <2>7. \A v \in Workers : ~Holds(v)'
    <3>1. job'[w] = new /\ \A v \in Workers \ {w} : job'[v] = job[v]
      BY <1>a, <2>2 DEF ScoreTyped
    <3> QED
      BY <1>a, <2>1, <2>3, <3>1 DEF LockInv, Holds
  <2>8. LockInv'
    BY <2>7 DEF LockInv, Holds
  <2> QED
    BY <2>4, <2>6, <2>8
<1>7. ASSUME NEW w \in Workers, CountPending(w) \/ MarkScored(w) \/ JobFails(w)
      PROVE  ScoreTyped' /\ LockInv' /\ TotalsAddUp'
  <2>1. /\ UNCHANGED <<points, total>> /\ status' \in {"LOCKED", "SCORING", "SCORED"}
        /\ \/ job' = [job EXCEPT ![w] = Idle]
           \/ job[w].at = "count" /\ job' = [job EXCEPT ![w] = [job[w] EXCEPT !.at = "complete"]]
    BY <1>7, <1>a DEF CountPending, MarkScored, JobFails, Acknowledge, ScoreTyped
  <2>2. job[w].at = "count" =>
          [job[w] EXCEPT !.at = "complete"] \in Jobs /\ [job[w] EXCEPT !.at = "complete"].at = "complete"
    BY <1>a, JobKinds DEF Jobs
  <2> QED
    BY <1>2, <2>1, <2>2, Elements
<1>8. UNCHANGED scoreVars
      \/ \E w \in Workers :
           \/ \E f \in Fixtures : JobRead(w, f)
           \/ ScoreLock(w) \/ Recompute(w) \/ ScoreCommit(w) \/ CountPending(w) \/ MarkScored(w)
           \/ JobFails(w)
  BY DEF Next, vars, Play, PollSelect, PollAsk, PollLive, AdminFinalize, FinalizeCheck, FinalizeWrite,
     CallFails, SyncFetch, SyncFails, SyncWrite
<1> QED
  BY <1>1, <1>3, <1>4, <1>5, <1>6, <1>7, <1>8

-----------------------------------------------------------------------------
(* Results and points.                                                     *)

(* What a write of a row must respect: a final row changes its goals only  *)
(* on the record.                                                          *)
LEMMA RowsScoreInv ==
  ASSUME IInv, UNCHANGED <<final, events, scoreVars>>,
         overwritten \subseteq overwritten',
         \A f \in final \ overwritten' : row'[f].goals = row[f].goals
  PROVE  ScoreInv'
<1>a. JobsCarryResult /\ HandledIsScored /\ PointsFollowRow /\ CompleteInv
  BY DEF IInv, ScoreInv
<1>1. UNCHANGED <<job, points, total, status>>
  BY DEF scoreVars
<1>2. JobsCarryResult'
  BY <1>a, <1>1 DEF JobsCarryResult
<1>3. HandledIsScored' /\ CompleteInv'
  BY <1>a, <1>1 DEF HandledIsScored, CompleteInv, AllScoredFor
<1>4. PointsFollowRow'
  BY <1>a, <1>1 DEF PointsFollowRow, Unscored
<1> QED
  BY <1>2, <1>3, <1>4 DEF ScoreInv

LEMMA WriteScoreInv ==
  ASSUME IInv, UNCHANGED <<final, events, scoreVars>>, NEW f \in Fixtures, NEW new, Write(f, new)
  PROVE  ScoreInv'
<1>1. overwritten \subseteq overwritten'
  BY DEF Write
<1>2. \A g \in final \ overwritten' : row'[g].goals = row[g].goals
  BY DEF Write, IInv, SourceTyped
<1> QED
  BY <1>1, <1>2, RowsScoreInv

(* The first finalization finds nothing scored; a later one changes the    *)
(* goals on the record or not at all.                                      *)
LEMMA FinalizeScoreInv ==
  ASSUME IInv, NEW c \in Callers, FinalizeWrite(c)
  PROVE  ScoreInv'
<1> DEFINE f == call[c].f
           goals == call[c].goals
<1>a. SourceTyped /\ ScoreTyped /\ JobsCarryResult /\ HandledIsScored /\ PointsFollowRow /\ CompleteInv
  BY DEF IInv, ScoreInv
<1>1. f \in Fixtures /\ goals \in Goals
  BY <1>a, CallKinds DEF FinalizeWrite
<1>2. /\ row' = [row EXCEPT ![f] = Row("FINISHED", goals)]
      /\ overwritten' = IF f \in final /\ goals # row[f].goals THEN overwritten \cup {f} ELSE overwritten
      /\ final' = final \cup {f} /\ events' = events \cup {f}
      /\ UNCHANGED <<job, points, total, status>>
  BY DEF FinalizeWrite, Write, Row, scoreVars
<1>3. row'[f].goals = goals /\ \A g \in Fixtures \ {f} : row'[g] = row[g]
  BY <1>1, <1>2, <1>a DEF SourceTyped, Row
<1> HIDE DEF f, goals
<1>4. JobsCarryResult'
  BY <1>2, <1>3, <1>a DEF JobsCarryResult, SourceTyped
<1>5. HandledIsScored' /\ CompleteInv'
  BY <1>1, <1>2, <1>a DEF HandledIsScored, CompleteInv, AllScoredFor
<1>6. PointsFollowRow'
  <2>1. \A g \in Fixtures \ final' : Unscored(g)'
    BY <1>2, <1>a DEF PointsFollowRow, Unscored
  <2>2. ASSUME NEW g \in final' \ overwritten'
        PROVE  /\ row'[g].goals \in Goals
               /\ \A e \in Entries : points'[e][g] \in {NoPoints, Worth(e, g, row'[g].goals)}
    <3>1. CASE g # f
      BY <1>2, <1>3, <1>a, <2>2, <3>1 DEF PointsFollowRow, SourceTyped
    <3>2. CASE g = f /\ f \in final
      BY <1>1, <1>2, <1>3, <1>a, <2>2, <3>2 DEF PointsFollowRow
    <3>3. CASE g = f /\ f \notin final
      BY <1>1, <1>2, <1>3, <1>a, <2>2, <3>3 DEF PointsFollowRow, Unscored
    <3> QED
      BY <3>1, <3>2, <3>3
  <2> QED
    BY <2>1, <2>2 DEF PointsFollowRow
<1> QED
  BY <1>4, <1>5, <1>6 DEF ScoreInv

(* A job's step that leaves points, status and rows alone.                 *)
LEMMA JobScoreInv ==
  ASSUME IInv, UNCHANGED <<row, final, overwritten, points, status>>, NEW w \in Workers, NEW new \in Jobs,
         job' = [job EXCEPT ![w] = new], events' \subseteq events,
         \A f \in events \ events' : AllScoredFor(f),
         new.at \in {"read", "locked", "summed"} =>
           new.f \in final /\ (new.f \notin overwritten => new.goals = row[new.f].goals),
         new.at \in {"count", "complete"} => AllScoredFor(new.f),
         new.at = "complete" => final = Fixtures /\ \A f \in Fixtures : AllScoredFor(f)
  PROVE  ScoreInv'
<1>a. ScoreTyped /\ JobsCarryResult /\ HandledIsScored /\ PointsFollowRow /\ CompleteInv
  BY DEF IInv, ScoreInv
<1>1. job'[w] = new /\ \A v \in Workers \ {w} : job'[v] = job[v]
  BY <1>a DEF ScoreTyped
<1>2. \A f : AllScoredFor(f)' <=> AllScoredFor(f)
  BY DEF AllScoredFor
<1>3. JobsCarryResult'
  BY <1>1, <1>a DEF JobsCarryResult
<1>4. HandledIsScored'
  <2>1. \A v \in Workers : job'[v].at \in {"count", "complete"} => AllScoredFor(job'[v].f)
    BY <1>1, <1>a DEF HandledIsScored
  <2>2. \A f \in final \ events' : AllScoredFor(f)
    BY <1>a DEF HandledIsScored
  <2> QED
    BY <2>1, <2>2 DEF HandledIsScored, AllScoredFor
<1>5. PointsFollowRow'
  BY <1>a DEF PointsFollowRow, Unscored
<1>6. CompleteInv'
  BY <1>1, <1>2, <1>a DEF CompleteInv
<1> QED
  BY <1>3, <1>4, <1>5, <1>6 DEF ScoreInv

LEMMA CommitScoreInv ==
  ASSUME IInv, NEW w \in Workers, ScoreCommit(w)
  PROVE  ScoreInv'
<1> DEFINE f == job[w].f
           goals == job[w].goals
<1>a. /\ SourceTyped /\ ScoreTyped
      /\ JobsCarryResult /\ HandledIsScored /\ PointsFollowRow /\ CompleteInv
  BY DEF IInv, ScoreInv
<1>1. /\ f \in Fixtures /\ f \in final
      /\ f \notin overwritten => goals = row[f].goals
  BY <1>a, JobKinds DEF ScoreCommit, JobsCarryResult
<1>2. /\ points' = [e \in Entries |-> Scored(e, f, goals)]
      /\ job' = [job EXCEPT ![w] = [at |-> "count", f |-> f]]
      /\ status' = "SCORED" <=> status = "SCORED"
      /\ UNCHANGED <<row, final, overwritten, events>>
  BY <1>a DEF ScoreCommit, sourceVars, ScoreTyped
<1>3. \A e \in Entries, g \in Fixtures :
        points'[e][g] = IF g = f THEN Worth(e, f, goals) ELSE points[e][g]
  BY <1>1, <1>2, <1>a, ScoredTyped
<1>4. /\ job'[w].at = "count" /\ job'[w].f = f
      /\ \A v \in Workers \ {w} : job'[v] = job[v]
  BY <1>2, <1>a DEF ScoreTyped
<1> HIDE DEF f, goals
<1>5. /\ \A e \in Entries : points'[e][f] # NoPoints
      /\ \A g \in Fixtures : AllScoredFor(g) => \A e \in Entries : points'[e][g] # NoPoints
  BY <1>1, <1>3, Elements DEF AllScoredFor
<1>6. JobsCarryResult'
  BY <1>2, <1>4, <1>a DEF JobsCarryResult
<1>7. HandledIsScored'
  <2>1. \A v \in Workers \ {w} : job[v].at \in {"count", "complete"} => job[v].f \in Fixtures
    BY <1>a, JobKinds
  <2>2. \A v \in Workers : job'[v].at \in {"count", "complete"} =>
          \A e \in Entries : points'[e][job'[v].f] # NoPoints
    BY <1>4, <1>5, <1>a, <2>1 DEF HandledIsScored, AllScoredFor
  <2>3. \A g \in final' \ events' : \A e \in Entries : points'[e][g] # NoPoints
    BY <1>2, <1>5, <1>a DEF HandledIsScored, SourceTyped
  <2> QED
    BY <2>2, <2>3 DEF HandledIsScored, AllScoredFor
<1>8. PointsFollowRow'
  <2>1. \A g \in Fixtures \ final' : Unscored(g)'
    BY <1>1, <1>2, <1>3, <1>a DEF PointsFollowRow, Unscored
  <2>2. ASSUME NEW g \in final' \ overwritten'
        PROVE  /\ row'[g].goals \in Goals
               /\ \A e \in Entries : points'[e][g] \in {NoPoints, Worth(e, g, row'[g].goals)}
    BY <1>1, <1>2, <1>3, <1>a, <2>2 DEF PointsFollowRow, SourceTyped
  <2> QED
    BY <2>1, <2>2 DEF PointsFollowRow
<1>9. CompleteInv'
  <2>1. \A g \in Fixtures : AllScoredFor(g) => AllScoredFor(g)'
    BY <1>5 DEF AllScoredFor
  <2> QED
    BY <1>2, <1>4, <2>1, <1>a DEF CompleteInv
<1> QED
  BY <1>6, <1>7, <1>8, <1>9 DEF ScoreInv

LEMMA NextScoreInv == IInv /\ [Next]_vars => ScoreInv'
<1> SUFFICES ASSUME IInv, [Next]_vars PROVE ScoreInv'
  OBVIOUS
<1>a. /\ SourceTyped /\ ScoreTyped
      /\ JobsCarryResult /\ HandledIsScored /\ PointsFollowRow /\ CompleteInv
  BY DEF IInv, ScoreInv
<1>1. CASE UNCHANGED <<row, final, overwritten, events, scoreVars>>
  BY <1>1, RowsScoreInv
<1>2. ASSUME NEW p \in Pollers, PollLive(p) PROVE ScoreInv'
  <2>1. call[p].f \in Fixtures
    BY <1>2, <1>a, CallKinds DEF PollLive, Callers
  <2> QED
    BY <1>2, <2>1, WriteScoreInv DEF PollLive
<1>3. ASSUME NEW f \in Fixtures, SyncWrite(f) PROVE ScoreInv'
  BY <1>3, WriteScoreInv DEF SyncWrite
<1>4. ASSUME NEW w \in Workers, NEW f \in Fixtures, JobRead(w, f) PROVE ScoreInv'
  <2> DEFINE new == [at |-> "read", f |-> f,
                     goals |-> IF row[f].goals = NoGoals THEN NilNil ELSE row[f].goals]
  <2>1. UNCHANGED <<row, final, overwritten, points, status>> /\ f \in final
    BY <1>4, <1>a DEF JobRead, sourceVars, SourceTyped
  <2>2. CASE job' = [job EXCEPT ![w] = new] /\ UNCHANGED events
    <3>1. new \in Jobs
      BY <1>a, ResultsAssumption DEF SourceTyped, Rows, Jobs
    <3>2. f \notin overwritten => new.goals = row[f].goals
      BY <1>a, <2>1, ResultsAssumption DEF PointsFollowRow
    <3>3. new.at = "read" /\ new.f = f
      OBVIOUS
    <3> HIDE DEF new
    <3> QED
      BY <2>1, <2>2, <3>1, <3>2, <3>3, JobScoreInv
  <2>3. CASE UNCHANGED job /\ events' = events \ {f} /\ status \notin {"LOCKED", "SCORING"}
    <3>1. AllScoredFor(f)
      BY <1>a, <2>3 DEF CompleteInv, ScoreTyped
    <3>2. JobsCarryResult' /\ PointsFollowRow' /\ CompleteInv'
      BY <1>a, <2>1, <2>3 DEF JobsCarryResult, PointsFollowRow, CompleteInv, Unscored, AllScoredFor
    <3>3. HandledIsScored'
      BY <1>a, <2>1, <2>3, <3>1 DEF HandledIsScored, AllScoredFor
    <3> QED
      BY <3>2, <3>3 DEF ScoreInv
  <2> QED
    BY <1>4, <2>2, <2>3 DEF JobRead
<1>5. ASSUME NEW w \in Workers, ScoreLock(w) \/ Recompute(w) PROVE ScoreInv'
  <2>1. /\ UNCHANGED <<row, final, overwritten, points, status, events>>
        /\ job[w].at \in {"read", "locked"}
    BY <1>5 DEF ScoreLock, Recompute, sourceVars
  <2>2. job[w].f \in final /\ (job[w].f \notin overwritten => job[w].goals = row[job[w].f].goals)
    BY <1>a, <2>1 DEF JobsCarryResult
  <2>3. PICK new \in Jobs : /\ job' = [job EXCEPT ![w] = new]
                            /\ new.at \in {"locked", "summed"}
                            /\ new.f = job[w].f /\ new.goals = job[w].goals
    <3>1. CASE ScoreLock(w)
      <4>1. [job[w] EXCEPT !.at = "locked"] \in Jobs
        BY <3>1, <1>a, JobKinds DEF ScoreLock, Jobs
      <4> QED
        BY <3>1, <4>1, <1>a, JobKinds DEF ScoreLock
    <3>2. CASE Recompute(w)
      <4>1. job'[w] \in Jobs
        BY <1>a, NextScoreTyped DEF ScoreTyped
      <4>2. job' = [job EXCEPT ![w] = job'[w]] /\ job'[w].at = "summed"
            /\ job'[w].f = job[w].f /\ job'[w].goals = job[w].goals
        BY <3>2, <1>a DEF Recompute, ScoreTyped
      <4> QED
        BY <4>1, <4>2
    <3> QED
      BY <1>5, <3>1, <3>2
  <2> QED
    BY <2>1, <2>2, <2>3, JobScoreInv
<1>6. ASSUME NEW w \in Workers, CountPending(w) PROVE ScoreInv'
  <2>1. /\ UNCHANGED <<row, final, overwritten, points, status>>
        /\ job[w].at = "count" /\ job[w].f \in Fixtures /\ AllScoredFor(job[w].f)
    BY <1>6, <1>a, JobKinds DEF CountPending, sourceVars, HandledIsScored
  <2>2. CASE Acknowledge(w)
    BY <2>1, <2>2, Elements, JobScoreInv DEF Acknowledge
  <2>3. CASE /\ job' = [job EXCEPT ![w] = [job[w] EXCEPT !.at = "complete"]] /\ UNCHANGED events
             /\ final = Fixtures /\ \A e \in Entries, f \in Fixtures : points[e][f] # NoPoints
    <3> DEFINE new == [job[w] EXCEPT !.at = "complete"]
    <3>1. new \in Jobs /\ new.at = "complete" /\ new.f = job[w].f
      BY <1>a, <2>1, JobKinds DEF Jobs
    <3>2. \A f \in Fixtures : AllScoredFor(f)
      BY <2>3 DEF AllScoredFor
    <3> HIDE DEF new
    <3> QED
      BY <2>1, <2>3, <3>1, <3>2, JobScoreInv DEF new
  <2> QED
    BY <1>6, <2>2, <2>3 DEF CountPending
<1>7. ASSUME NEW w \in Workers, MarkScored(w) PROVE ScoreInv'
  <2>1. /\ UNCHANGED <<row, final, overwritten, points>>
        /\ job' = [job EXCEPT ![w] = Idle] /\ events' \in {events, events \ {job[w].f}}
        /\ final = Fixtures /\ \A f \in Fixtures : AllScoredFor(f)
    BY <1>7, <1>a DEF MarkScored, Acknowledge, sourceVars, CompleteInv
  <2>2. job'[w].at = "idle" /\ \A v \in Workers \ {w} : job'[v] = job[v]
    BY <1>a, <2>1, Elements DEF ScoreTyped
  <2>3. JobsCarryResult' /\ PointsFollowRow'
    BY <1>a, <2>1, <2>2 DEF JobsCarryResult, PointsFollowRow, Unscored
  <2>4. HandledIsScored' /\ CompleteInv'
    BY <1>a, <2>1, <2>2 DEF HandledIsScored, CompleteInv, AllScoredFor, SourceTyped
  <2> QED
    BY <2>3, <2>4 DEF ScoreInv
<1>8. ASSUME NEW w \in Workers, JobFails(w) PROVE ScoreInv'
  BY <1>8, Elements, JobScoreInv DEF JobFails, sourceVars
<1>9. ASSUME NEW w \in Workers, ScoreCommit(w) PROVE ScoreInv'
  BY <1>9, CommitScoreInv
<1>10. ASSUME NEW c \in Callers, FinalizeWrite(c) PROVE ScoreInv'
  BY <1>10, FinalizeScoreInv
<1>11. \/ UNCHANGED <<row, final, overwritten, events, scoreVars>>
       \/ \E c \in Callers : FinalizeWrite(c)
       \/ \E p \in Pollers : PollLive(p)
       \/ \E f \in Fixtures : SyncWrite(f)
       \/ \E w \in Workers : \/ \E f \in Fixtures : JobRead(w, f)
                             \/ ScoreLock(w) \/ Recompute(w) \/ ScoreCommit(w)
                             \/ CountPending(w) \/ MarkScored(w) \/ JobFails(w)
  BY DEF Next, Callers, vars, sourceVars, Play, PollSelect, PollAsk, AdminFinalize, FinalizeCheck,
     CallFails, SyncFetch, SyncFails
<1> QED
  BY <1>1, <1>2, <1>3, <1>4, <1>5, <1>6, <1>7, <1>8, <1>9, <1>10, <1>11

LEMMA NextIInv == IInv /\ [Next]_vars => IInv'
BY NextSourceTyped, NextScoreTyped, NextScoreInv DEF IInv

LEMMA Invariance == Spec => []IInv
BY InitIInv, NextIInv, PTL DEF Spec

(* An entry's total is the sum of its scored predictions, however many     *)
(* matches are scored at once or again: the recompute under the advisory   *)
(* lock (ScoringService.scoreMatchForContest) never works from stale rows. *)
THEOREM TotalsAreSums == Spec => []TotalsAddUp
<1>1. IInv => TotalsAddUp
  BY DEF IInv
<1> QED
  BY <1>1, Invariance, PTL

(* Replaying MatchResultFinalized converges: with a fixture's events       *)
(* handled, its points are those of the result the row shows, unless the   *)
(* final row was changed.                                                  *)
THEOREM ReplayConverges == Spec => []Converged
<1>1. IInv => Converged
  <2> SUFFICES ASSUME IInv, NEW f \in final \ overwritten, f \notin events, NEW e \in Entries
               PROVE  points[e][f] = Worth(e, f, row[f].goals)
    BY DEF Converged
  <2> QED
    BY DEF IInv, ScoreInv, HandledIsScored, PointsFollowRow, AllScoredFor
<1> QED
  BY <1>1, Invariance, PTL

(* No job, late or delivered again, changes points or totals of a contest  *)
(* that is SCORED, unless a final row was changed.                         *)
THEOREM ScoredNeverRescored == Spec => ScoredIsStable
<1> DEFINE Step == status = "SCORED" /\ overwritten = {} => UNCHANGED <<points, total>>
<1>1. IInv /\ [Next]_vars => [Step]_vars
  <2> SUFFICES ASSUME IInv, Next, status = "SCORED", overwritten = {} PROVE UNCHANGED <<points, total>>
    OBVIOUS
  <2>a. /\ SourceTyped /\ ScoreTyped /\ LockInv /\ TotalsAddUp /\ TotalsAddUp' /\ ScoreTyped'
        /\ JobsCarryResult /\ PointsFollowRow /\ CompleteInv
    BY NextScoreTyped DEF IInv, ScoreInv
  <2>1. ASSUME NEW w \in Workers, ScoreCommit(w) PROVE UNCHANGED <<points, total>>
    <3> DEFINE f == job[w].f
               goals == job[w].goals
    <3>1. f \in Fixtures /\ goals = row[f].goals /\ f \in final
      BY <2>1, <2>a, JobKinds DEF ScoreCommit, JobsCarryResult
    <3>2. \A e \in Entries : points[e][f] = Worth(e, f, goals)
      BY <2>a, <3>1 DEF CompleteInv, PointsFollowRow, AllScoredFor
    <3>3. \A e \in Entries : Scored(e, f, goals) = points[e]
      BY <2>a, <3>1, <3>2 DEF Scored, ScoreTyped
    <3>4. points' = points
      BY <2>1, <2>a, <3>3 DEF ScoreCommit, ScoreTyped
    <3>5. \A e \in Entries : total'[e] = total[e]
      BY <2>a, <3>4 DEF TotalsAddUp
    <3> QED
      BY <2>a, <3>4, <3>5 DEF ScoreTyped
  <2>2. (\E w \in Workers : ScoreCommit(w)) \/ UNCHANGED <<points, total>>
    BY DEF Next, vars, scoreVars, Play, PollSelect, PollAsk, PollLive, AdminFinalize, FinalizeCheck,
       FinalizeWrite, CallFails, SyncFetch, SyncFails, SyncWrite, JobRead, ScoreLock, Recompute,
       CountPending, MarkScored, JobFails
  <2> QED
    BY <2>1, <2>2
<1> QED
  BY <1>1, Invariance, PTL DEF Spec, ScoredIsStable
=============================================================================
