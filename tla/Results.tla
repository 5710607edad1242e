------------------------------ MODULE Results ------------------------------
(***************************************************************************)
(* From the provider's fixtures to the points of one contest: the poller   *)
(* and admins finalize results, the fixtures sync overwrites rows with     *)
(* what it fetched earlier, and workers score each final fixture under the *)
(* contest's advisory lock.  Contest has what points are worth in money.   *)
(***************************************************************************)
EXTENDS Integers, FiniteSets, Functions

CONSTANTS
  Fixtures,   \* the contest's matches, known to the provider
  Goals,      \* scorelines
  NilNil,     \* 0-0, what scoring reads where the row has no goals
  Actual,     \* how each match ends
  Told,       \* fixtures for which the provider tells who scored first
  Manual,     \* fixtures whose result an admin may enter, rightly or not
  Entries,
  Pick,       \* the score each entry predicts, per fixture
  Pollers, Admins, Workers,
  MaxSyncs    \* bound: sync runs

NoGoals == "none"

ASSUME ResultsAssumption ==
  /\ IsFiniteSet(Fixtures)
  /\ NoGoals \notin Goals /\ NilNil \in Goals
  /\ Actual \in [Fixtures -> Goals]
  /\ Told \subseteq Fixtures /\ Manual \subseteq Fixtures
  /\ Pick \in [Entries -> [Fixtures -> Goals]]
  /\ Pollers \cap Admins = {}
  /\ MaxSyncs \in Nat

VARIABLES
  provider,     \* what the provider says of each fixture
  row,          \* Fixture.status and goals
  final,        \* fixtures with resultFinalizedAt
  call,         \* poll ticks and finalize calls
  fetched,      \* what the sync under way fetched and has not written yet
  syncs,        \* sync runs so far
  events,       \* MatchResultFinalized events still to be (re)delivered
  job,          \* scoring jobs
  points,       \* Prediction.pointsX10, NoPoints until scoredAt
  total,        \* Entry.totalPointsX10
  status,       \* Contest.status
  overwritten   \* history: fixtures whose row changed after it was final

sourceVars == <<provider, row, final, call, fetched, syncs, overwritten>>
scoreVars == <<job, points, total, status>>
vars == <<sourceVars, events, scoreVars>>

Row(state, goals) == [status |-> state, goals |-> goals]

Idle == [at |-> "idle"]
NoPoints == -1

-----------------------------------------------------------------------------

Init ==
  /\ provider = [f \in Fixtures |-> Row("SCHEDULED", NoGoals)]
  /\ row = [f \in Fixtures |-> Row("SCHEDULED", NoGoals)]
  /\ final = {}
  /\ call = [c \in Pollers \cup Admins |-> Idle]
  /\ fetched = << >>
  /\ syncs = 0
  /\ events = {}
  /\ job = [w \in Workers |-> Idle]
  /\ points = [e \in Entries |-> [f \in Fixtures |-> NoPoints]]
  /\ total = [e \in Entries |-> 0]
  /\ status = "LOCKED"
  /\ overwritten = {}

(* External: a match kicks off, goalless at first, and ends.               *)
Play(f) ==
  /\ provider[f].status # "FINISHED"
  /\ provider' = [provider EXCEPT ![f] =
       IF @.status = "SCHEDULED" THEN Row("LIVE", NilNil) ELSE Row("FINISHED", Actual[f])]
  /\ UNCHANGED <<row, final, call, fetched, syncs, overwritten, events, scoreVars>>

(* A final row that gets another score is noted.                           *)
Write(f, new) ==
  /\ row' = [row EXCEPT ![f] = new]
  /\ overwritten' = IF f \in final /\ new.goals # row[f].goals
                    THEN overwritten \cup {f} ELSE overwritten

Ends(c) == call' = [call EXCEPT ![c] = Idle]

-----------------------------------------------------------------------------
(* The results poller, one candidate after another.                        *)

PollSelect(p, f) ==
  /\ call[p] = Idle
  /\ f \notin final
  /\ provider[f].status # "SCHEDULED"
  /\ row[f].status \in {"SCHEDULED", "LIVE"}
  /\ call' = [call EXCEPT ![p] = [at |-> "ask", f |-> f, seen |-> row[f].status]]
  /\ UNCHANGED <<provider, row, final, fetched, syncs, overwritten, events, scoreVars>>

(* A finished match goes to finalize, unless nobody knows who scored first.*)
PollAsk(p) ==
  /\ call[p].at = "ask"
  /\ LET f == call[p].f
         remote == provider[f]
     IN  call' = [call EXCEPT ![p] =
           CASE remote.status = "FINISHED" /\ f \in Told ->
                  [at |-> "check", f |-> f, goals |-> remote.goals]
             [] remote.status = "LIVE" /\ @.seen # "LIVE" -> [at |-> "live", f |-> f]
             [] OTHER -> Idle]
  /\ UNCHANGED <<provider, row, final, fetched, syncs, overwritten, events, scoreVars>>

(* LIVE, by id, whatever the row has become.                               *)
PollLive(p) ==
  /\ call[p].at = "live"
  /\ Write(call[p].f, Row("LIVE", row[call[p].f].goals))
  /\ Ends(p)
  /\ UNCHANGED <<provider, final, fetched, syncs, events, scoreVars>>

-----------------------------------------------------------------------------
(* finalize, called by the poller and by admins.                           *)

AdminFinalize(a, f, goals) ==
  /\ call[a] = Idle
  /\ f \in Manual
  /\ call' = [call EXCEPT ![a] = [at |-> "check", f |-> f, goals |-> goals]]
  /\ UNCHANGED <<provider, row, final, fetched, syncs, overwritten, events, scoreVars>>

FinalizeCheck(c) ==
  /\ call[c].at = "check"
  /\ IF call[c].f \in final THEN Ends(c) ELSE call' = [call EXCEPT ![c].at = "write"]
  /\ UNCHANGED <<provider, row, final, fetched, syncs, overwritten, events, scoreVars>>

(* By id: another finalization may have come first.                        *)
FinalizeWrite(c) ==
  /\ call[c].at = "write"
  /\ Write(call[c].f, Row("FINISHED", call[c].goals))
  /\ final' = final \cup {call[c].f}
  /\ events' = events \cup {call[c].f}
  /\ Ends(c)
  /\ UNCHANGED <<provider, fetched, syncs, scoreVars>>

(* The provider cannot be reached, the write fails, or the process stops.  *)
CallFails(c) ==
  /\ call[c] # Idle
  /\ Ends(c)
  /\ UNCHANGED <<provider, row, final, fetched, syncs, overwritten, events, scoreVars>>

-----------------------------------------------------------------------------
(* syncDate: one fetch, then row after row, final or not.                  *)

SyncFetch ==
  /\ fetched = << >> /\ syncs < MaxSyncs
  /\ fetched' = provider
  /\ syncs' = syncs + 1
  /\ UNCHANGED <<provider, row, final, call, overwritten, events, scoreVars>>

SyncWrite(f) ==
  /\ f \in DOMAIN fetched
  /\ Write(f, fetched[f])
  /\ fetched' = Restrict(fetched, DOMAIN fetched \ {f})
  /\ UNCHANGED <<provider, final, call, syncs, events, scoreVars>>

SyncFails ==
  /\ fetched # << >>
  /\ fetched' = << >>
  /\ UNCHANGED <<provider, row, final, call, syncs, overwritten, events, scoreVars>>

-----------------------------------------------------------------------------
(* onResultFinalized: the row is read, and later scored under the lock.    *)

(* The job ends; the queue may deliver the event again all the same.       *)
Acknowledge(w) ==
  /\ job' = [job EXCEPT ![w] = Idle]
  /\ events' \in {events, events \ {job[w].f}}

(* What the row says now; a contest past scoring is passed over.           *)
JobRead(w, f) ==
  /\ job[w] = Idle
  /\ f \in events
  /\ IF status \in {"LOCKED", "SCORING"}
       THEN /\ job' = [job EXCEPT ![w] = [at |-> "read", f |-> f, goals |->
                  IF row[f].goals = NoGoals THEN NilNil ELSE row[f].goals]]
            /\ UNCHANGED events
       ELSE /\ events' = events \ {f}
            /\ UNCHANGED job
  /\ UNCHANGED <<sourceVars, points, total, status>>

Holds(w) == job[w].at \in {"locked", "summed"}

(* Mutant: no advisory lock.                                               *)
ScoreUnlocked(w) ==
  /\ job[w].at = "read"
  /\ job' = [job EXCEPT ![w].at = "locked"]
  /\ UNCHANGED <<sourceVars, events, points, total, status>>

(* The contest's advisory lock, until the transaction ends.                *)
ScoreLock(w) ==
  /\ job[w].at = "read"
  /\ \A v \in Workers : ~Holds(v)
  /\ job' = [job EXCEPT ![w].at = "locked"]
  /\ UNCHANGED <<sourceVars, events, points, total, status>>

Worth(e, f, goals) == IF Pick[e][f] = goals THEN 1 ELSE 0

Sum(scores) ==
  SumFunctionOnSet(scores, {f \in Fixtures : scores[f] # NoPoints})

(* An entry's predictions with those of f scored by goals.                 *)
Scored(e, f, goals) == [points[e] EXCEPT ![f] = Worth(e, f, goals)]

(* Mutant: the new points are added to the old total.                      *)
RecomputeByAdding(w) ==
  LET f == job[w].f IN
  /\ job[w].at = "locked"
  /\ job' = [job EXCEPT ![w] = [at |-> "summed", f |-> f, goals |-> @.goals,
       sums |-> [e \in Entries |-> total[e] + Worth(e, f, @.goals)]]]
  /\ UNCHANGED <<sourceVars, events, points, total, status>>

(* The aggregates, from the committed predictions and its own.             *)
Recompute(w) ==
  LET f == job[w].f IN
  /\ job[w].at = "locked"
  /\ job' = [job EXCEPT ![w] = [at |-> "summed", f |-> f, goals |-> @.goals,
       sums |-> [e \in Entries |-> Sum(Scored(e, f, @.goals))]]]
  /\ UNCHANGED <<sourceVars, events, points, total, status>>

ScoreCommit(w) ==
  LET f == job[w].f IN
  /\ job[w].at = "summed"
  /\ points' = [e \in Entries |-> Scored(e, f, job[w].goals)]
  /\ total' = job[w].sums
  /\ status' = IF status = "LOCKED" THEN "SCORING" ELSE status
  /\ job' = [job EXCEPT ![w] = [at |-> "count", f |-> f]]
  /\ UNCHANGED <<sourceVars, events>>

CountPending(w) ==
  /\ job[w].at = "count"
  /\ IF final = Fixtures /\ \A e \in Entries, f \in Fixtures : points[e][f] # NoPoints
       THEN job' = [job EXCEPT ![w].at = "complete"] /\ UNCHANGED events
       ELSE Acknowledge(w)
  /\ UNCHANGED <<sourceVars, points, total, status>>

MarkScored(w) ==
  /\ job[w].at = "complete"
  /\ status' = IF status = "SCORING" THEN "SCORED" ELSE status
  /\ Acknowledge(w)
  /\ UNCHANGED <<sourceVars, points, total>>

(* Mutant: the event of a failed job is dropped.                           *)
JobFailsForGood(w) ==
  /\ job[w] # Idle
  /\ job' = [job EXCEPT ![w] = Idle]
  /\ events' = events \ {job[w].f}
  /\ UNCHANGED <<sourceVars, points, total, status>>

(* The transaction or the process ends early; the queue will retry.        *)
JobFails(w) ==
  /\ job[w] # Idle
  /\ job' = [job EXCEPT ![w] = Idle]
  /\ UNCHANGED <<sourceVars, events, points, total, status>>

-----------------------------------------------------------------------------

Next ==
  \/ \E f \in Fixtures : Play(f)
  \/ \E p \in Pollers, f \in Fixtures : PollSelect(p, f)
  \/ \E p \in Pollers : PollAsk(p) \/ PollLive(p)
  \/ \E a \in Admins, f \in Fixtures, g \in Goals : AdminFinalize(a, f, g)
  \/ \E c \in Pollers \cup Admins : FinalizeCheck(c) \/ FinalizeWrite(c) \/ CallFails(c)
  \/ SyncFetch \/ SyncFails \/ \E f \in Fixtures : SyncWrite(f)
  \/ \E w \in Workers, f \in Fixtures : JobRead(w, f)
  \/ \E w \in Workers :
       ScoreLock(w) \/ Recompute(w) \/ ScoreCommit(w) \/ CountPending(w)
         \/ MarkScored(w) \/ JobFails(w)

Spec == Init /\ [][Next]_vars

-----------------------------------------------------------------------------

(* An entry's total is the sum of its scored predictions, two matches      *)
(* being scored at once or one of them repeatedly: settlement ranks by it  *)
(* (scoring.service.ts on the contests settled at 120.0 instead of 150.0). *)
TotalsAddUp == \A e \in Entries : total[e] = Sum(points[e])

(* Once the events of a final fixture are handled its predictions are      *)
(* scored by the result the row shows, "replaying the event converges to   *)
(* the same state" (scoring.service.ts) - provided the row of the final    *)
(* result was left alone.                                                  *)
Converged ==
  \A f \in final \ overwritten :
    f \notin events /\ (\A w \in Workers : job[w] # Idle => job[w].f # f)
      => \A e \in Entries : points[e][f] = Worth(e, f, row[f].goals)

(* A SCORED contest, about to be settled or settled, is not scored anew by *)
(* a job still running or delivered again, unless a final row was changed. *)
ScoredIsStable ==
  [][status = "SCORED" /\ overwritten = {} => UNCHANGED <<points, total>>]_vars
=============================================================================
