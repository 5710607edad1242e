----------------------------- MODULE ReadModels -----------------------------
(***************************************************************************)
(* What is read but not decided on: the leaderboard of a contest, cached   *)
(* in Redis and pushed to open pages, and a player's statistics, rebuilt   *)
(* by the worker.  Contests are scored and settled; the worker handles     *)
(* their events, several at a time, each at least once.                    *)
(***************************************************************************)
EXTENDS Integers, Sequences, FiniteSets, FiniteSetsExt, SequencesExt, TLC

CONSTANTS
  Contests,    \* the player's contests, in order of submission
  Watched,     \* the contest whose leaderboard is open on a page
  Result,      \* the player's result in each: points, rank, prize, and the predictions
               \* with market, league, month and points
  Requests,    \* requests of the page the API serves at a time
  MaxFails     \* bound: attempts that fail (a job has five)

NoRequest == 0

ASSUME ReadModelsAssumption ==
  /\ IsInjective(Contests)
  /\ Watched \in ToSet(Contests)
  /\ NoRequest \notin Requests
  /\ MaxFails \in 0..4

VARIABLES
  phase,       \* each contest: open, scored, settled
  tasks,        \* the worker's jobs, by topic and contest
  board,       \* changes of the watched contest's standings so far
  cache,       \* the cached leaderboard: the changes it shows, or None
  request,     \* leaderboard requests inside the API
  awaited,     \* the request the page waits for, or NoRequest
  tick,        \* the page has been told to fetch again
  joined,      \* its socket is in the contest's room
  shown,       \* the changes the page shows, None before it has any
  stats,       \* the player's row, NoStats at first
  late,        \* history: the cache was filled by a reader older than its last removal
  beside,      \* history: two recomputations ran beside one another
  fails

readVars == <<phase, tasks, board, cache, request, awaited, tick, joined, shown, stats,
              late, beside, fails>>

boardVars == <<cache, request, awaited, tick, joined, shown, late>>

None == -1
NoStats == [played |-> 0]
Free == [at |-> "free"]

Topics == {"prediction.scored", "contest.scored", "prizes.distributed"}
Tasks == Topics \X ToSet(Contests)
NoTask == [at |-> "none"]

ReadInit ==
  /\ phase = [c \in ToSet(Contests) |-> "open"]
  /\ tasks = [j \in Tasks |-> NoTask]
  /\ board = 0
  /\ cache = None /\ late = FALSE
  /\ request = [r \in Requests |-> Free]
  /\ awaited = NoRequest /\ tick = TRUE /\ joined = FALSE /\ shown = None
  /\ stats = NoStats /\ beside = FALSE
  /\ fails = 0

-----------------------------------------------------------------------------
(* The statistics of a player over sets of settled and of scored contests  *)

(* Prizes in a row, the current run and the longest, in order of           *)
(* submission.                                                             *)
Streaks(settled) ==
  FoldLeft(LAMBDA s, c :
             IF c \notin settled THEN s
             ELSE LET current == IF Result[c].prize > 0 THEN s[1] + 1 ELSE 0
                  IN  <<current, IF current > s[2] THEN current ELSE s[2]>>,
           <<0, 0>>, Contests)

Total(f(_), S) == MapThenSumSet(f, S)

(* The predictions of the scored contests, one by one.                     *)
Predictions(scored) ==
  UNION {{Result[c].predictions[i] @@ [of |-> <<c, i>>] :
            i \in DOMAIN Result[c].predictions} : c \in scored}

(* How many, how many right, and their points.                             *)
Tally(predictions) ==
  << Cardinality(predictions), Cardinality({p \in predictions : p.points > 0}),
     Total(LAMBDA p : p.points, predictions) >>

(* By market, league or month.                                             *)
Breakdown(predictions, key) ==
  [v \in {p[key] : p \in predictions} |-> Tally({p \in predictions : p[key] = v})]

Row(settled, scored) ==
  [ played    |-> Cardinality(settled),
    won       |-> Cardinality({c \in settled : Result[c].rank = 1}),
    predicted |-> Tally(Predictions(scored)),
    breakdown |-> [key \in {"market", "league", "month"} |->
                     Breakdown(Predictions(scored), key)],
    points    |-> Total(LAMBDA c : Result[c].points, settled),
    highest   |-> Max({0} \cup {Result[c].points : c \in settled}),
    winnings  |-> Total(LAMBDA c : Result[c].prize, settled),
    streaks   |-> Streaks(settled) ]

(* The rows as a table (the union has TLC build it once).                  *)
StatsOf ==
  LET some == SUBSET ToSet(Contests)
  IN  << >> @@ [sets \in some \X some |-> Row(sets[1], sets[2])]

SettledContests == {c \in ToSet(Contests) : phase[c] = "settled"}
ScoredContests == {c \in ToSet(Contests) : phase[c] # "open"}

-----------------------------------------------------------------------------
(* The contest                                                             *)

(* Pushes of other contests touch neither the page nor what it is served.  *)
Push(c) == [at |-> IF c = Watched THEN "push" ELSE "done"]

Changed(c) == board' = IF c = Watched THEN board + 1 ELSE board

Score(c) ==
  /\ phase[c] = "open"
  /\ phase' = [phase EXCEPT ![c] = "scored"]
  /\ tasks' = [tasks EXCEPT ![<<"prediction.scored", c>>] = Push(c),
                          ![<<"contest.scored", c>>] = [at |-> "distribute"]]
  /\ Changed(c)
  /\ UNCHANGED <<stats, beside, fails>> /\ UNCHANGED boardVars

-----------------------------------------------------------------------------
(* The worker: route and pushLive                                          *)

First(topic) == CASE topic = "prediction.scored" -> "push"
                  [] topic = "contest.scored" -> "distribute"
                  [] topic = "prizes.distributed" -> "recompute"

TaskGoes(j, pc) == tasks' = [tasks EXCEPT ![j] = pc]

(* distribute, once: a second run finds the contest settled.               *)
Distribute(j) ==
  /\ tasks[j].at = "distribute"
  /\ LET c == j[2] IN
     IF phase[c] = "settled"
     THEN TaskGoes(j, Push(c)) /\ UNCHANGED <<phase, board>>
     ELSE /\ phase' = [phase EXCEPT ![c] = "settled"]
          /\ tasks' = [tasks EXCEPT ![j] = Push(c),
                                  ![<<"prizes.distributed", c>>] = [at |-> "recompute"]]
          /\ Changed(c)
  /\ UNCHANGED <<stats, beside, fails>> /\ UNCHANGED boardVars

Recomputing == {j \in Tasks : tasks[j].at \in {"predictions", "upsert"}}

ReadEntries(j) ==
  /\ tasks[j].at = "recompute"
  /\ TaskGoes(j, [at |-> "predictions", settled |-> SettledContests])
  /\ beside' = (beside \/ Recomputing # {})
  /\ UNCHANGED <<phase, board, stats, fails>> /\ UNCHANGED boardVars

ReadPredictions(j) ==
  /\ tasks[j].at = "predictions"
  /\ TaskGoes(j, [at |-> "upsert", settled |-> tasks[j].settled, scored |-> ScoredContests])
  /\ UNCHANGED <<phase, board, stats, beside, fails>> /\ UNCHANGED boardVars

(* Mutant: the contest is added to the row instead of the row rebuilt.     *)
UpsertedAdded(new) ==
  IF stats = NoStats THEN new ELSE [new EXCEPT !.played = stats.played + 1]

Upserted(new) == new

UpsertStats(j) ==
  /\ tasks[j].at = "upsert"
  /\ stats' = Upserted(StatsOf[tasks[j].settled, tasks[j].scored])
  /\ TaskGoes(j, Push(j[2]))
  /\ UNCHANGED <<phase, board, beside, fails>> /\ UNCHANGED boardVars

(* Mutant: the cached leaderboard is left to expire.                       *)
BustNothing(j) ==
  /\ tasks[j].at = "push"
  /\ TaskGoes(j, [at |-> "publish"])
  /\ UNCHANGED <<phase, board, cache, request, awaited, tick, joined, shown, stats,
                 late, beside, fails>>

(* pushLive removes the cached leaderboard first.                          *)
Bust(j) ==
  /\ tasks[j].at = "push"
  /\ cache' = None /\ late' = FALSE
  /\ request' = [r \in Requests |->
       IF request[r].at = "set" THEN [request[r] EXCEPT !.old = TRUE] ELSE request[r]]
  /\ TaskGoes(j, [at |-> "publish"])
  /\ UNCHANGED <<phase, board, awaited, tick, joined, shown, stats, beside, fails>>

(* The gateway hands the event to the sockets in the room.                 *)
Publish(j) ==
  /\ tasks[j].at = "publish"
  /\ tick' = (tick \/ joined)
  /\ TaskGoes(j, [at |-> "done"])
  /\ UNCHANGED <<phase, board, cache, request, awaited, joined, shown, stats, late, beside, fails>>

TaskStep(j) == Distribute(j) \/ ReadEntries(j) \/ ReadPredictions(j) \/ UpsertStats(j)
              \/ Bust(j) \/ Publish(j)

(* An attempt fails, or its worker stops: the job starts over.  (One that  *)
(* had done nothing yet is as no attempt.)                                 *)
TaskFails(j) ==
  /\ tasks[j].at \notin {"none", "done", First(j[1])} /\ fails < MaxFails
  /\ TaskGoes(j, [at |-> First(j[1])])
  /\ fails' = fails + 1
  /\ UNCHANGED <<phase, board, stats, beside>> /\ UNCHANGED boardVars

-----------------------------------------------------------------------------
(* The leaderboard                                                         *)

Serving(r, pc) == request' = [request EXCEPT ![r] = pc]

RequestsOnly == UNCHANGED <<phase, tasks, board, tick, joined, stats, beside, fails>>

(* The page fetches on a tick, abandoning a fetch under way, or when its   *)
(* interval ends.  The request of an abandoned fetch goes on: to the API   *)
(* it is as any other visitor's.                                           *)
PageFetch(r) ==
  /\ r = Min({q \in Requests : request[q] = Free})
  /\ tick \/ awaited = NoRequest
  /\ Serving(r, [at |-> "get"])
  /\ awaited' = r /\ tick' = FALSE
  /\ UNCHANGED <<phase, tasks, board, cache, joined, shown, stats, late, beside, fails>>

Answer(r, changes) ==
  /\ Serving(r, Free)
  /\ IF r = awaited THEN shown' = changes /\ awaited' = NoRequest
     ELSE UNCHANGED <<shown, awaited>>

CacheHit(r) ==
  /\ request[r].at = "get" /\ cache # None
  /\ Answer(r, cache)
  /\ UNCHANGED <<cache, late>> /\ RequestsOnly

(* A miss: the entries are read and ranked.                                *)
CacheMiss(r) ==
  /\ request[r].at = "get" /\ cache = None
  /\ Serving(r, [at |-> "set", changes |-> board, old |-> FALSE])
  /\ UNCHANGED <<cache, awaited, shown, late>> /\ RequestsOnly

CacheSet(r) ==
  /\ request[r].at = "set"
  /\ cache' = request[r].changes
  /\ late' = request[r].old
  /\ Answer(r, request[r].changes)
  /\ RequestsOnly

(* Mutant: an entry with old standings stays until an event removes it.    *)
CacheNeverExpires ==
  /\ cache # None /\ cache = board
  /\ cache' = None /\ late' = FALSE
  /\ UNCHANGED <<request, awaited, shown>> /\ RequestsOnly

CacheExpires ==
  /\ cache # None
  /\ cache' = None /\ late' = FALSE
  /\ UNCHANGED <<request, awaited, shown>> /\ RequestsOnly

(* With its first answer the page joins the room.                          *)
Join ==
  /\ shown # None /\ ~joined
  /\ joined' = TRUE
  /\ UNCHANGED <<phase, tasks, board, cache, request, awaited, tick, shown, stats,
                 late, beside, fails>>

-----------------------------------------------------------------------------

ReadNext ==
  \/ \E c \in ToSet(Contests) : Score(c)
  \/ \E j \in Tasks : TaskStep(j) \/ TaskFails(j)
  \/ \E r \in Requests : CacheHit(r) \/ CacheMiss(r) \/ CacheSet(r)
  \/ \E r \in {q \in Requests : request[q] = Free} : PageFetch(r)
  \/ CacheExpires \/ Join

(* The worker takes its jobs, the API its requests, Redis its expiry, and  *)
(* the page's interval runs.                                               *)
ReadFairness ==
  /\ WF_readVars(\E j \in Tasks : TaskStep(j))
  /\ WF_readVars(\E r \in Requests : CacheHit(r) \/ CacheMiss(r) \/ CacheSet(r))
  /\ WF_readVars(CacheExpires)
  /\ WF_readVars(\E r \in Requests : request[r] = Free /\ PageFetch(r))

ReadSpec == ReadInit /\ [][ReadNext]_readVars /\ ReadFairness

-----------------------------------------------------------------------------

(* Pushes may be lost and a late reader may cache old standings, but an    *)
(* open page ends up with the standings there are.                         *)
BoardCatchesUp == <>[](shown = board)

Unbusted(j) ==
  j[2] = Watched /\ tasks[j].at \in {"distribute", "recompute", "predictions", "upsert", "push"}

(* Old standings are cached only while the worker has yet to handle the    *)
(* change, or when a request that read before a removal filled the cache   *)
(* after it; that lasts no longer than the entry.                          *)
CacheFresh ==
  cache \notin {None, board} => late \/ \E j \in Tasks : Unbusted(j)

(* "Rebuilt from source tables, so replaying events always converges to    *)
(* truth" (stats.service.ts): when the worker is done, failed attempts     *)
(* included, the row is that of the settled contests, unless two           *)
(* recomputations for the player ran beside one another.                   *)
StatsConverge ==
  LET done == \A j \in Tasks : tasks[j].at \notin {"recompute", "predictions", "upsert"}
  IN  done /\ ~beside /\ SettledContests = ScoredContests /\ SettledContests # {} =>
        stats = StatsOf[SettledContests, SettledContests]
=============================================================================
