------------------------------- MODULE Outbox -------------------------------
(***************************************************************************)
(* The transactional outbox: rows committed with the writes they tell of,  *)
(* relays (one in every process) that add them to a BullMQ queue under the *)
(* event's id, and the queue's jobs, retried until their attempts run out. *)
(* Processes stop between any two steps.  The steps of a job's handler are *)
(* the composing module's.                                                 *)
(***************************************************************************)
EXTENDS Naturals, Sequences, FiniteSets

CONSTANTS
  Events,
  Relays,
  BatchSize,    \* rows of a tick, 100 in the code
  MaxAttempts,  \* of a job, 5 in the code
  MaxStops      \* bound: stops and failed additions

ASSUME OutboxAssumption ==
  /\ BatchSize \in Nat \ {0} /\ MaxAttempts \in Nat \ {0} /\ MaxStops \in Nat

VARIABLES
  outbox,   \* OutboxEvent rows, in order of createdAt
  relay,    \* each relay's tick: the rows left of its batch
  jobs,     \* the queue, by job id
  runs,     \* history: how often an event's handler was started
  stops

outboxVars == <<outbox, relay, jobs, runs, stops>>

NoTick == [at |-> "idle", batch |-> << >>]
NoJob == [state |-> "absent", attempts |-> 0]

OutboxInit ==
  /\ outbox = << >>
  /\ relay = [r \in Relays |-> NoTick]
  /\ jobs = [e \in Events |-> NoJob]
  /\ runs = [e \in Events |-> 0]
  /\ stops = 0

Emitted == {outbox[i].event : i \in DOMAIN outbox}

(* emit, in the caller's transaction.                                      *)
Emit(e) == outbox' = Append(outbox, [event |-> e, published |-> FALSE])

-----------------------------------------------------------------------------
(* A relay's tick                                                          *)

Unpublished == {i \in DOMAIN outbox : ~outbox[i].published}

(* The oldest unpublished rows, in order.                                  *)
Batch ==
  LET place(i) == Cardinality({j \in Unpublished : j <= i})
      rows == Cardinality(Unpublished)
  IN  [k \in 1 .. (IF rows < BatchSize THEN rows ELSE BatchSize) |->
         outbox[CHOOSE i \in Unpublished : place(i) = k].event]

Ticking(r, at, batch) ==
  relay' = [relay EXCEPT ![r] = IF batch = << >> THEN NoTick ELSE [at |-> at, batch |-> batch]]

Marked(e) == [i \in DOMAIN outbox |->
                IF outbox[i].event = e THEN [outbox[i] EXCEPT !.published = TRUE] ELSE outbox[i]]

RelayRead(r) ==
  /\ relay[r] = NoTick /\ Batch # << >>
  /\ Ticking(r, "add", Batch)
  /\ UNCHANGED <<outbox, jobs, runs, stops>>

(* Mutant: the row is marked published on its way to the queue.            *)
RelayAddMarked(r) ==
  /\ relay[r].at = "add"
  /\ outbox' = Marked(Head(relay[r].batch))
  /\ Ticking(r, "mark", relay[r].batch)
  /\ UNCHANGED <<jobs, runs, stops>>

(* Mutant: the job gets an id of its own, so nothing tells it from another.*)
RelayAddAnew(r) ==
  /\ relay[r].at = "add"
  /\ jobs' = [jobs EXCEPT ![Head(relay[r].batch)].state = "waiting"]
  /\ Ticking(r, "mark", relay[r].batch)
  /\ UNCHANGED <<outbox, runs, stops>>

(* Adding a job whose id the queue has, done jobs included, does nothing.  *)
RelayAdd(r) ==
  /\ relay[r].at = "add"
  /\ jobs' = [jobs EXCEPT ![Head(relay[r].batch)].state = IF @ = "absent" THEN "waiting" ELSE @]
  /\ Ticking(r, "mark", relay[r].batch)
  /\ UNCHANGED <<outbox, runs, stops>>

RelayMark(r) ==
  /\ relay[r].at = "mark"
  /\ outbox' = Marked(Head(relay[r].batch))
  /\ Ticking(r, "add", Tail(relay[r].batch))
  /\ UNCHANGED <<jobs, runs, stops>>

(* The queue cannot be reached: the row waits for a later tick.            *)
RelayAddFails(r) ==
  /\ relay[r].at = "add" /\ stops < MaxStops
  /\ stops' = stops + 1
  /\ Ticking(r, "add", Tail(relay[r].batch))
  /\ UNCHANGED <<outbox, jobs, runs>>

RelayStops(r) ==
  /\ relay[r] # NoTick /\ stops < MaxStops
  /\ stops' = stops + 1
  /\ relay' = [relay EXCEPT ![r] = NoTick]
  /\ UNCHANGED <<outbox, jobs, runs>>

RelayStep(r) == RelayRead(r) \/ RelayAdd(r) \/ RelayMark(r)

-----------------------------------------------------------------------------
(* A job                                                                   *)

JobStarts(e) ==
  /\ jobs[e].state = "waiting"
  /\ jobs' = [jobs EXCEPT ![e].state = "active"]
  /\ runs' = [runs EXCEPT ![e] = @ + 1]
  /\ UNCHANGED <<outbox, relay, stops>>

(* Mutant: done jobs are removed from the queue, their ids with them.      *)
JobDoneRemoved(e) == jobs[e].state = "active" /\ jobs' = [jobs EXCEPT ![e].state = "absent"]

JobDone(e) == jobs[e].state = "active" /\ jobs' = [jobs EXCEPT ![e].state = "completed"]

(* The handler throws, or its worker stops and the job is found stalled.   *)
JobFails(e) ==
  /\ jobs[e].state = "active"
  /\ jobs' = [jobs EXCEPT ![e] =
       [attempts |-> @.attempts + 1,
        state |-> IF @.attempts + 1 < MaxAttempts THEN "waiting" ELSE "failed"]]
  /\ UNCHANGED <<outbox, relay, runs, stops>>

-----------------------------------------------------------------------------

Settled == {e \in Events : jobs[e].state \in {"completed", "failed"}}

Promise == INSTANCE Delivery WITH owed <- Emitted \ Settled, settled <- Settled

(* The outbox keeps its promise (Delivery) through stops of its relays and *)
(* of the worker: no event is lost, and none is settled twice.             *)
DeliveryKept == Promise!Spec

(* "A crash between publish and mark-published cannot double-enqueue"      *)
(* (outbox.relay.ts), nor can two relays: a handler runs again only after  *)
(* an attempt that failed.                                                 *)
RunsOnce == \A e \in Events : runs[e] <= jobs[e].attempts + 1
=============================================================================
