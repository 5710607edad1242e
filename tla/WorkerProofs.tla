---------------------------- MODULE WorkerProofs ----------------------------
(***************************************************************************)
(* What the worker does beside the money, proved for any size.  First the  *)
(* catalog: no event is lost and no fixture forgotten without a trace, for *)
(* any fixtures, syncs, relays, batch and attempts, with stops anywhere.   *)
(* What relays and syncs read is soon old; what they rely on (a row        *)
(* emitted, a job added, a fixture created) is never undone.  Then the     *)
(* read models: the leaderboard it pushes and the statistics it rebuilds.  *)
(***************************************************************************)
EXTENDS Catalog, ReadModels, DataLemmas

Rows == [event : Events, published : BOOLEAN]
Ticks == [at : {"idle", "add", "mark"}, batch : Seq(Events)]
JobRows == [state : {"absent", "waiting", "active", "completed", "failed"}, attempts : Nat]

Resolving(pc) ==
  pc = [at |-> pc.at, todo |-> pc.todo, parents |-> pc.parents, found |-> pc.found]

Syncing(pc) ==
  /\ pc.at \in {"find", "resolve", "create", "write", "emit"}
  /\ pc.todo \in Seq(Events) /\ pc.todo # << >>
  /\ pc.at # "find" => Resolving(pc)

QueueTyped ==
  /\ outbox \in Seq(Rows) /\ jobs \in [Events -> JobRows]
  /\ runs \in [Events -> Nat] /\ stops \in Nat
  /\ relay \in [Relays -> Ticks]
  /\ \A r \in Relays : relay[r] # NoTick => relay[r].at # "idle" /\ relay[r].batch # << >>

CatalogTyped ==
  /\ fixtures \subseteq Events /\ starred \subseteq Events /\ unannounced \subseteq Events
  /\ DOMAIN sync = Syncers /\ \A s \in Syncers : sync[s] = Idle \/ Syncing(sync[s])
  /\ \A s \in Syncers \ synced : sync[s] = Idle

(* Only emitted events travel; a published row's job is in the queue, and  *)
(* so is that of the row a relay is about to mark.                         *)
NoneLost ==
  /\ \A e \in Events : jobs[e].state # "absent" => e \in Emitted
  /\ \A r \in Relays : \A k \in DOMAIN relay[r].batch : relay[r].batch[k] \in Emitted
  /\ \A i \in DOMAIN outbox : outbox[i].published => jobs[outbox[i].event].state # "absent"
  /\ \A r \in Relays : relay[r].at = "mark" => jobs[Head(relay[r].batch)].state # "absent"

(* A handler was started once for each failed attempt, and once more if it *)
(* runs or has ended.                                                      *)
RunsCounted ==
  \A e \in Events :
    /\ runs[e] = jobs[e].attempts + (IF jobs[e].state \in {"active", "completed"} THEN 1 ELSE 0)
    /\ jobs[e].attempts <= MaxAttempts
    /\ jobs[e].state # "failed" => jobs[e].attempts < MaxAttempts

(* The one sync that created a fixture's row emits its event, or stops.    *)
Announcing(s) == sync[s].at = "emit"

Announced ==
  /\ \A i, j \in DOMAIN outbox : outbox[i].event = outbox[j].event => i = j
  /\ Emitted \cup unannounced \subseteq fixtures /\ Emitted \cap unannounced = {}
  /\ \A s \in Syncers : Announcing(s) => Current(s) \in fixtures \ (Emitted \cup unannounced)
  /\ \A s, t \in Syncers : Announcing(s) /\ Announcing(t) /\ Current(s) = Current(t) => s = t
  /\ \A f \in fixtures \ (Emitted \cup unannounced) :
       \E s \in Syncers : Announcing(s) /\ Current(s) = f

StarsKept == \A f \in Events : jobs[f].state = "completed" => f \in starred

IInv == QueueTyped /\ CatalogTyped /\ NoneLost /\ RunsCounted /\ Announced /\ StarsKept

-----------------------------------------------------------------------------
(* The rows of the outbox and a relay's batch                              *)

LEMMA EmittedRows ==
  ASSUME outbox \in Seq(Rows)
  PROVE  /\ DOMAIN outbox = 1 .. Len(outbox) /\ Len(outbox) \in Nat
         /\ \A i \in DOMAIN outbox : outbox[i] \in Rows /\ outbox[i].event \in Emitted
         /\ Emitted \subseteq Events /\ IsFiniteSet(DOMAIN outbox)
<1>1. DOMAIN outbox = 1 .. Len(outbox) /\ Len(outbox) \in Nat
  BY LenProperties
<1>2. \A i \in DOMAIN outbox : outbox[i] \in Rows
  BY <1>1, ElementOfSeq
<1>3. \A i \in DOMAIN outbox : outbox[i].event \in Emitted
  BY DEF Emitted
<1>4. Emitted \subseteq Events
  BY <1>2 DEF Emitted, Rows
<1> QED
  BY <1>1, <1>2, <1>3, <1>4, FS_Interval

LEMMA BatchEmitted ==
  ASSUME outbox \in Seq(Rows)
  PROVE  Batch \in Seq(Emitted)
<1> DEFINE rows == Cardinality(Unpublished)
           n == IF rows < BatchSize THEN rows ELSE BatchSize
           id == [i \in Unpublished |-> i]
           place(i) == Cardinality({j \in Unpublished : j <= i})
           at(k) == CHOOSE i \in Unpublished : place(i) = k
<1>1. /\ Unpublished \subseteq DOMAIN outbox /\ IsFiniteSet(Unpublished)
      /\ \A i \in Unpublished : i \in Int
  BY EmittedRows, FS_Subset DEF Unpublished
<1>2. n \in Nat /\ n <= rows
  BY <1>1, FS_CardinalityType, OutboxAssumption
<1>3. ASSUME NEW i \in Unpublished PROVE place(i) = Cardinality(UpTo(id, Unpublished, i))
  <2>1. {j \in Unpublished : j <= i} = UpTo(id, Unpublished, i)
    BY DEF UpTo
  <2> QED
    BY <2>1
<1>4. \A k \in 1 .. rows : \E i \in Unpublished : place(i) = k
  <2>1. /\ \A i \in Unpublished : id[i] \in Int
        /\ \A i, j \in Unpublished : id[i] = id[j] => i = j
    BY <1>1
  <2> HIDE DEF id, place
  <2>2. \A k \in 1 .. Cardinality(Unpublished) :
          \E i \in Unpublished : Cardinality(UpTo(id, Unpublished, i)) = k
    BY <1>1, <2>1, Placed
  <2> QED
    BY <1>3, <2>2
<1>5. ASSUME NEW k \in 1 .. n PROVE outbox[at(k)].event \in Emitted
  <2> HIDE DEF place, n
  <2>1. k \in 1 .. rows
    BY <1>1, <1>2, FS_CardinalityType
  <2>2. \E i \in Unpublished : place(i) = k
    BY <1>4, <2>1
  <2>3. at(k) \in Unpublished
    BY <2>2
  <2> QED
    BY <1>1, <2>3, EmittedRows
<1>6. Batch = [k \in 1 .. n |-> outbox[at(k)].event]
  BY DEF Batch
<1> HIDE DEF n, at
<1> QED
  BY <1>2, <1>5, <1>6, SeqDef

(* Marking rows published changes nothing else of them.                    *)
LEMMA MarkedRows ==
  ASSUME outbox \in Seq(Rows), NEW e, outbox' = Marked(e)
  PROVE  /\ outbox' \in Seq(Rows) /\ DOMAIN outbox' = DOMAIN outbox /\ Emitted' = Emitted
         /\ \A i \in DOMAIN outbox :
              /\ outbox'[i].event = outbox[i].event
              /\ outbox'[i].published => outbox[i].published \/ outbox[i].event = e
<1>1. outbox' \in [DOMAIN outbox -> Rows]
  BY EmittedRows DEF Marked, Rows
<1>2. outbox' \in Seq(Rows) /\ DOMAIN outbox' = DOMAIN outbox
  BY <1>1, Mapped
<1>3. \A i \in DOMAIN outbox :
         /\ outbox'[i].event = outbox[i].event
         /\ outbox'[i].published => outbox[i].published \/ outbox[i].event = e
  BY EmittedRows DEF Marked, Rows
<1>4. Emitted' = Emitted
  BY <1>2, <1>3 DEF Emitted
<1> QED
  BY <1>2, <1>3, <1>4

LEMMA EmitAdds ==
  ASSUME outbox \in Seq(Rows), NEW e \in Events, Emit(e)
  PROVE  /\ outbox' \in Seq(Rows) /\ Emitted' = Emitted \cup {e}
         /\ DOMAIN outbox' = DOMAIN outbox \cup {Len(outbox) + 1}
         /\ Len(outbox) + 1 \notin DOMAIN outbox
         /\ \A i \in DOMAIN outbox : outbox'[i] = outbox[i]
         /\ outbox'[Len(outbox) + 1] = [event |-> e, published |-> FALSE]
<1> DEFINE row == [event |-> e, published |-> FALSE]
<1>1. row \in Rows
  BY DEF Rows
<1>2. outbox' = Append(outbox, row)
  BY DEF Emit
<1> HIDE DEF row
<1>3. /\ outbox' \in Seq(Rows) /\ Len(outbox) \in Nat
      /\ DOMAIN outbox = 1 .. Len(outbox) /\ DOMAIN outbox' = 1 .. (Len(outbox) + 1)
      /\ \A i \in DOMAIN outbox : outbox'[i] = outbox[i]
      /\ outbox'[Len(outbox) + 1] = row
  BY <1>1, <1>2, Appended, LenProperties
<1>4. DOMAIN outbox' = DOMAIN outbox \cup {Len(outbox) + 1} /\ Len(outbox) + 1 \notin DOMAIN outbox
  BY <1>3
<1>5. row.event = e
  BY DEF row
<1>6. Emitted' = Emitted \cup {e}
  BY <1>3, <1>4, <1>5 DEF Emitted
<1> QED
  BY <1>3, <1>4, <1>6 DEF row

(* What is left of a batch.                                                *)
LEMMA TickTyped ==
  ASSUME relay \in [Relays -> Ticks], NEW r \in Relays, NEW S \in SUBSET Events, NEW batch \in Seq(S),
         NEW at \in {"add", "mark"}, Ticking(r, at, batch),
         \A q \in Relays : relay[q] # NoTick => relay[q].at # "idle" /\ relay[q].batch # << >>
  PROVE  /\ relay' \in [Relays -> Ticks]
         /\ \A q \in Relays : relay'[q] # NoTick => relay'[q].at # "idle" /\ relay'[q].batch # << >>
         /\ \A q \in Relays \ {r} : relay'[q] = relay[q]
         /\ \A k \in DOMAIN relay'[r].batch : relay'[r].batch[k] \in S
         /\ relay'[r].at = "mark" => at = "mark" /\ relay'[r].batch = batch
<1>1. batch \in Seq(Events) /\ DOMAIN batch = 1 .. Len(batch) /\ \A k \in DOMAIN batch : batch[k] \in S
  BY SeqMonotonic, LenProperties, ElementOfSeq
<1>2. NoTick \in Ticks /\ NoTick.at = "idle" /\ NoTick.batch = << >> /\ DOMAIN NoTick.batch = {}
  BY DEF NoTick, Ticks
<1>3. CASE batch = << >>
  BY <1>2, <1>3 DEF Ticking
<1>4. CASE batch # << >>
  BY <1>1, <1>4 DEF Ticking, Ticks, NoTick
<1> QED
  BY <1>3, <1>4

(* What a relay is about to add or to mark, and what is left after it.     *)
LEMMA TickHead ==
  ASSUME QueueTyped, NoneLost, NEW r \in Relays, relay[r].at \in {"add", "mark"}
  PROVE  /\ relay[r].batch # << >> /\ Head(relay[r].batch) \in Emitted
         /\ relay[r].batch \in Seq(Emitted) /\ Tail(relay[r].batch) \in Seq(Emitted)
<1>1. relay[r] \in Ticks /\ relay[r] # NoTick
  BY DEF QueueTyped, NoTick
<1>2. relay[r].batch \in Seq(Events) /\ relay[r].batch # << >>
  BY <1>1 DEF QueueTyped, Ticks
<1>3. /\ DOMAIN relay[r].batch = 1 .. Len(relay[r].batch) /\ Len(relay[r].batch) \in Nat
      /\ relay[r].batch = [k \in 1 .. Len(relay[r].batch) |-> relay[r].batch[k]]
  BY <1>2, LenProperties
<1>4. relay[r].batch \in Seq(Emitted)
  BY <1>3, SeqDef DEF NoneLost
<1> QED
  BY <1>2, <1>4, HeadTailProperties

-----------------------------------------------------------------------------
(* A relay's steps                                                         *)

(* The rest of the invariant follows the events emitted and the jobs done. *)
LEMMA RestKept ==
  ASSUME QueueTyped, CatalogTyped, Announced, StarsKept, UNCHANGED catalogVars,
         Emitted' = Emitted, DOMAIN outbox' = DOMAIN outbox,
         \A i \in DOMAIN outbox : outbox'[i].event = outbox[i].event,
         \A e \in Events : jobs'[e].state = "completed" => jobs[e].state = "completed"
  PROVE  CatalogTyped' /\ Announced' /\ StarsKept'
<1>1. CatalogTyped'
  BY DEF CatalogTyped, catalogVars, Syncing, Resolving
<1>2. Announced'
  BY DEF Announced, Announcing, Current, catalogVars
<1>3. StarsKept'
  BY DEF StarsKept, catalogVars
<1> QED
  BY <1>1, <1>2, <1>3

LEMMA RelayKeeps ==
  ASSUME IInv, NEW r \in Relays, UNCHANGED catalogVars,
         RelayStep(r) \/ RelayAddFails(r) \/ RelayStops(r)
  PROVE  IInv'
<1> USE DEF IInv
<1>0. /\ outbox \in Seq(Rows) /\ relay \in [Relays -> Ticks] /\ stops \in Nat
      /\ jobs \in [Events -> JobRows] /\ runs \in [Events -> Nat]
      /\ \A q \in Relays : relay[q] # NoTick => relay[q].at # "idle" /\ relay[q].batch # << >>
      /\ Emitted \in SUBSET Events
  BY EmittedRows DEF QueueTyped
<1>1. ASSUME RelayRead(r) PROVE IInv'
  <2>1. /\ Ticking(r, "add", Batch) /\ UNCHANGED <<outbox, jobs, runs, stops>>
        /\ Batch \in Seq(Emitted)
    BY <1>1, <1>0, BatchEmitted DEF RelayRead
  <2>2. Emitted' = Emitted
    BY <2>1 DEF Emitted
  <2>3. /\ relay' \in [Relays -> Ticks]
        /\ \A q \in Relays : relay'[q] # NoTick => relay'[q].at # "idle" /\ relay'[q].batch # << >>
        /\ \A q \in Relays \ {r} : relay'[q] = relay[q]
        /\ \A k \in DOMAIN relay'[r].batch : relay'[r].batch[k] \in Emitted
        /\ relay'[r].at # "mark"
    BY <1>0, <2>1, TickTyped
  <2>4. QueueTyped'
    BY <2>1, <2>3 DEF QueueTyped, NoTick
  <2>5. NoneLost'
    BY <2>1, <2>2, <2>3 DEF NoneLost
  <2>6. RunsCounted'
    BY <2>1 DEF RunsCounted
  <2> QED
    BY <2>1, <2>2, <2>4, <2>5, <2>6, RestKept
<1>2. ASSUME RelayAdd(r) PROVE IInv'
  <2> DEFINE e == Head(relay[r].batch)
  <2>1. /\ relay[r].at = "add" /\ Ticking(r, "mark", relay[r].batch)
        /\ UNCHANGED <<outbox, runs, stops>>
        /\ jobs' = [jobs EXCEPT ![e].state = IF @ = "absent" THEN "waiting" ELSE @]
    BY <1>2 DEF RelayAdd
  <2>2. relay[r].batch # << >> /\ e \in Emitted /\ relay[r].batch \in Seq(Emitted) /\ e \in Events
    BY <1>0, <2>1, TickHead
  <2> HIDE DEF e
  <2>3. Emitted' = Emitted
    BY <2>1 DEF Emitted
  <2>4. /\ relay' \in [Relays -> Ticks]
        /\ \A q \in Relays : relay'[q] # NoTick => relay'[q].at # "idle" /\ relay'[q].batch # << >>
        /\ \A q \in Relays \ {r} : relay'[q] = relay[q]
        /\ \A k \in DOMAIN relay'[r].batch : relay'[r].batch[k] \in Emitted
        /\ relay'[r].at = "mark" => relay'[r].batch = relay[r].batch
    BY <1>0, <2>1, <2>2, TickTyped
  <2>5. /\ jobs' \in [Events -> JobRows] /\ jobs'[e].state # "absent"
        /\ \A f \in Events : f # e => jobs'[f] = jobs[f]
        /\ jobs'[e].attempts = jobs[e].attempts
        /\ jobs[e].state # "absent" => jobs'[e].state = jobs[e].state
        /\ jobs[e].state = "absent" => jobs'[e].state = "waiting"
    BY <1>0, <2>1, <2>2 DEF JobRows
  <2>6. QueueTyped'
    BY <1>0, <2>1, <2>4, <2>5 DEF QueueTyped, NoTick
  <2>7. NoneLost'
    <3>1. \A f \in Events : jobs[f].state # "absent" => jobs'[f].state # "absent"
      BY <2>5
    <3>2. \A i \in DOMAIN outbox : outbox[i].event \in Events
      BY <1>0, EmittedRows
    <3>3. \A q \in Relays : relay'[q].at = "mark" => jobs'[Head(relay'[q].batch)].state # "absent"
      <4>1. \A q \in Relays \ {r} : relay[q].at = "mark" => Head(relay[q].batch) \in Events
        BY <1>0, TickHead
      <4>2. CASE relay'[r].at = "mark"
        BY <2>4, <2>5, <3>1, <4>1, <4>2 DEF NoneLost, e
      <4>3. CASE relay'[r].at # "mark"
        BY <2>4, <3>1, <4>1, <4>3 DEF NoneLost
      <4> QED
        BY <4>2, <4>3
    <3>4. \A f \in Events : jobs'[f].state # "absent" => f \in Emitted
      BY <2>2, <2>5 DEF NoneLost
    <3>5. \A i \in DOMAIN outbox : outbox[i].published => jobs'[outbox[i].event].state # "absent"
      BY <3>1, <3>2 DEF NoneLost
    <3> QED
      BY <2>1, <2>3, <2>4, <3>3, <3>4, <3>5 DEF NoneLost
  <2>8. RunsCounted'
    <3>1. ASSUME NEW f \in Events PROVE RunsCounted!(f)'
      BY <2>1, <2>2, <2>5 DEF RunsCounted
    <3> QED
      BY <3>1 DEF RunsCounted
  <2>9. \A f \in Events : jobs'[f].state = "completed" => jobs[f].state = "completed"
    BY <2>2, <2>5
  <2> QED
    BY <2>1, <2>3, <2>6, <2>7, <2>8, <2>9, RestKept
<1>3. ASSUME RelayMark(r) PROVE IInv'
  <2> DEFINE e == Head(relay[r].batch)
  <2>1. /\ relay[r].at = "mark" /\ Ticking(r, "add", Tail(relay[r].batch))
        /\ UNCHANGED <<jobs, runs, stops>> /\ outbox' = Marked(e)
    BY <1>3 DEF RelayMark
  <2>2. e \in Emitted /\ Tail(relay[r].batch) \in Seq(Emitted) /\ jobs[e].state # "absent"
    BY <2>1, TickHead DEF NoneLost
  <2> HIDE DEF e
  <2>3. /\ outbox' \in Seq(Rows) /\ DOMAIN outbox' = DOMAIN outbox /\ Emitted' = Emitted
        /\ \A i \in DOMAIN outbox :
             /\ outbox'[i].event = outbox[i].event
             /\ outbox'[i].published => outbox[i].published \/ outbox[i].event = e
    BY <1>0, <2>1, MarkedRows
  <2>4. /\ relay' \in [Relays -> Ticks]
        /\ \A q \in Relays : relay'[q] # NoTick => relay'[q].at # "idle" /\ relay'[q].batch # << >>
        /\ \A q \in Relays \ {r} : relay'[q] = relay[q]
        /\ \A k \in DOMAIN relay'[r].batch : relay'[r].batch[k] \in Emitted
        /\ relay'[r].at # "mark"
    BY <1>0, <2>1, <2>2, TickTyped
  <2>5. QueueTyped'
    BY <1>0, <2>1, <2>3, <2>4 DEF QueueTyped, NoTick
  <2>6. NoneLost'
    BY <2>1, <2>2, <2>3, <2>4 DEF NoneLost
  <2>7. RunsCounted'
    BY <2>1 DEF RunsCounted
  <2> QED
    BY <2>1, <2>3, <2>5, <2>6, <2>7, RestKept
<1>4. ASSUME RelayAddFails(r) PROVE IInv'
  <2>1. /\ relay[r].at = "add" /\ Ticking(r, "add", Tail(relay[r].batch))
        /\ stops' = stops + 1 /\ UNCHANGED <<outbox, jobs, runs>>
    BY <1>4 DEF RelayAddFails
  <2>2. Tail(relay[r].batch) \in Seq(Emitted)
    BY <2>1, TickHead
  <2>3. Emitted' = Emitted
    BY <2>1 DEF Emitted
  <2>4. /\ relay' \in [Relays -> Ticks]
        /\ \A q \in Relays : relay'[q] # NoTick => relay'[q].at # "idle" /\ relay'[q].batch # << >>
        /\ \A q \in Relays \ {r} : relay'[q] = relay[q]
        /\ \A k \in DOMAIN relay'[r].batch : relay'[r].batch[k] \in Emitted
        /\ relay'[r].at # "mark"
    BY <1>0, <2>1, <2>2, TickTyped
  <2>5. QueueTyped'
    BY <1>0, <2>1, <2>4 DEF QueueTyped, NoTick
  <2>6. NoneLost'
    BY <2>1, <2>3, <2>4 DEF NoneLost
  <2>7. RunsCounted'
    BY <2>1 DEF RunsCounted
  <2> QED
    BY <2>1, <2>3, <2>5, <2>6, <2>7, RestKept
<1>5. ASSUME RelayStops(r) PROVE IInv'
  <2>1. /\ relay' = [relay EXCEPT ![r] = NoTick]
        /\ stops' = stops + 1 /\ UNCHANGED <<outbox, jobs, runs>>
    BY <1>5 DEF RelayStops
  <2>2. Emitted' = Emitted
    BY <2>1 DEF Emitted
  <2>3. NoTick \in Ticks /\ NoTick.at = "idle" /\ DOMAIN NoTick.batch = {}
    BY DEF NoTick, Ticks
  <2>4. /\ relay' \in [Relays -> Ticks] /\ relay'[r] = NoTick
        /\ \A q \in Relays \ {r} : relay'[q] = relay[q]
    BY <1>0, <2>1, <2>3
  <2>5. QueueTyped'
    BY <1>0, <2>1, <2>4 DEF QueueTyped, NoTick
  <2>6. NoneLost'
    BY <2>1, <2>2, <2>3, <2>4 DEF NoneLost
  <2>7. RunsCounted'
    BY <2>1 DEF RunsCounted
  <2> QED
    BY <2>1, <2>2, <2>5, <2>6, <2>7, RestKept
<1> QED
  BY <1>1, <1>2, <1>3, <1>4, <1>5 DEF RelayStep

-----------------------------------------------------------------------------
(* A job's steps                                                           *)

(* A job that was in the queue stays there, and takes one step.            *)
LEMMA JobMoves ==
  ASSUME IInv, NEW e \in Events, NEW job \in JobRows, UNCHANGED <<outbox, relay, stops>>,
         jobs' = [jobs EXCEPT ![e] = job], jobs[e].state # "absent", job.state # "absent",
         runs' \in [Events -> Nat], \A f \in Events \ {e} : runs'[f] = runs[f],
         runs'[e] = job.attempts + (IF job.state \in {"active", "completed"} THEN 1 ELSE 0),
         job.attempts <= MaxAttempts, job.state # "failed" => job.attempts < MaxAttempts
  PROVE  QueueTyped' /\ NoneLost' /\ RunsCounted' /\ Emitted' = Emitted
<1> USE DEF IInv
<1>0. /\ outbox \in Seq(Rows) /\ jobs \in [Events -> JobRows]
      /\ \A f \in Events : f # e => jobs'[f] = jobs[f]
      /\ jobs' \in [Events -> JobRows] /\ jobs'[e] = job
  BY DEF QueueTyped
<1>1. Emitted' = Emitted
  BY DEF Emitted
<1>2. QueueTyped'
  BY <1>0 DEF QueueTyped, NoTick
<1>3. RunsCounted'
  BY <1>0 DEF RunsCounted
<1>4. NoneLost'
  <2>1. \A i \in DOMAIN outbox : outbox[i].event \in Events
    BY <1>0, EmittedRows
  <2>2. \A q \in Relays : relay[q].at = "mark" => Head(relay[q].batch) \in Events
    BY <1>0, TickHead, EmittedRows
  <2>3. \A f \in Events : jobs'[f].state # "absent" <=> jobs[f].state # "absent"
    BY <1>0
  <2> QED
    BY <1>1, <2>1, <2>2, <2>3 DEF NoneLost
<1> QED
  BY <1>1, <1>2, <1>3, <1>4

LEMMA JobKeeps ==
  ASSUME IInv, NEW e \in Events, UNCHANGED catalogVars, JobStarts(e) \/ JobFails(e)
  PROVE  IInv'
<1> USE DEF IInv
<1>0. /\ jobs \in [Events -> JobRows] /\ runs \in [Events -> Nat] /\ MaxAttempts \in Nat
      /\ jobs[e].attempts \in Nat
  BY OutboxAssumption DEF QueueTyped, JobRows
<1>1. ASSUME JobStarts(e) PROVE IInv'
  <2> DEFINE job == [jobs[e] EXCEPT !.state = "active"]
  <2>1. /\ job \in JobRows /\ job.state = "active" /\ job.attempts = jobs[e].attempts
        /\ jobs' = [jobs EXCEPT ![e] = job] /\ jobs[e].state = "waiting"
        /\ UNCHANGED <<outbox, relay, stops>> /\ runs' = [runs EXCEPT ![e] = @ + 1]
    BY <1>0, <1>1 DEF JobStarts, JobRows
  <2> HIDE DEF job
  <2>2. /\ runs[e] = jobs[e].attempts + 0 /\ jobs[e].attempts < MaxAttempts
    BY <2>1 DEF RunsCounted
  <2>3. /\ runs' \in [Events -> Nat] /\ \A f \in Events \ {e} : runs'[f] = runs[f]
        /\ runs'[e] = job.attempts + (IF job.state \in {"active", "completed"} THEN 1 ELSE 0)
        /\ job.attempts <= MaxAttempts /\ (job.state # "failed" => job.attempts < MaxAttempts)
        /\ jobs[e].state # "absent" /\ job.state # "absent"
    BY <1>0, <2>1, <2>2
  <2>4. QueueTyped' /\ NoneLost' /\ RunsCounted' /\ Emitted' = Emitted
    <3> HIDE DEF IInv
    <3> QED
      BY <2>1, <2>3, JobMoves
  <2>5. \A f \in Events : jobs'[f].state = "completed" => jobs[f].state = "completed"
    BY <1>0, <2>1
  <2> QED
    BY <2>1, <2>4, <2>5, RestKept
<1>2. ASSUME JobFails(e) PROVE IInv'
  <2> DEFINE job == [attempts |-> jobs[e].attempts + 1,
                     state |-> IF jobs[e].attempts + 1 < MaxAttempts THEN "waiting" ELSE "failed"]
  <2>1. /\ job \in JobRows /\ job.state \in {"waiting", "failed"}
        /\ job.attempts = jobs[e].attempts + 1
        /\ job.state = "failed" <=> ~(jobs[e].attempts + 1 < MaxAttempts)
        /\ jobs' = [jobs EXCEPT ![e] = job] /\ jobs[e].state = "active"
        /\ UNCHANGED <<outbox, relay, runs, stops>>
    BY <1>0, <1>2 DEF JobFails, JobRows
  <2> HIDE DEF job
  <2>2. /\ runs[e] = jobs[e].attempts + 1 /\ jobs[e].attempts < MaxAttempts
    BY <2>1 DEF RunsCounted
  <2>3. /\ runs' \in [Events -> Nat] /\ \A f \in Events \ {e} : runs'[f] = runs[f]
        /\ runs'[e] = job.attempts + (IF job.state \in {"active", "completed"} THEN 1 ELSE 0)
        /\ job.attempts <= MaxAttempts /\ (job.state # "failed" => job.attempts < MaxAttempts)
        /\ jobs[e].state # "absent" /\ job.state # "absent"
    BY <1>0, <2>1, <2>2
  <2>4. QueueTyped' /\ NoneLost' /\ RunsCounted' /\ Emitted' = Emitted
    <3> HIDE DEF IInv
    <3> QED
      BY <2>1, <2>3, JobMoves
  <2>5. \A f \in Events : jobs'[f].state = "completed" => jobs[f].state = "completed"
    BY <1>0, <2>1
  <2> QED
    BY <2>1, <2>4, <2>5, RestKept
<1> QED
  BY <1>1, <1>2

LEMMA HandlerKeeps ==
  ASSUME IInv, NEW f \in Events, HandleSynced(f)
  PROVE  IInv'
<1> USE DEF IInv
<1> DEFINE job == [jobs[f] EXCEPT !.state = "completed"]
<1>1. /\ jobs \in [Events -> JobRows] /\ runs \in [Events -> Nat] /\ MaxAttempts \in Nat
      /\ jobs[f].attempts \in Nat
  BY OutboxAssumption DEF QueueTyped, JobRows
<1>2. /\ job \in JobRows /\ job.state = "completed" /\ job.attempts = jobs[f].attempts
      /\ jobs' = [jobs EXCEPT ![f] = job] /\ jobs[f].state = "active"
      /\ UNCHANGED <<outbox, relay, runs, stops, known, fixtures, sync, synced, unannounced>>
      /\ starred' = starred \cup {f}
  BY <1>1 DEF HandleSynced, JobDone, Compute, JobRows
<1> HIDE DEF job
<1>3. runs[f] = jobs[f].attempts + 1 /\ jobs[f].attempts < MaxAttempts
  BY <1>2 DEF RunsCounted
<1>4. /\ runs' \in [Events -> Nat] /\ \A g \in Events \ {f} : runs'[g] = runs[g]
      /\ runs'[f] = job.attempts + (IF job.state \in {"active", "completed"} THEN 1 ELSE 0)
      /\ job.attempts <= MaxAttempts /\ (job.state # "failed" => job.attempts < MaxAttempts)
      /\ jobs[f].state # "absent" /\ job.state # "absent"
  BY <1>1, <1>2, <1>3
<1>5. QueueTyped' /\ NoneLost' /\ RunsCounted' /\ Emitted' = Emitted
  <2> HIDE DEF IInv
  <2> QED
    BY <1>2, <1>4, JobMoves
<1>6. CatalogTyped'
  BY <1>2 DEF CatalogTyped, Syncing, Resolving
<1>7. Announced'
  BY <1>2, <1>5 DEF Announced, Announcing, Current
<1>8. StarsKept'
  BY <1>1, <1>2 DEF StarsKept
<1> QED
  BY <1>5, <1>6, <1>7, <1>8

-----------------------------------------------------------------------------
(* A sync's steps                                                          *)

(* Where a sync that is not announcing goes changes nothing else, unless   *)
(* it starts to announce.                                                  *)
LEMMA SyncGoes ==
  ASSUME IInv, NEW s \in Syncers, NEW pc, Goes(s, pc), pc = Idle \/ Syncing(pc), pc.at # "emit",
         ~Announcing(s), UNCHANGED <<outbox, relay, jobs, runs, fixtures, starred, unannounced>>,
         stops' \in Nat, synced' = synced \cup {s}
  PROVE  IInv'
<1> USE DEF IInv
<1>1. /\ DOMAIN sync' = Syncers /\ sync'[s] = pc
      /\ \A t \in Syncers \ {s} : sync'[t] = sync[t]
  BY DEF CatalogTyped, Goes
<1>2. Emitted' = Emitted
  BY DEF Emitted
<1>3. QueueTyped'
  BY DEF QueueTyped, NoTick
<1>4. CatalogTyped'
  BY <1>1 DEF CatalogTyped, Syncing, Resolving
<1>5. NoneLost'
  BY <1>2 DEF NoneLost
<1>6. RunsCounted'
  BY DEF RunsCounted
<1>7. Announced'
  <2>1. \A t \in Syncers : (Announcing(t)' <=> Announcing(t)) /\ (Announcing(t) => Current(t)' = Current(t))
    BY <1>1 DEF Announcing, Current
  <2> QED
    BY <1>2, <2>1 DEF Announced
<1>8. StarsKept'
  BY DEF StarsKept
<1> QED
  BY <1>3, <1>4, <1>5, <1>6, <1>7, <1>8

(* The rest of a list of fixtures.                                         *)
LEMMA RestOf ==
  ASSUME NEW todo \in Seq(Events)
  PROVE  /\ NextOf(todo) = Idle \/ Syncing(NextOf(todo))
         /\ NextOf(todo).at # "emit"
         /\ todo # << >> => Head(todo) \in Events /\ Tail(todo) \in Seq(Events)
<1>1. todo # << >> => Head(todo) \in Events /\ Tail(todo) \in Seq(Events)
  BY HeadTailProperties
<1> QED
  BY <1>1 DEF NextOf, Syncing, Idle

LEMMA SyncKeeps ==
  ASSUME IInv, NEW s \in Syncers, SyncDate(s) \/ FindRef(s) \/ Resolve(s) \/ CreateParent(s)
  PROVE  IInv'
<1>0. /\ (sync[s] = Idle \/ Syncing(sync[s])) /\ (sync[s] # Idle => s \in synced)
      /\ stops \in Nat /\ Idle.at = "idle"
  BY DEF IInv, QueueTyped, CatalogTyped, Idle
<1>1. ASSUME SyncDate(s) PROVE IInv'
  <2>1. /\ sync[s] = Idle /\ Goes(s, NextOf(Fixtures)) /\ synced' = synced \cup {s}
        /\ UNCHANGED <<outbox, relay, jobs, runs, stops, fixtures, starred, unannounced>>
    BY <1>1 DEF SyncDate, outboxVars, IInv, CatalogTyped
  <2>2. NextOf(Fixtures).at # "emit" /\ (NextOf(Fixtures) = Idle \/ Syncing(NextOf(Fixtures)))
    BY RestOf, CatalogAssumption
  <2> QED
    BY <1>0, <2>1, <2>2, SyncGoes DEF Announcing
<1>2. ASSUME FindRef(s) PROVE IInv'
  <2> DEFINE pc == [at |-> "resolve", todo |-> sync[s].todo, parents |-> Parents[Current(s)],
                    found |-> Current(s) \in fixtures]
  <2>1. /\ sync[s].at = "find" /\ Goes(s, pc) /\ UNCHANGED synced
        /\ UNCHANGED <<outbox, relay, jobs, runs, stops, fixtures, starred, unannounced>>
    BY <1>2 DEF FindRef, outboxVars
  <2>2. Syncing(pc) /\ pc.at # "emit"
    BY <1>0, <2>1 DEF Syncing, Resolving
  <2>3. synced' = synced \cup {s}
    BY <1>0, <2>1
  <2> HIDE DEF pc
  <2> QED
    BY <1>0, <2>1, <2>2, <2>3, SyncGoes DEF Announcing
<1>3. ASSUME Resolve(s) PROVE IInv'
  <2> DEFINE parents == sync[s].parents
             pc == IF parents = << >> THEN [sync[s] EXCEPT !.at = "write"]
                   ELSE IF Head(parents) \in known THEN [sync[s] EXCEPT !.parents = Tail(@)]
                   ELSE [sync[s] EXCEPT !.at = "create"]
  <2>1. /\ sync[s].at = "resolve" /\ Goes(s, pc) /\ UNCHANGED synced
        /\ UNCHANGED <<outbox, relay, jobs, runs, stops, fixtures, starred, unannounced>>
    BY <1>3 DEF Resolve, outboxVars
  <2>2. Syncing(pc) /\ pc.at # "emit"
    BY <1>0, <2>1 DEF Syncing, Resolving
  <2>3. synced' = synced \cup {s}
    BY <1>0, <2>1
  <2> HIDE DEF pc
  <2> QED
    BY <1>0, <2>1, <2>2, <2>3, SyncGoes DEF Announcing
<1>4. ASSUME CreateParent(s) PROVE IInv'
  <2> DEFINE pc == IF Head(sync[s].parents) \in known THEN Idle
                   ELSE [sync[s] EXCEPT !.at = "resolve", !.parents = Tail(@)]
  <2>1. /\ sync[s].at = "create" /\ Goes(s, pc) /\ UNCHANGED synced
        /\ UNCHANGED <<outbox, relay, jobs, runs, stops, fixtures, starred, unannounced>>
    BY <1>4 DEF CreateParent, outboxVars
  <2>2. (pc = Idle \/ Syncing(pc)) /\ pc.at # "emit"
    BY <1>0, <2>1 DEF Syncing, Resolving
  <2>3. synced' = synced \cup {s}
    BY <1>0, <2>1
  <2> HIDE DEF pc
  <2> QED
    BY <1>0, <2>1, <2>2, <2>3, SyncGoes DEF Announcing
<1> QED
  BY <1>1, <1>2, <1>3, <1>4

(* The row a sync creates is its own to announce: found before, it is not  *)
(* created; created by another, it is refused.                             *)
LEMMA WriteKeeps ==
  ASSUME IInv, NEW s \in Syncers, WriteFixture(s)
  PROVE  IInv'
<1> DEFINE f == Current(s)
<1>1. /\ Syncing(sync[s]) /\ sync[s].at = "write" /\ s \in synced /\ stops' \in Nat
      /\ ~Announcing(s) /\ UNCHANGED <<outbox, relay, jobs, runs, stops, starred, synced, unannounced>>
      /\ Idle.at = "idle"
  BY DEF WriteFixture, outboxVars, IInv, CatalogTyped, QueueTyped, Announcing, Idle
<1>2. f \in Events /\ Tail(sync[s].todo) \in Seq(Events) /\ synced' = synced \cup {s}
  BY <1>1, RestOf DEF Syncing, Current
<1>3. CASE sync[s].found
  <2>1. Goes(s, NextOf(Tail(sync[s].todo))) /\ UNCHANGED fixtures
    BY <1>3 DEF WriteFixture
  <2> QED
    BY <1>1, <1>2, <2>1, RestOf, SyncGoes
<1>4. CASE ~sync[s].found /\ f \in fixtures
  <2>1. Goes(s, Idle) /\ UNCHANGED fixtures
    BY <1>4 DEF WriteFixture
  <2> QED
    BY <1>1, <1>2, <2>1, SyncGoes
<1>5. CASE ~sync[s].found /\ f \notin fixtures
  <2>1. fixtures' = fixtures \cup {f} /\ Goes(s, [sync[s] EXCEPT !.at = "emit"])
    BY <1>5 DEF WriteFixture
  <2>2. /\ DOMAIN sync' = Syncers /\ \A t \in Syncers \ {s} : sync'[t] = sync[t]
        /\ Syncing(sync'[s]) /\ sync'[s].at = "emit" /\ sync'[s].todo = sync[s].todo
    BY <1>1, <2>1 DEF Goes, IInv, CatalogTyped, Syncing, Resolving
  <2>3. Emitted' = Emitted
    BY <1>1 DEF Emitted
  <2>4. QueueTyped'
    BY <1>1 DEF IInv, QueueTyped, NoTick
  <2>5. CatalogTyped'
    BY <1>1, <1>2, <2>1, <2>2 DEF IInv, CatalogTyped, Syncing, Resolving
  <2>6. NoneLost'
    BY <1>1, <2>3 DEF IInv, NoneLost
  <2>7. RunsCounted' /\ StarsKept'
    BY <1>1 DEF IInv, RunsCounted, StarsKept
  <2>8. Announced'
    <3>1. /\ Current(s)' = f /\ Announcing(s)'
          /\ \A t \in Syncers \ {s} : (Announcing(t)' <=> Announcing(t)) /\ Current(t)' = Current(t)
      BY <2>2 DEF Current, Announcing
    <3> HIDE DEF f
    <3>2. f \notin Emitted \cup unannounced
      BY <1>5 DEF IInv, Announced
    <3>3. \A t \in Syncers : Announcing(t) => Current(t) # f
      BY <1>5 DEF IInv, Announced
    <3> QED
      BY <1>1, <2>1, <2>3, <3>1, <3>2, <3>3 DEF IInv, Announced
  <2> QED
    BY <2>4, <2>5, <2>6, <2>7, <2>8 DEF IInv
<1> QED
  BY <1>3, <1>4, <1>5

LEMMA EmitKeeps ==
  ASSUME IInv, NEW s \in Syncers, EmitSynced(s)
  PROVE  IInv' /\ Emitted' = Emitted \cup {Current(s)} /\ Current(s) \notin Emitted
<1> DEFINE f == Current(s)
<1>1. /\ Syncing(sync[s]) /\ Announcing(s) /\ s \in synced /\ outbox \in Seq(Rows)
      /\ Emit(f) /\ Goes(s, NextOf(Tail(sync[s].todo)))
      /\ UNCHANGED <<relay, jobs, runs, stops, known, fixtures, starred, synced, unannounced>>
      /\ Idle.at = "idle"
  BY DEF EmitSynced, IInv, CatalogTyped, QueueTyped, Announcing, Idle
<1>2. f \in Events /\ Tail(sync[s].todo) \in Seq(Events)
  BY <1>1, RestOf DEF Syncing, Current
<1>3. f \in fixtures /\ f \notin Emitted /\ f \notin unannounced
  BY <1>1 DEF IInv, Announced
<1>4. /\ DOMAIN sync' = Syncers /\ \A t \in Syncers \ {s} : sync'[t] = sync[t]
      /\ sync'[s] = Idle \/ Syncing(sync'[s])
      /\ sync'[s].at # "emit"
  BY <1>1, <1>2, RestOf DEF Goes, IInv, CatalogTyped
<1> HIDE DEF f
<1>5. /\ outbox' \in Seq(Rows) /\ Emitted' = Emitted \cup {f}
      /\ DOMAIN outbox' = DOMAIN outbox \cup {Len(outbox) + 1}
      /\ Len(outbox) + 1 \notin DOMAIN outbox
      /\ \A i \in DOMAIN outbox : outbox'[i] = outbox[i]
      /\ outbox'[Len(outbox) + 1] = [event |-> f, published |-> FALSE]
  BY <1>1, <1>2, EmitAdds
<1>6. QueueTyped'
  BY <1>1, <1>5 DEF IInv, QueueTyped, NoTick
<1>7. CatalogTyped'
  BY <1>1, <1>4 DEF IInv, CatalogTyped, Syncing, Resolving
<1>8. NoneLost'
  BY <1>1, <1>5 DEF IInv, NoneLost
<1>9. RunsCounted' /\ StarsKept'
  BY <1>1 DEF IInv, RunsCounted, StarsKept
<1>10. Announced'
  <2>1. /\ ~Announcing(s)'
        /\ \A t \in Syncers \ {s} : (Announcing(t)' <=> Announcing(t)) /\ Current(t)' = Current(t)
    BY <1>4 DEF Current, Announcing
  <2>2. \A t \in Syncers \ {s} : Announcing(t) => Current(t) # f
    BY <1>1 DEF IInv, Announced, f
  <2>3. \A i, j \in DOMAIN outbox' : outbox'[i].event = outbox'[j].event => i = j
    <3>1. \A i \in DOMAIN outbox : outbox[i].event # f
      BY <1>1, <1>3, EmittedRows
    <3> QED
      BY <1>5, <3>1 DEF IInv, Announced
  <2>4. \A g \in fixtures \ (Emitted' \cup unannounced) :
          \E t \in Syncers \ {s} : Announcing(t) /\ Current(t) = g
    BY <1>5 DEF IInv, Announced, f
  <2> QED
    BY <1>1, <1>3, <1>5, <2>1, <2>2, <2>3, <2>4 DEF IInv, Announced
<1> QED
  BY <1>3, <1>5, <1>6, <1>7, <1>8, <1>9, <1>10 DEF IInv, f

LEMMA StopKeeps ==
  ASSUME IInv, NEW s \in Syncers, SyncStops(s)
  PROVE  IInv'
<1> DEFINE f == Current(s)
<1>1. /\ Syncing(sync[s]) /\ s \in synced /\ stops' \in Nat /\ Goes(s, Idle)
      /\ UNCHANGED <<outbox, relay, jobs, runs, known, fixtures, starred, synced>>
      /\ unannounced' = IF Announcing(s) THEN unannounced \cup {f} ELSE unannounced
      /\ Idle.at = "idle"
  BY DEF SyncStops, IInv, CatalogTyped, QueueTyped, Announcing, Idle
<1>2. CASE ~Announcing(s)
  <2>1. synced' = synced \cup {s} /\ UNCHANGED unannounced
    BY <1>1, <1>2
  <2> QED
    BY <1>1, <1>2, <2>1, SyncGoes
<1>3. CASE Announcing(s)
  <2>1. f \in Events /\ f \in fixtures /\ f \notin Emitted /\ f \notin unannounced
    BY <1>3 DEF IInv, Announced, CatalogTyped
  <2>2. unannounced' = unannounced \cup {f} /\ Emitted' = Emitted
    BY <1>1, <1>3 DEF Emitted
  <2>3. /\ DOMAIN sync' = Syncers /\ sync'[s] = Idle
        /\ \A t \in Syncers \ {s} : sync'[t] = sync[t]
    BY <1>1 DEF Goes, IInv, CatalogTyped
  <2>4. \A t \in Syncers \ {s} : Announcing(t) => Current(t) # f
    BY <1>3 DEF IInv, Announced
  <2> HIDE DEF f
  <2>5. QueueTyped'
    BY <1>1 DEF IInv, QueueTyped, NoTick
  <2>6. CatalogTyped'
    BY <1>1, <2>1, <2>2, <2>3 DEF IInv, CatalogTyped, Syncing, Resolving
  <2>7. NoneLost'
    BY <1>1, <2>2 DEF IInv, NoneLost
  <2>8. RunsCounted' /\ StarsKept'
    BY <1>1 DEF IInv, RunsCounted, StarsKept
  <2>9. Announced'
    <3>1. /\ ~Announcing(s)'
          /\ \A t \in Syncers \ {s} : (Announcing(t)' <=> Announcing(t)) /\ Current(t)' = Current(t)
      BY <1>1, <2>3 DEF Current, Announcing
    <3>2. \A g \in fixtures \ (Emitted \cup unannounced') :
            \E t \in Syncers \ {s} : Announcing(t) /\ Current(t) = g
      BY <2>2 DEF IInv, Announced, f
    <3> QED
      BY <1>1, <2>1, <2>2, <2>4, <3>1, <3>2 DEF IInv, Announced
  <2> QED
    BY <2>5, <2>6, <2>7, <2>8, <2>9 DEF IInv
<1> QED
  BY <1>2, <1>3

-----------------------------------------------------------------------------
(* The invariant                                                           *)

LEMMA InitIInv == Init => IInv
<1> SUFFICES ASSUME Init PROVE IInv
  OBVIOUS
<1>1. /\ outbox = << >> /\ relay = [r \in Relays |-> NoTick] /\ jobs = [e \in Events |-> NoJob]
      /\ runs = [e \in Events |-> 0] /\ stops = 0
      /\ fixtures = {} /\ starred = {} /\ sync = [s \in Syncers |-> Idle]
      /\ synced = {} /\ unannounced = {}
  BY DEF Init, OutboxInit
<1>2. Emitted = {} /\ outbox \in Seq(Rows) /\ DOMAIN outbox = {}
  BY <1>1 DEF Emitted
<1>3. NoTick \in Ticks /\ NoTick.at = "idle" /\ DOMAIN NoTick.batch = {}
  BY DEF NoTick, Ticks
<1>4. NoJob \in JobRows /\ NoJob.state = "absent" /\ NoJob.attempts = 0
  BY DEF NoJob, JobRows
<1>5. QueueTyped
  BY <1>1, <1>2, <1>3, <1>4 DEF QueueTyped
<1>6. CatalogTyped
  BY <1>1 DEF CatalogTyped
<1>7. NoneLost
  BY <1>1, <1>2, <1>3, <1>4 DEF NoneLost
<1>8. RunsCounted
  BY <1>1, <1>4, OutboxAssumption DEF RunsCounted
<1>9. Announced
  BY <1>1, <1>2 DEF Announced, Announcing, Idle
<1>10. StarsKept
  BY <1>1, <1>4 DEF StarsKept
<1> QED
  BY <1>5, <1>6, <1>7, <1>8, <1>9, <1>10 DEF IInv

LEMMA StutterKeeps ==
  ASSUME IInv, UNCHANGED vars
  PROVE  IInv' /\ Emitted' = Emitted
<1>1. UNCHANGED <<outbox, relay, jobs, runs, stops, fixtures, starred, sync, synced, unannounced>>
  BY DEF vars, outboxVars
<1>2. Emitted' = Emitted
  BY <1>1 DEF Emitted
<1>3. QueueTyped' /\ NoneLost' /\ RunsCounted'
  BY <1>1, <1>2 DEF IInv, QueueTyped, NoTick, NoneLost, RunsCounted
<1> QED
  BY <1>1, <1>2, <1>3 DEF IInv, CatalogTyped, Syncing, Resolving, Announced, Announcing,
     Current, StarsKept

LEMMA RecomputeKeeps ==
  ASSUME IInv, NEW f \in Events, Recompute(f)
  PROVE  IInv' /\ Emitted' = Emitted
<1>1. /\ UNCHANGED <<outbox, relay, jobs, runs, stops, fixtures, sync, synced, unannounced>>
      /\ starred' = starred \cup {f}
  BY DEF Recompute, Compute, outboxVars
<1>2. Emitted' = Emitted
  BY <1>1 DEF Emitted
<1>3. QueueTyped' /\ NoneLost' /\ RunsCounted'
  BY <1>1, <1>2 DEF IInv, QueueTyped, NoTick, NoneLost, RunsCounted
<1> QED
  BY <1>1, <1>2, <1>3 DEF IInv, CatalogTyped, Syncing, Resolving, Announced, Announcing,
     Current, StarsKept

LEMMA NextKeeps == IInv /\ [Next]_vars => IInv'
<1> SUFFICES ASSUME IInv, [Next]_vars PROVE IInv'
  OBVIOUS
<1>1. CASE UNCHANGED vars
  BY <1>1, StutterKeeps
<1>2. ASSUME NEW s \in Syncers, SyncDate(s) \/ SyncStep(s) \/ SyncStops(s) PROVE IInv'
  BY <1>2, SyncKeeps, WriteKeeps, EmitKeeps, StopKeeps DEF SyncStep
<1>3. ASSUME NEW f \in Events, HandleSynced(f) \/ Recompute(f) PROVE IInv'
  BY <1>3, HandlerKeeps, RecomputeKeeps
<1>4. ASSUME NEW r \in Relays, RelayStep(r) \/ RelayAddFails(r) \/ RelayStops(r), UNCHANGED catalogVars
      PROVE  IInv'
  BY <1>4, RelayKeeps
<1>5. ASSUME NEW f \in Events, JobStarts(f) \/ JobFails(f), UNCHANGED catalogVars PROVE IInv'
  BY <1>5, JobKeeps
<1> QED
  BY <1>1, <1>2, <1>3, <1>4, <1>5 DEF Next

THEOREM CatalogInvariant == Spec => []IInv
<1> QED
  BY InitIInv, NextKeeps, PTL DEF Spec

-----------------------------------------------------------------------------
(* What the queue keeps                                                    *)

(* A handler runs again only after an attempt that failed, whatever relays *)
(* and worker stop between: outbox.relay.ts adds the job under the event's *)
(* id, and the queue keeps the ids of done jobs.                           *)
THEOREM HandlerRunsOnce == Spec => []RunsOnce
<1>1. ASSUME IInv, NEW e \in Events PROVE runs[e] <= jobs[e].attempts + 1
  <2>1. jobs[e].attempts \in Nat
    BY <1>1 DEF IInv, QueueTyped, JobRows
  <2> QED
    BY <1>1, <2>1 DEF IInv, RunsCounted
<1>2. IInv => RunsOnce
  BY <1>1 DEF RunsOnce
<1> QED
  BY <1>2, CatalogInvariant, PTL

(* No event's handler is started more often than its job has attempts.     *)
THEOREM RunsBounded == Spec => [](\A e \in Events : runs[e] <= MaxAttempts)
<1>1. ASSUME IInv, NEW e \in Events PROVE runs[e] <= MaxAttempts
  <2>1. jobs[e].attempts \in Nat /\ MaxAttempts \in Nat
    BY <1>1, OutboxAssumption DEF IInv, QueueTyped, JobRows
  <2> QED
    BY <1>1, <2>1 DEF IInv, RunsCounted
<1>2. IInv => \A e \in Events : runs[e] <= MaxAttempts
  BY <1>1
<1> QED
  BY <1>2, CatalogInvariant, PTL

(* An event has one row; the row waits for a relay until its job is in the *)
(* queue, and the job stays there whatever becomes of it.                  *)
OneRowEach == \A i, j \in DOMAIN outbox : outbox[i].event = outbox[j].event => i = j

PublishedQueued ==
  \A i \in DOMAIN outbox : outbox[i].published => jobs[outbox[i].event].state # "absent"

THEOREM NoEventLost == Spec => [](OneRowEach /\ PublishedQueued)
<1>1. IInv => OneRowEach /\ PublishedQueued
  BY DEF IInv, Announced, NoneLost, OneRowEach, PublishedQueued
<1> QED
  BY <1>1, CatalogInvariant, PTL

(* The steps that settle an event, and those that leave all settled ones.  *)
LEMMA SettledKept ==
  ASSUME IInv, Emitted' = Emitted,
         \A e \in Events : jobs'[e].state \in {"completed", "failed"} <=>
                           jobs[e].state \in {"completed", "failed"}
  PROVE  UNCHANGED Promise!vars
<1>1. Settled' = Settled
  BY DEF Settled
<1> QED
  BY <1>1 DEF Promise!vars

LEMMA JobSettles ==
  ASSUME IInv, Emitted' = Emitted, NEW f \in Events, jobs[f].state = "active",
         \A e \in Events \ {f} : jobs'[e] = jobs[e], jobs'[f].state \in {"completed", "failed"}
  PROVE  Promise!Settle(f)
<1>1. Settled' = Settled \cup {f} /\ f \notin Settled
  BY DEF Settled
<1>2. f \in Emitted
  BY DEF IInv, NoneLost
<1> QED
  BY <1>1, <1>2 DEF Promise!Settle

(* The safety half of the outbox's promise (Delivery): every step emits a  *)
(* new event, settles one that is owed, or leaves both sets alone.  No     *)
(* step loses an event or settles it twice.                                *)
THEOREM DeliverySafe == Spec => Promise!Init /\ [][Promise!Next]_(Promise!vars)
<1>1. Init => Promise!Init
  <2> SUFFICES ASSUME Init PROVE Promise!Init
    OBVIOUS
  <2>1. outbox = << >> /\ jobs = [e \in Events |-> NoJob]
    BY DEF Init, OutboxInit
  <2>2. Emitted = {} /\ Settled = {}
    BY <2>1 DEF Emitted, Settled, NoJob
  <2> QED
    BY <2>2 DEF Promise!Init
<1>2. IInv /\ [Next]_vars => [Promise!Next]_(Promise!vars)
  <2> SUFFICES ASSUME IInv, [Next]_vars PROVE [Promise!Next]_(Promise!vars)
    OBVIOUS
  <2>0. jobs \in [Events -> JobRows]
    BY DEF IInv, QueueTyped
  <2>1. CASE UNCHANGED vars \/ \E f \in Events : Recompute(f)
    <3>1. UNCHANGED jobs /\ Emitted' = Emitted
      BY <2>1, StutterKeeps, RecomputeKeeps DEF vars, outboxVars, Recompute
    <3> QED
      BY <3>1, SettledKept
  <2>2. ASSUME NEW s \in Syncers, SyncDate(s) \/ SyncStep(s) \/ SyncStops(s)
        PROVE  [Promise!Next]_(Promise!vars)
    <3>1. UNCHANGED jobs /\ Settled' = Settled
      BY <2>2 DEF SyncDate, SyncStep, SyncStops, FindRef, Resolve, CreateParent, WriteFixture,
         EmitSynced, outboxVars, Settled
    <3>2. CASE EmitSynced(s)
      <4>1. Current(s) \in Events /\ Current(s) \notin Emitted /\ Emitted' = Emitted \cup {Current(s)}
        <5>1. Current(s) \in Events
          BY <3>2 DEF IInv, Announced, CatalogTyped, EmitSynced, Announcing
        <5> QED
          BY <3>2, <5>1, EmitKeeps
      <4>2. Settled \subseteq Emitted
        BY DEF IInv, NoneLost, Settled
      <4>3. Promise!Emit(Current(s))
        BY <3>1, <4>1, <4>2 DEF Promise!Emit
      <4> QED
        BY <4>1, <4>3 DEF Promise!Next
    <3>3. CASE ~EmitSynced(s)
      <4>1. UNCHANGED outbox
        BY <2>2, <3>3 DEF SyncDate, SyncStep, SyncStops, FindRef, Resolve, CreateParent,
           WriteFixture, outboxVars
      <4>2. Emitted' = Emitted
        BY <4>1 DEF Emitted
      <4> QED
        BY <3>1, <4>2, SettledKept
    <3> QED
      BY <3>2, <3>3
  <2>3. ASSUME NEW f \in Events, HandleSynced(f) PROVE [Promise!Next]_(Promise!vars)
    <3>1. /\ jobs' = [jobs EXCEPT ![f].state = "completed"] /\ jobs[f].state = "active"
          /\ Emitted' = Emitted
      BY <2>3 DEF HandleSynced, JobDone, Emitted
    <3>2. jobs'[f].state = "completed" /\ \A e \in Events \ {f} : jobs'[e] = jobs[e]
      BY <2>0, <3>1 DEF JobRows
    <3> QED
      BY <3>1, <3>2, JobSettles DEF Promise!Next
  <2>4. ASSUME NEW r \in Relays, RelayStep(r) \/ RelayAddFails(r) \/ RelayStops(r)
        PROVE  [Promise!Next]_(Promise!vars)
    <3>1. Emitted' = Emitted
      <4>1. CASE RelayMark(r)
        BY <4>1, MarkedRows DEF RelayMark, IInv, QueueTyped
      <4>2. CASE ~RelayMark(r)
        BY <2>4, <4>2 DEF RelayStep, RelayRead, RelayAdd, RelayAddFails, RelayStops, Emitted
      <4> QED
        BY <4>1, <4>2
    <3>2. \A e \in Events : jobs'[e].state \in {"completed", "failed"} <=>
                            jobs[e].state \in {"completed", "failed"}
      <4>1. CASE RelayAdd(r)
        BY <2>0, <4>1 DEF RelayAdd, JobRows
      <4>2. CASE ~RelayAdd(r)
        BY <2>4, <4>2 DEF RelayStep, RelayRead, RelayMark, RelayAddFails, RelayStops
      <4> QED
        BY <4>1, <4>2
    <3> QED
      BY <3>1, <3>2, SettledKept
  <2>5. ASSUME NEW f \in Events, JobStarts(f) PROVE [Promise!Next]_(Promise!vars)
    <3>1. /\ jobs' = [jobs EXCEPT ![f].state = "active"] /\ jobs[f].state = "waiting"
          /\ Emitted' = Emitted
      BY <2>5 DEF JobStarts, Emitted
    <3> QED
      BY <2>0, <3>1, SettledKept DEF JobRows
  <2>6. ASSUME NEW f \in Events, JobFails(f) PROVE [Promise!Next]_(Promise!vars)
    <3>1. /\ jobs[f].state = "active" /\ Emitted' = Emitted
          /\ \A e \in Events \ {f} : jobs'[e] = jobs[e]
          /\ jobs'[f].state \in {"waiting", "failed"}
      BY <2>0, <2>6 DEF JobFails, Emitted
    <3>2. CASE jobs'[f].state = "failed"
      BY <3>1, <3>2, JobSettles DEF Promise!Next
    <3>3. CASE jobs'[f].state = "waiting"
      <4>1. \A e \in Events : jobs'[e].state \in {"completed", "failed"} <=>
                              jobs[e].state \in {"completed", "failed"}
        BY <3>1, <3>3
      <4> QED
        BY <3>1, <4>1, SettledKept
    <3> QED
      BY <3>1, <3>2, <3>3
  <2> QED
    BY <2>1, <2>2, <2>3, <2>4, <2>5, <2>6 DEF Next
<1> QED
  BY <1>1, <1>2, CatalogInvariant, PTL DEF Spec

-----------------------------------------------------------------------------
(* What the catalog keeps                                                  *)

(* Every fixture with a row has its stars, or is on the way to them: its   *)
(* sync is about to announce it, or its event is owed; or the reason is on *)
(* record: the sync was stopped there, or the job ran out of attempts.     *)
(* (What StarsFollow, the liveness property, leads out of.)                *)
StarsAccounted ==
  \A f \in fixtures :
    \/ f \in starred \cup unannounced \/ jobs[f].state = "failed"
    \/ f \in Emitted \ Settled
    \/ \E s \in Syncers : Announcing(s) /\ Current(s) = f

THEOREM StarsAreAccounted == Spec => []StarsAccounted
<1>1. ASSUME IInv, NEW f \in fixtures, f \notin starred \cup unannounced, jobs[f].state # "failed"
      PROVE  f \in Emitted \ Settled \/ \E s \in Syncers : Announcing(s) /\ Current(s) = f
  <2>1. f \in Events /\ jobs[f].state # "completed"
    BY <1>1 DEF IInv, CatalogTyped, StarsKept
  <2>2. f \notin Settled
    BY <1>1, <2>1 DEF Settled
  <2> QED
    BY <1>1, <2>2 DEF IInv, Announced
<1>2. IInv => StarsAccounted
  BY <1>1 DEF StarsAccounted
<1> QED
  BY <1>2, CatalogInvariant, PTL

-----------------------------------------------------------------------------
(* The worker's other jobs: the leaderboard it pushes and the statistics   *)
(* it rebuilds, proved for any number of contests, of requests beside one  *)
(* another and of failed attempts.  Whoever reads may be late; either what *)
(* will make up for it is in the queue, or the history says what happened. *)

Stale(changes) == changes \notin {None, board}

Pending == \E j \in Tasks : Unbusted(j)

Recomputes == {"recompute", "predictions", "upsert"}

PageTyped ==
  /\ DOMAIN tasks = Tasks /\ DOMAIN phase = ToSet(Contests) /\ DOMAIN request = Requests
  /\ \A j \in Tasks : tasks[j].at \in Recomputes => j[1] = "prizes.distributed"
  /\ \A r \in Requests : request[r].at = "set" => DOMAIN request[r] = {"at", "changes", "old"}

(* A reader that missed the last change will be followed by its removal,   *)
(* or a removal has passed it.                                             *)
ReadersCovered ==
  \A r \in Requests :
    request[r].at = "set" /\ ~request[r].old /\ Stale(request[r].changes) => Pending

(* No contest settles without a recomputation that reads it still to come, *)
(* while one runs at a time.                                               *)
Alone == ~beside => \A i, j \in Recomputing : i = j

Due == \E j \in Tasks : tasks[j].at = "recompute"

HasRead(j) ==
  tasks[j].settled = SettledContests /\ (tasks[j].at = "upsert" => tasks[j].scored = ScoredContests)

ReadsCurrent ==
  ~beside /\ SettledContests = ScoredContests /\ SettledContests # {} /\ ~Due =>
    IF Recomputing = {} THEN stats = StatsOf[SettledContests, SettledContests]
    ELSE \A j \in Recomputing : HasRead(j)

PageInv == PageTyped /\ CacheFresh /\ ReadersCovered /\ Alone /\ ReadsCurrent

-----------------------------------------------------------------------------

LEMMA JobFacts ==
  /\ \A t \in Topics : First(t) \in {"push", "distribute", "recompute"}
  /\ \A t \in Topics : First(t) = "recompute" => t = "prizes.distributed"
  /\ \A c : Push(c).at \in {"push", "done"} /\ Push(Watched).at = "push"
  /\ \A j \in Tasks : j = <<j[1], j[2]>> /\ j[1] \in Topics /\ j[2] \in ToSet(Contests)
  /\ \A c \in ToSet(Contests), t \in Topics : <<t, c>> \in Tasks
BY DEF First, Push, Tasks, Topics

LEMMA PageInit == ReadInit => PageInv
<1> SUFFICES ASSUME ReadInit PROVE PageInv
  OBVIOUS
<1>1. /\ tasks = [j \in Tasks |-> NoTask] /\ phase = [c \in ToSet(Contests) |-> "open"]
      /\ request = [r \in Requests |-> Free] /\ cache = None
  BY DEF ReadInit
<1>2. NoTask.at = "none" /\ Free.at = "free"
  BY DEF NoTask, Free
<1>3. PageTyped
  BY <1>1, <1>2 DEF PageTyped, Recomputes
<1>4. CacheFresh /\ ReadersCovered
  BY <1>1, <1>2 DEF CacheFresh, ReadersCovered
<1>5. Recomputing = {} /\ SettledContests = {}
  BY <1>1, <1>2 DEF Recomputing, SettledContests
<1> QED
  BY <1>3, <1>4, <1>5 DEF PageInv, Alone, ReadsCurrent

(* The statistics' half, of a step that leaves contests and recomputations *)
(* alone, but for one of these starting over.                              *)
LEMMA StatsKept ==
  ASSUME Alone, ReadsCurrent, UNCHANGED <<phase, stats, beside>>, DOMAIN tasks' = Tasks,
         \A j \in Tasks :
           \/ tasks'[j] = tasks[j]
           \/ tasks'[j].at = "recompute"
           \/ tasks[j].at \notin Recomputes /\ tasks'[j].at \notin Recomputes
  PROVE  Alone' /\ ReadsCurrent'
<1>1. SettledContests' = SettledContests /\ ScoredContests' = ScoredContests
  BY DEF SettledContests, ScoredContests
<1>2. Recomputing' \subseteq Recomputing /\ \A j \in Recomputing' : tasks'[j] = tasks[j]
  BY DEF Recomputing, Recomputes
<1>3. ~Due' => ~Due /\ Recomputing' = Recomputing
  BY <1>2 DEF Due, Recomputing, Recomputes
<1>4. Alone'
  BY <1>2 DEF Alone
<1>5. ReadsCurrent'
  BY <1>1, <1>2, <1>3 DEF ReadsCurrent, HasRead
<1> QED
  BY <1>4, <1>5

(* The leaderboard's half, of a step that leaves it alone and no change    *)
(* without its removal.                                                    *)
LEMMA BoardKept ==
  ASSUME CacheFresh, ReadersCovered, UNCHANGED <<cache, late, request>>,
         board' = board \/ Pending', Pending => Pending'
  PROVE  CacheFresh' /\ ReadersCovered'
BY DEF CacheFresh, ReadersCovered, Pending, Stale, None

LEMMA ScoreKeeps ==
  ASSUME PageInv, NEW c \in ToSet(Contests), Score(c)
  PROVE  PageInv'
<1>0. /\ DOMAIN tasks = Tasks /\ DOMAIN phase = ToSet(Contests)
      /\ UNCHANGED <<stats, beside, cache, request, late>> /\ phase[c] = "open"
  BY DEF PageInv, PageTyped, Score, boardVars
<1> DEFINE p == <<"prediction.scored", c>>
           d == <<"contest.scored", c>>
<1>1. /\ tasks' = [tasks EXCEPT ![p] = Push(c), ![d] = [at |-> "distribute"]]
      /\ p \in Tasks /\ d \in Tasks /\ p # d /\ p[2] = c
  BY JobFacts DEF Score, Topics
<1>2. /\ tasks'[p] = Push(c) /\ tasks'[d].at = "distribute" /\ DOMAIN tasks' = Tasks
      /\ \A j \in Tasks \ {p, d} : tasks'[j] = tasks[j]
  BY <1>0, <1>1
<1>3. PageTyped'
  BY <1>0, <1>2, JobFacts DEF PageInv, PageTyped, Score, Recomputes
<1>4. CacheFresh' /\ ReadersCovered'
  <2>1. Pending => Pending'
    <3> SUFFICES ASSUME NEW j \in Tasks, Unbusted(j) PROVE \E i \in Tasks : Unbusted(i)'
      BY DEF Pending
    <3>1. CASE j[2] = c
      BY <1>1, <1>2, <3>1, JobFacts DEF Unbusted
    <3>2. CASE j[2] # c
      BY <1>1, <1>2, <3>2 DEF Unbusted
    <3> QED
      BY <3>1, <3>2
  <2>2. board' = board \/ Pending'
    BY <1>1, <1>2, JobFacts DEF Score, Changed, Pending, Unbusted
  <2> QED
    BY <1>0, <2>1, <2>2, BoardKept DEF PageInv
<1>5. Alone'
  BY <1>0, <1>2, JobFacts DEF PageInv, Alone, Recomputing
<1>6. c \in ScoredContests' \ SettledContests'
  BY <1>0 DEF Score, ScoredContests, SettledContests
<1> QED
  BY <1>3, <1>4, <1>5, <1>6 DEF PageInv, ReadsCurrent

LEMMA DistributeKeeps ==
  ASSUME PageInv, NEW j \in Tasks, Distribute(j)
  PROVE  PageInv'
<1> DEFINE c == j[2]
           s == <<"prizes.distributed", c>>
<1>0. /\ DOMAIN tasks = Tasks /\ DOMAIN phase = ToSet(Contests) /\ c \in ToSet(Contests)
      /\ s \in Tasks /\ s[1] = "prizes.distributed" /\ s[2] = c
      /\ UNCHANGED <<stats, beside, cache, request, late>>
      /\ tasks[j].at \notin Recomputes
  BY JobFacts DEF PageInv, PageTyped, Distribute, boardVars, Topics, Recomputes
<1>1. CASE phase[c] = "settled"
  <2>1. tasks' = [tasks EXCEPT ![j] = Push(c)] /\ UNCHANGED <<phase, board>>
    BY <1>1 DEF Distribute, TaskGoes
  <2>2. /\ tasks'[j] = Push(c) /\ DOMAIN tasks' = Tasks /\ \A i \in Tasks \ {j} : tasks'[i] = tasks[i]
        /\ Push(c).at \in {"push", "done"}
    BY <1>0, <2>1, JobFacts
  <2>3. PageTyped'
    BY <1>0, <2>1, <2>2 DEF PageInv, PageTyped, Recomputes
  <2>4. Pending => Pending'
    <3> SUFFICES ASSUME NEW i \in Tasks, Unbusted(i) PROVE Unbusted(i)'
      BY DEF Pending
    <3> QED
      BY <2>2, JobFacts DEF Unbusted
  <2>5. CacheFresh' /\ ReadersCovered'
    BY <1>0, <2>1, <2>4, BoardKept DEF PageInv
  <2>6. Alone' /\ ReadsCurrent'
    <3>1. \A i \in Tasks :
            \/ tasks'[i] = tasks[i]
            \/ tasks[i].at \notin Recomputes /\ tasks'[i].at \notin Recomputes
      BY <1>0, <2>2 DEF Recomputes
    <3> QED
      BY <1>0, <2>1, <2>2, <3>1, StatsKept DEF PageInv
  <2> QED
    BY <2>3, <2>5, <2>6 DEF PageInv
<1>2. CASE phase[c] # "settled"
  <2>1. /\ tasks' = [tasks EXCEPT ![j] = Push(c), ![s] = [at |-> "recompute"]]
        /\ phase' = [phase EXCEPT ![c] = "settled"] /\ Changed(c)
    BY <1>2 DEF Distribute
  <2>2. /\ tasks'[s].at = "recompute" /\ DOMAIN tasks' = Tasks
        /\ \A i \in Tasks \ {j, s} : tasks'[i] = tasks[i]
        /\ j # s => tasks'[j] = Push(c)
        /\ Push(c).at \in {"push", "done"}
    BY <1>0, <2>1, JobFacts
  <2>3. PageTyped'
    BY <1>0, <2>1, <2>2 DEF PageInv, PageTyped, Recomputes
  <2>4. Pending => Pending'
    <3> SUFFICES ASSUME NEW i \in Tasks, Unbusted(i) PROVE \E k \in Tasks : Unbusted(k)'
      BY DEF Pending
    <3>1. CASE i[2] = c
      BY <1>0, <2>2, <3>1 DEF Unbusted
    <3>2. CASE i[2] # c
      BY <1>0, <2>2, <3>2 DEF Unbusted
    <3> QED
      BY <3>1, <3>2
  <2>5. board' = board \/ Pending'
    BY <1>0, <2>1, <2>2 DEF Changed, Pending, Unbusted
  <2>6. CacheFresh' /\ ReadersCovered'
    BY <1>0, <2>4, <2>5, BoardKept DEF PageInv
  <2>7. Alone'
    BY <1>0, <2>2 DEF PageInv, Alone, Recomputing
  <2>8. Due'
    BY <1>0, <2>2 DEF Due
  <2> QED
    BY <2>3, <2>6, <2>7, <2>8 DEF PageInv, ReadsCurrent
<1> QED
  BY <1>1, <1>2

(* A step of one job: the leaderboard's half, if it still owes a removal   *)
(* it owed before, and the statistics', if it does not recompute.          *)
LEMMA JobGoes ==
  ASSUME PageInv, NEW j \in Tasks, NEW pc, TaskGoes(j, pc),
         pc.at \in Recomputes => j[1] = "prizes.distributed",
         UNCHANGED <<phase, request>>
  PROVE  /\ DOMAIN tasks = Tasks /\ DOMAIN tasks' = Tasks /\ tasks'[j] = pc
         /\ \A i \in Tasks \ {j} : tasks'[i] = tasks[i]
         /\ PageTyped'
         /\ (UNCHANGED <<cache, late, board>> /\ (Unbusted(j) => Unbusted(j)')
              => CacheFresh' /\ ReadersCovered')
         /\ (UNCHANGED <<stats, beside>> /\
               (pc.at = "recompute" \/ (tasks[j].at \notin Recomputes /\ pc.at \notin Recomputes))
              => Alone' /\ ReadsCurrent')
<1>1. /\ DOMAIN tasks = Tasks /\ DOMAIN tasks' = Tasks /\ tasks'[j] = pc
      /\ \A i \in Tasks \ {j} : tasks'[i] = tasks[i]
  BY DEF PageInv, PageTyped, TaskGoes
<1>2. PageTyped'
  BY <1>1 DEF PageInv, PageTyped
<1>3. UNCHANGED <<cache, late, board>> /\ (Unbusted(j) => Unbusted(j)')
        => CacheFresh' /\ ReadersCovered'
  <2> SUFFICES ASSUME UNCHANGED <<cache, late, board>>, Unbusted(j) => Unbusted(j)'
               PROVE  CacheFresh' /\ ReadersCovered'
    OBVIOUS
  <2>1. \A i \in Tasks \ {j} : Unbusted(i) => Unbusted(i)'
    BY <1>1 DEF Unbusted
  <2>2. Pending => Pending'
    BY <2>1 DEF Pending
  <2> QED
    BY <2>2, BoardKept DEF PageInv
<1>4. UNCHANGED <<stats, beside>> /\
        (pc.at = "recompute" \/ (tasks[j].at \notin Recomputes /\ pc.at \notin Recomputes))
        => Alone' /\ ReadsCurrent'
  BY <1>1, StatsKept DEF PageInv
<1> QED
  BY <1>1, <1>2, <1>3, <1>4

LEMMA RowKeeps ==
  ASSUME PageInv, NEW j \in Tasks, ReadEntries(j) \/ ReadPredictions(j) \/ UpsertStats(j)
  PROVE  PageInv'
<1>0. /\ UNCHANGED <<phase, board, cache, request, late>> /\ tasks[j].at \in Recomputes
      /\ j[1] = "prizes.distributed"
  BY DEF ReadEntries, ReadPredictions, UpsertStats, boardVars, PageInv, PageTyped,
     Recomputes
<1>1. SettledContests' = SettledContests /\ ScoredContests' = ScoredContests
  BY <1>0 DEF SettledContests, ScoredContests
<1>2. ASSUME ReadEntries(j) PROVE PageInv'
  <2> DEFINE pc == [at |-> "predictions", settled |-> SettledContests]
  <2>1. TaskGoes(j, pc) /\ UNCHANGED stats /\ beside' = (beside \/ Recomputing # {})
    BY <1>2 DEF ReadEntries
  <2>2. pc.at = "predictions" /\ pc.settled = SettledContests
    OBVIOUS
  <2> HIDE DEF pc
  <2>3. /\ DOMAIN tasks' = Tasks /\ tasks'[j] = pc /\ \A i \in Tasks \ {j} : tasks'[i] = tasks[i]
        /\ PageTyped' /\ CacheFresh' /\ ReadersCovered'
    BY <1>0, <2>1, <2>2, JobGoes DEF Unbusted, Recomputes
  <2>4. ~beside' => Recomputing = {} /\ Recomputing' = {j}
    BY <2>1, <2>2, <2>3 DEF Recomputing
  <2>5. Alone'
    BY <2>4 DEF Alone
  <2>6. ReadsCurrent'
    BY <1>1, <2>2, <2>3, <2>4 DEF ReadsCurrent, HasRead
  <2> QED
    BY <2>3, <2>5, <2>6 DEF PageInv
<1>3. ASSUME ReadPredictions(j) PROVE PageInv'
  <2> DEFINE pc == [at |-> "upsert", settled |-> tasks[j].settled, scored |-> ScoredContests]
  <2>1. TaskGoes(j, pc) /\ UNCHANGED <<stats, beside>> /\ tasks[j].at = "predictions"
    BY <1>3 DEF ReadPredictions
  <2>2. pc.at = "upsert" /\ pc.settled = tasks[j].settled /\ pc.scored = ScoredContests
    OBVIOUS
  <2> HIDE DEF pc
  <2>3. /\ DOMAIN tasks' = Tasks /\ tasks'[j] = pc /\ \A i \in Tasks \ {j} : tasks'[i] = tasks[i]
        /\ PageTyped' /\ CacheFresh' /\ ReadersCovered'
    BY <1>0, <2>1, <2>2, JobGoes DEF Unbusted, Recomputes
  <2>4. Recomputing' = Recomputing /\ (Due' <=> Due) /\ j \in Recomputing
    BY <2>1, <2>2, <2>3 DEF Recomputing, Due
  <2>5. Alone'
    BY <2>1, <2>4 DEF PageInv, Alone
  <2>6. ReadsCurrent'
    <3> SUFFICES ASSUME ~beside, SettledContests = ScoredContests, SettledContests # {}, ~Due
                 PROVE  \A i \in Recomputing' : HasRead(i)'
      BY <1>1, <2>1, <2>4 DEF ReadsCurrent
    <3>1. Recomputing = {j} /\ HasRead(j)
      BY <2>4 DEF PageInv, Alone, ReadsCurrent
    <3> QED
      BY <1>1, <2>2, <2>3, <2>4, <3>1 DEF HasRead
  <2> QED
    BY <2>3, <2>5, <2>6 DEF PageInv
<1>4. ASSUME UpsertStats(j) PROVE PageInv'
  <2>1. /\ TaskGoes(j, Push(j[2])) /\ UNCHANGED beside /\ tasks[j].at = "upsert"
        /\ stats' = StatsOf[tasks[j].settled, tasks[j].scored]
    BY <1>4 DEF UpsertStats, Upserted
  <2>2. Push(j[2]).at \in {"push", "done"} /\ (j[2] = Watched => Push(j[2]).at = "push")
    BY JobFacts
  <2>3. /\ DOMAIN tasks' = Tasks /\ tasks'[j] = Push(j[2]) /\ \A i \in Tasks \ {j} : tasks'[i] = tasks[i]
        /\ PageTyped' /\ CacheFresh' /\ ReadersCovered'
    BY <1>0, <2>1, <2>2, JobGoes DEF Unbusted, Recomputes
  <2>4. Recomputing' = Recomputing \ {j} /\ (Due' <=> Due) /\ j \in Recomputing
    BY <2>1, <2>2, <2>3 DEF Recomputing, Due
  <2>5. Alone'
    BY <2>1, <2>3, <2>4 DEF PageInv, Alone
  <2>6. ReadsCurrent'
    <3> SUFFICES ASSUME ~beside, SettledContests = ScoredContests, SettledContests # {}, ~Due
                 PROVE  Recomputing' = {} /\ stats' = StatsOf[SettledContests, SettledContests]
      BY <1>1, <2>1, <2>4 DEF ReadsCurrent
    <3>1. Recomputing = {j}
      BY <2>4 DEF PageInv, Alone
    <3>2. tasks[j].settled = SettledContests /\ tasks[j].scored = SettledContests
      BY <2>1, <2>4 DEF PageInv, ReadsCurrent, HasRead
    <3> QED
      BY <2>1, <2>4, <3>1, <3>2
  <2> QED
    BY <2>3, <2>5, <2>6 DEF PageInv
<1> QED
  BY <1>2, <1>3, <1>4

(* The cached leaderboard is removed, and so is what its readers know.     *)
LEMMA PushKeeps ==
  ASSUME PageInv, NEW j \in Tasks, Bust(j) \/ Publish(j) \/ TaskFails(j)
  PROVE  PageInv'
<1>1. ASSUME Bust(j) PROVE PageInv'
  <2>1. /\ TaskGoes(j, [at |-> "publish"]) /\ tasks[j].at = "push" /\ UNCHANGED <<phase, stats, beside>>
        /\ cache' = None /\ DOMAIN tasks = Tasks
        /\ request' = [r \in Requests |->
             IF request[r].at = "set" THEN [request[r] EXCEPT !.old = TRUE] ELSE request[r]]
    BY <1>1 DEF Bust, PageInv, PageTyped
  <2>2. DOMAIN tasks' = Tasks /\ tasks'[j].at = "publish" /\ \A i \in Tasks \ {j} : tasks'[i] = tasks[i]
    BY <2>1 DEF TaskGoes
  <2>3. /\ DOMAIN request' = Requests
        /\ \A r \in Requests : request'[r].at = "set" =>
             request'[r].old /\ DOMAIN request'[r] = {"at", "changes", "old"}
    <3>1. DOMAIN request' = Requests
      BY <2>1
    <3>2. ASSUME NEW r \in Requests, request'[r].at = "set"
          PROVE  request'[r].old /\ DOMAIN request'[r] = {"at", "changes", "old"}
      <4>1. /\ request[r].at = "set" => request'[r] = [request[r] EXCEPT !.old = TRUE]
            /\ request[r].at # "set" => request'[r] = request[r]
        BY <2>1
      <4>2. request[r].at = "set" /\ DOMAIN request[r] = {"at", "changes", "old"}
        BY <3>2, <4>1 DEF PageInv, PageTyped
      <4> QED
        BY <4>1, <4>2
    <3> QED
      BY <3>1, <3>2
  <2>4. PageTyped'
    BY <2>1, <2>2, <2>3 DEF PageInv, PageTyped, Recomputes
  <2>5. CacheFresh' /\ ReadersCovered'
    BY <2>1, <2>3 DEF CacheFresh, ReadersCovered, None
  <2>6. Alone' /\ ReadsCurrent'
    <3>1. \A i \in Tasks :
            \/ tasks'[i] = tasks[i]
            \/ tasks[i].at \notin Recomputes /\ tasks'[i].at \notin Recomputes
      BY <2>1, <2>2 DEF Recomputes
    <3> QED
      BY <2>1, <2>2, <3>1, StatsKept DEF PageInv
  <2> QED
    BY <2>4, <2>5, <2>6 DEF PageInv
<1>2. ASSUME Publish(j) PROVE PageInv'
  <2>1. /\ TaskGoes(j, [at |-> "done"]) /\ tasks[j].at = "publish"
        /\ UNCHANGED <<phase, board, cache, request, stats, late, beside>>
    BY <1>2 DEF Publish
  <2> QED
    BY <2>1, JobGoes DEF PageInv, Unbusted, Recomputes
<1>3. ASSUME TaskFails(j) PROVE PageInv'
  <2> DEFINE pc == [at |-> First(j[1])]
  <2>1. /\ TaskGoes(j, pc) /\ pc.at = First(j[1])
        /\ UNCHANGED <<phase, board, cache, request, stats, late, beside>>
    BY <1>3 DEF TaskFails, boardVars
  <2>2. /\ First(j[1]) \in {"push", "distribute", "recompute"}
        /\ First(j[1]) = "recompute" <=> j[1] = "prizes.distributed"
    BY JobFacts DEF First
  <2>3. tasks[j].at \in Recomputes => j[1] = "prizes.distributed"
    BY DEF PageInv, PageTyped
  <2>6. pc.at = "recompute" \/ (tasks[j].at \notin Recomputes /\ pc.at \notin Recomputes)
    BY <2>2, <2>3 DEF Recomputes
  <2>7. pc.at \in Recomputes => j[1] = "prizes.distributed"
    BY <2>2 DEF Recomputes
  <2> HIDE DEF pc
  <2>4. tasks'[j] = pc
    BY <2>1 DEF PageInv, PageTyped, TaskGoes
  <2>5. Unbusted(j) => Unbusted(j)'
    BY <2>1, <2>2, <2>4 DEF Unbusted
  <2> QED
    BY <2>1, <2>5, <2>6, <2>7, JobGoes DEF PageInv
<1> QED
  BY <1>1, <1>2, <1>3

(* A request reads what there is and may keep it too long; whoever is to   *)
(* remove it afterwards is already waiting.                                *)
LEMMA RequestKeeps ==
  ASSUME PageInv, NEW r \in Requests,
         CacheHit(r) \/ CacheMiss(r) \/ CacheSet(r) \/ PageFetch(r)
  PROVE  PageInv'
<1>0. /\ UNCHANGED <<phase, tasks, board, stats, beside>> /\ DOMAIN request = Requests
      /\ DOMAIN tasks' = Tasks
  BY DEF CacheHit, CacheMiss, CacheSet, PageFetch, RequestsOnly, PageInv, PageTyped
<1>1. \E pc : /\ request' = [request EXCEPT ![r] = pc]
              /\ pc.at = "set" => pc = [at |-> "set", changes |-> board, old |-> FALSE]
  BY DEF CacheHit, CacheMiss, CacheSet, PageFetch, Answer, Serving, Free
<1>2. /\ DOMAIN request' = Requests /\ \A q \in Requests \ {r} : request'[q] = request[q]
      /\ request'[r].at = "set" => request'[r] = [at |-> "set", changes |-> board, old |-> FALSE]
  BY <1>0, <1>1
<1>3. PageTyped'
  BY <1>0, <1>2 DEF PageInv, PageTyped
<1>4. Pending' <=> Pending
  BY <1>0 DEF Pending, Unbusted
<1>5. ReadersCovered'
  BY <1>0, <1>2, <1>4 DEF PageInv, ReadersCovered, Stale
<1>6. CacheFresh'
  <2>1. CASE UNCHANGED <<cache, late>>
    BY <1>0, <1>4, <2>1 DEF PageInv, CacheFresh, Pending, None
  <2>2. CASE CacheSet(r)
    <3>1. cache' = request[r].changes /\ late' = request[r].old /\ request[r].at = "set"
      BY <2>2 DEF CacheSet
    <3> QED
      BY <1>0, <1>4, <3>1 DEF PageInv, ReadersCovered, CacheFresh, Pending, Stale, None
  <2> QED
    BY <2>1, <2>2 DEF CacheHit, CacheMiss, PageFetch
<1>7. Alone' /\ ReadsCurrent'
  BY <1>0, StatsKept DEF PageInv
<1> QED
  BY <1>3, <1>5, <1>6, <1>7 DEF PageInv

LEMMA PageKeeps == PageInv /\ [ReadNext]_readVars => PageInv'
<1> SUFFICES ASSUME PageInv, [ReadNext]_readVars PROVE PageInv'
  OBVIOUS
<1>1. CASE UNCHANGED readVars \/ Join \/ CacheExpires
  <2>1. /\ UNCHANGED <<phase, tasks, board, stats, beside, request>> /\ DOMAIN tasks' = Tasks
        /\ cache' = None \/ UNCHANGED <<cache, late>>
    BY <1>1 DEF readVars, Join, CacheExpires, RequestsOnly, PageInv, PageTyped
  <2>2. PageTyped'
    BY <2>1 DEF PageInv, PageTyped
  <2>3. Pending' <=> Pending
    BY <2>1 DEF Pending, Unbusted
  <2>4. CacheFresh' /\ ReadersCovered'
    BY <2>1, <2>3 DEF PageInv, CacheFresh, ReadersCovered, Pending, Stale, None
  <2>5. Alone' /\ ReadsCurrent'
    BY <2>1, StatsKept DEF PageInv
  <2> QED
    BY <2>2, <2>4, <2>5 DEF PageInv
<1>2. ASSUME NEW c \in ToSet(Contests), Score(c) PROVE PageInv'
  BY <1>2, ScoreKeeps
<1>3. ASSUME NEW j \in Tasks, TaskStep(j) \/ TaskFails(j) PROVE PageInv'
  BY <1>3, DistributeKeeps, RowKeeps, PushKeeps DEF TaskStep
<1>4. ASSUME NEW r \in Requests, CacheHit(r) \/ CacheMiss(r) \/ CacheSet(r) \/ PageFetch(r)
      PROVE  PageInv'
  BY <1>4, RequestKeeps
<1> QED
  BY <1>1, <1>2, <1>3, <1>4 DEF ReadNext

LEMMA PageInvariant == ReadSpec => []PageInv
  BY PageInit, PageKeeps, PTL DEF ReadSpec

(* Old standings are cached only while their removal is still to come, or  *)
(* by a request that read before one and wrote after it: for any number of *)
(* contests, requests and failed attempts (LeaderboardService, pushLive).  *)
THEOREM BoardIsFresh == ReadSpec => []CacheFresh
<1>1. PageInv => CacheFresh
  BY DEF PageInv
<1> QED
  BY <1>1, PageInvariant, PTL

(* Rebuilding converges: when the worker is done, the player's row is that *)
(* of the settled contests, whatever failed and was run again meanwhile,   *)
(* if no two recomputations ran beside one another (StatsService).         *)
THEOREM StatsAreTruth == ReadSpec => []StatsConverge
<1>1. PageInv => StatsConverge
  <2> SUFFICES ASSUME PageInv, \A j \in Tasks : tasks[j].at \notin {"recompute", "predictions", "upsert"},
                      ~beside, SettledContests = ScoredContests, SettledContests # {}
               PROVE  stats = StatsOf[SettledContests, SettledContests]
    BY DEF StatsConverge
  <2>1. ~Due /\ Recomputing = {}
    BY DEF Due, Recomputing
  <2> QED
    BY <2>1 DEF PageInv, ReadsCurrent
<1> QED
  BY <1>1, PageInvariant, PTL
=============================================================================
