------------------------------ MODULE Catalog ------------------------------
(***************************************************************************)
(* Fixtures from the provider: syncs by the scheduler of each pod and by   *)
(* admins, one beside another, that create rows for what the provider      *)
(* knows; and the difficulty the worker computes for each new fixture, off *)
(* the outbox's fixture.synced.                                            *)
(***************************************************************************)
EXTENDS Outbox, SequencesExt

CONSTANTS
  Fixtures,    \* a day's fixtures at the provider, in its order
  Parents,     \* the refs of a fixture's league and teams
  Syncers      \* the pods' schedulers, and admins

ASSUME CatalogAssumption ==
  /\ Fixtures \in Seq(Events) /\ ToSet(Fixtures) = Events
  /\ DOMAIN Parents = Events

VARIABLES
  known,       \* provider refs of leagues and teams with a row
  fixtures,    \* refs of fixtures with a row
  starred,     \* fixtures with a FixtureDifficulty row
  sync,        \* each syncer's run
  synced,      \* history: syncs begun, each syncer's bound is one
  unannounced  \* history: fixtures whose sync stopped before the event

vars == <<outboxVars, known, fixtures, starred, sync, synced, unannounced>>

Idle == [at |-> "idle"]

Init ==
  /\ OutboxInit
  /\ known = {} /\ fixtures = {}
  /\ starred = {}
  /\ sync = [s \in Syncers |-> Idle]
  /\ synced = {} /\ unannounced = {}

-----------------------------------------------------------------------------
(* syncDate and upsertFixture                                              *)

Goes(s, pc) == sync' = [sync EXCEPT ![s] = pc]

(* The next of the fixtures fetched, or the end.                           *)
NextOf(todo) == IF todo = << >> THEN Idle ELSE [at |-> "find", todo |-> todo]

Current(s) == Head(sync[s].todo)

(* The scheduler's sweep of its days, or an admin's call.  The lock keeps  *)
(* two sweeps apart only while it lasts, and an admin does not ask for it. *)
SyncDate(s) ==
  /\ s \notin synced
  /\ Goes(s, NextOf(Fixtures))
  /\ synced' = synced \cup {s}
  /\ UNCHANGED <<outboxVars, known, fixtures, starred, unannounced>>

FindRef(s) ==
  /\ sync[s].at = "find"
  /\ Goes(s, [at |-> "resolve", todo |-> sync[s].todo, parents |-> Parents[Current(s)],
              found |-> Current(s) \in fixtures])
  /\ UNCHANGED <<outboxVars, known, fixtures, starred, synced, unannounced>>

(* resolveLeague, resolveTeam: found, or a row to create.                  *)
Resolve(s) ==
  /\ sync[s].at = "resolve"
  /\ LET parents == sync[s].parents IN
     Goes(s, IF parents = << >> THEN [sync[s] EXCEPT !.at = "write"]
             ELSE IF Head(parents) \in known THEN [sync[s] EXCEPT !.parents = Tail(@)]
             ELSE [sync[s] EXCEPT !.at = "create"])
  /\ UNCHANGED <<outboxVars, known, fixtures, starred, synced, unannounced>>

(* The unique (provider, providerRef) refuses the second of two creators:  *)
(* its day ends there.                                                     *)
CreateParent(s) ==
  /\ sync[s].at = "create"
  /\ LET ref == Head(sync[s].parents) IN
     /\ known' = known \cup {ref}
     /\ Goes(s, IF ref \in known THEN Idle
                ELSE [sync[s] EXCEPT !.at = "resolve", !.parents = Tail(@)])
  /\ UNCHANGED <<outboxVars, fixtures, starred, synced, unannounced>>

WriteFixture(s) ==
  /\ sync[s].at = "write"
  /\ LET f == Current(s) IN
     IF sync[s].found THEN Goes(s, NextOf(Tail(sync[s].todo))) /\ UNCHANGED fixtures
     ELSE IF f \in fixtures THEN Goes(s, Idle) /\ UNCHANGED fixtures
     ELSE fixtures' = fixtures \cup {f} /\ Goes(s, [sync[s] EXCEPT !.at = "emit"])
  /\ UNCHANGED <<outboxVars, known, starred, synced, unannounced>>

(* fixture.synced, after the row and not in its transaction.               *)
EmitSynced(s) ==
  /\ sync[s].at = "emit"
  /\ Emit(Current(s))
  /\ Goes(s, NextOf(Tail(sync[s].todo)))
  /\ UNCHANGED <<relay, jobs, runs, stops, known, fixtures, starred, synced, unannounced>>

SyncStep(s) ==
  FindRef(s) \/ Resolve(s) \/ CreateParent(s) \/ WriteFixture(s) \/ EmitSynced(s)

SyncStops(s) ==
  /\ sync[s] # Idle /\ stops < MaxStops
  /\ stops' = stops + 1
  /\ unannounced' = IF sync[s].at = "emit" THEN unannounced \cup {Current(s)} ELSE unannounced
  /\ Goes(s, Idle)
  /\ UNCHANGED <<outbox, relay, jobs, runs, known, fixtures, starred, synced>>

-----------------------------------------------------------------------------
(* computeForFixture, neutral stars where the provider's data is missing.  *)

Compute(f) == starred' = starred \cup {f}

HandleSynced(f) ==
  /\ JobDone(f)
  /\ Compute(f)
  /\ UNCHANGED <<outbox, relay, runs, stops, known, fixtures, sync, synced, unannounced>>

(* By an admin; bounded to fixtures whose event is settled or never comes. *)
Recompute(f) ==
  /\ f \in fixtures
  /\ f \in Settled \cup unannounced
  /\ Compute(f)
  /\ UNCHANGED <<outboxVars, known, fixtures, sync, synced, unannounced>>

-----------------------------------------------------------------------------

catalogVars == <<known, fixtures, starred, sync, synced, unannounced>>

Next ==
  \/ \E s \in Syncers : SyncDate(s) \/ SyncStep(s) \/ SyncStops(s)
  \/ \E f \in Events : HandleSynced(f) \/ Recompute(f)
  \/ /\ \/ \E r \in Relays : RelayStep(r) \/ RelayAddFails(r) \/ RelayStops(r)
        \/ \E f \in Events : JobStarts(f) \/ JobFails(f)
     /\ UNCHANGED catalogVars

(* A sync begun goes on, relays tick, and the worker takes its jobs.       *)
Fairness ==
  /\ WF_vars(\E s \in Syncers : SyncStep(s))
  /\ WF_vars((\E r \in Relays : RelayStep(r)) /\ UNCHANGED catalogVars)
  /\ WF_vars(\E f \in Events : (JobStarts(f) /\ UNCHANGED catalogVars) \/ HandleSynced(f))

Spec == Init /\ [][Next]_vars /\ Fairness

-----------------------------------------------------------------------------

(* A fixture that has a row gets its stars, if its sync was not stopped    *)
(* before announcing it (no later sync does: the row is there) and its job *)
(* does not run out of attempts.                                           *)
StarsFollow ==
  \A f \in Events :
    f \in fixtures ~> f \in starred \/ f \in unannounced \/ jobs[f].state = "failed"
=============================================================================
