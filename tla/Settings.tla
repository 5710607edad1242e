------------------------------ MODULE Settings ------------------------------
(***************************************************************************)
(* Rules as data: versions of a rule set (scoring rules, and difficulty    *)
(* weights the same way), created and activated by admins, from a page     *)
(* that keeps a form, beside one another; and the hash-chained audit log   *)
(* their calls write to afterwards.                                        *)
(***************************************************************************)
EXTENDS Naturals, Sequences, FiniteSets, FiniteSetsExt

CONSTANTS
  Editors,     \* admins with a settings page of their own
  Keys,        \* markets, or signals, a version gives a number to
  Values,
  Seeded,      \* the numbers of the version the seed creates
  MaxSets,     \* bound: versions
  MaxActivations, MaxStops  \* bounds: activate calls, stops of the API

ASSUME SettingsAssumption ==
  /\ Seeded \in [Keys -> Values]
  /\ IsFiniteSet(Editors)
  /\ {MaxSets, MaxActivations, MaxStops} \subseteq Nat

VARIABLES
  sets,        \* rule-set rows by version: numbers and isActive
  cached,      \* what an admin's page last fetched
  form,        \* its form: numbers, and (history) the version they come from
               \* and the keys the admin changed since
  update,      \* each admin's request
  log,         \* audit rows: the row of the mutation, the row hashed before it
  committed,   \* history: mutations committed
  beside,      \* history: of the last ones, those that did not see another commit
  activations, stops

settingsVars == <<sets, cached, form, update, log, committed, beside, activations, stops>>

NoUpdate == [at |-> "idle"]
ContinueUpdate(a, pc) == update' = [update EXCEPT ![a] = pc]
BeginUpdate(a, pc) == update[a] = NoUpdate /\ ContinueUpdate(a, pc)

ActiveSets == {i \in DOMAIN sets : sets[i].isActive}

(* listRuleSets, newest first, and the page's find(isActive) ?? [0].       *)
Listed == [active |-> ActiveSets, newest |-> Len(sets)]
Shown(list) == IF list.active # {} THEN Max(list.active) ELSE list.newest

(* Mutant: the form starts from the newest version instead.                *)
SeededFormNewest(list) ==
  [numbers |-> sets[list.newest].numbers, base |-> Shown(list), changed |-> {}]

(* The form's effect: an empty form takes the numbers of the version the   *)
(* page shows.                                                             *)
SeededForm(list) ==
  [numbers |-> sets[Shown(list)].numbers, base |-> Shown(list), changed |-> {}]

SettingsInit ==
  /\ sets = <<[numbers |-> Seeded, isActive |-> TRUE]>>
  /\ cached = [a \in Editors |-> Listed]
  /\ form = [a \in Editors |-> SeededForm(Listed)]
  /\ update = [a \in Editors |-> NoUpdate]
  /\ log = << >>
  /\ committed = 0 /\ beside = 0 /\ activations = 0 /\ stops = 0

-----------------------------------------------------------------------------
(* The page                                                                *)

Refetch(a) ==
  /\ cached[a] # Listed
  /\ cached' = [cached EXCEPT ![a] = Listed]
  /\ UNCHANGED <<sets, form, update, log, committed, beside, activations, stops>>

(* A number is changed once per filling of the form.  The form while a     *)
(* save runs is left alone: edits then are lost with the answer, and after *)
(* a failure are as good as later ones.                                    *)
Edit(a, k, v) ==
  /\ update[a] = NoUpdate
  /\ form[a].numbers[k] # v /\ k \notin form[a].changed
  /\ form' = [form EXCEPT ![a].numbers[k] = v, ![a].changed = @ \cup {k}]
  /\ UNCHANGED <<sets, cached, update, log, committed, beside, activations, stops>>

Reload(a) ==
  /\ update[a] = NoUpdate
  /\ form[a] # SeededForm(Listed)
  /\ cached' = [cached EXCEPT ![a] = Listed]
  /\ form' = [form EXCEPT ![a] = SeededForm(Listed)]
  /\ UNCHANGED <<sets, update, log, committed, beside, activations, stops>>

(* The button is there while the form differs from the version shown.      *)
Dirty(a) == form[a].numbers # sets[Shown(cached[a])].numbers

Creating == {a \in Editors : update[a].at \in {"create", "created"}}

Save(a) ==
  /\ Dirty(a)
  /\ Len(sets) + Cardinality(Creating) < MaxSets
  /\ BeginUpdate(a, [at |-> "create"])
  /\ UNCHANGED <<sets, cached, form, log, committed, beside, activations, stops>>

ActivateCall(a, i) ==
  /\ activations < MaxActivations
  /\ BeginUpdate(a, [at |-> "activate", target |-> i])
  /\ activations' = activations + 1
  /\ UNCHANGED <<sets, cached, form, log, committed, beside, stops>>

-----------------------------------------------------------------------------
(* createRuleSet and activateRuleSet: a transaction whose first statement  *)
(* finds the active sets there are, and whose commit has switched those    *)
(* off and the target on.                                                  *)

CreateDeactivate(a) ==
  /\ update[a].at = "create"
  /\ ContinueUpdate(a, [at |-> "created", found |-> ActiveSets, since |-> committed])
  /\ UNCHANGED <<sets, cached, form, log, committed, beside, activations, stops>>

ActivateDeactivate(a) ==
  /\ update[a].at = "activate"
  /\ ContinueUpdate(a, [at |-> "activated", target |-> update[a].target,
                  found |-> ActiveSets, since |-> committed])
  /\ UNCHANGED <<sets, cached, form, log, committed, beside, activations, stops>>

(* Mutant: the sets found active are switched off after the target is on.  *)
SwitchedLast(rows, found, target) ==
  [i \in DOMAIN rows |->
     [rows[i] EXCEPT !.isActive = (@ \/ i = target) /\ i \notin found]]

(* Sets another transaction switched on since are not among those found.   *)
Switched(rows, found, target) ==
  [i \in DOMAIN rows |->
     [rows[i] EXCEPT !.isActive = i = target \/ (@ /\ i \notin found)]]

Commit(a, page) ==
  /\ committed' = committed + 1
  /\ beside' = IF update[a].since = committed THEN 0 ELSE beside + 1
  /\ ContinueUpdate(a, [at |-> "record", page |-> page])

CreateCommit(a) ==
  /\ update[a].at = "created"
  /\ LET row == [numbers |-> form[a].numbers, isActive |-> TRUE]
     IN  sets' = Switched(Append(sets, row), update[a].found, Len(sets) + 1)
  /\ Commit(a, TRUE)
  /\ UNCHANGED <<cached, form, log, activations, stops>>

(* Mutant: activating a version is not recorded.                           *)
ActivateCommitUnrecorded(a) ==
  /\ update[a].at = "activated"
  /\ sets' = Switched(sets, update[a].found, update[a].target)
  /\ committed' = committed + 1
  /\ beside' = IF update[a].since = committed THEN 0 ELSE beside + 1
  /\ ContinueUpdate(a, NoUpdate)
  /\ UNCHANGED <<cached, form, log, activations, stops>>

ActivateCommit(a) ==
  /\ update[a].at = "activated"
  /\ sets' = Switched(sets, update[a].found, update[a].target)
  /\ Commit(a, FALSE)
  /\ UNCHANGED <<cached, form, log, activations, stops>>

-----------------------------------------------------------------------------
(* audit.record, after the commit and outside its transaction              *)

RecordRead(a) ==
  /\ update[a].at = "record"
  /\ ContinueUpdate(a, [at |-> "write", page |-> update[a].page, prev |-> Len(log)])
  /\ UNCHANGED <<sets, cached, form, log, committed, beside, activations, stops>>

(* The answer empties the page's form, which takes the version the page    *)
(* still shows; the list is fetched again later.                           *)
RecordWrite(a) ==
  /\ update[a].at = "write"
  /\ log' = Append(log, [prev |-> update[a].prev])
  /\ form' = IF update[a].page THEN [form EXCEPT ![a] = SeededForm(cached[a])] ELSE form
  /\ ContinueUpdate(a, NoUpdate)
  /\ UNCHANGED <<sets, cached, committed, beside, activations, stops>>

(* The API stops, or a statement fails: the page keeps its form.           *)
Stop(a) ==
  /\ update[a] # NoUpdate /\ stops < MaxStops
  /\ stops' = stops + 1
  /\ ContinueUpdate(a, NoUpdate)
  /\ UNCHANGED <<sets, cached, form, log, committed, beside, activations>>

-----------------------------------------------------------------------------

SettingsNext == \E a \in Editors :
  \/ Refetch(a) \/ Reload(a) \/ Save(a) \/ CreateDeactivate(a) \/ CreateCommit(a)
  \/ \E k \in Keys, v \in Values : Edit(a, k, v)
  \/ \E i \in DOMAIN sets : ActivateCall(a, i)
  \/ ActivateDeactivate(a) \/ ActivateCommit(a)
  \/ RecordRead(a) \/ RecordWrite(a) \/ Stop(a)

SettingsSpec == SettingsInit /\ [][SettingsNext]_settingsVars

-----------------------------------------------------------------------------

(* A contest can always be created, and on one rule set: some version is   *)
(* active, and no more than one of each commit that could not see the one  *)
(* before it, until an activation that sees all of them.                   *)
OneActive ==
  /\ ActiveSets # {}
  /\ Cardinality(ActiveSets) <= 1 + beside

(* A new version changes a number its admin did not touch only if the form *)
(* was filled before the version now active was: lost updates need a stale *)
(* page.                                                                   *)
UntouchedUnlessStale ==
  [][\A a \in Creating :
       Len(sets') > Len(sets) /\ update'[a].at = "record" /\ form[a].base \in ActiveSets
         => \A k \in Keys \ form[a].changed :
              sets'[Len(sets')].numbers[k] = sets[form[a].base].numbers[k]]_settingsVars

(* "Every admin/financial mutation must call record" (audit.service.ts): a *)
(* committed mutation lacks its row only while its call runs or if the     *)
(* call was stopped.  The chain forks, as nothing orders its writers, but  *)
(* into no more rows than there are writers.                               *)
AuditTrail ==
  /\ committed - Len(log)
       <= stops + Cardinality({a \in Editors : update[a].at \in {"record", "write"}})
  /\ \A p \in 0..Len(log) :
       Cardinality({i \in DOMAIN log : log[i].prev = p}) <= Cardinality(Editors)
=============================================================================
