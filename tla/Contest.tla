------------------------------ MODULE Contest ------------------------------
(***************************************************************************)
(* One contest, from draft to settlement or cancellation, and the money    *)
(* its entry fees move.  Every service call checks what it needs with      *)
(* plain reads and writes in a later transaction; the actions below keep   *)
(* the two apart, so a call acts on what it read, however old.  A          *)
(* transaction that holds the rows it depends on is one step.              *)
(***************************************************************************)
EXTENDS Integers, Sequences, FiniteSets, Functions, Prizes

CONSTANTS
  Users,          \* entrants, one wallet each
  Tabs,           \* prediction builders a user has open
  ClientKeys,     \* idempotency keys submissions carry, any of them from
                  \* any builder: nothing ties one to a user or a contest
  Admins,         \* concurrent admin requests
  Workers,        \* concurrent deliveries of ContestScored
  Matches,        \* the contest's matches
  Escrow, Platform,
  Opening,        \* opening balances
  Fee,            \* entryFeeMinor
  MaxEntries,     \* 0: no limit
  CommissionBps,
  Template,       \* payoutTemplate.structure
  Rank,           \* the order rankEntries sorts the users into
  Prompt,         \* TRUE: publish and submit calls and the lock job, all
                  \* begun or due by kickoff, have ended before a result
  Faults          \* TRUE: a lock job can be lost or use up its attempts

Accounts == Users \cup {Escrow, Platform}

ASSUME ContestAssumption ==
  /\ IsFiniteSet(Users)
  /\ Escrow \notin Users /\ Platform \notin Users /\ Escrow # Platform
  /\ Opening \in [Accounts -> Nat] /\ Opening[Escrow] = 0
  /\ Fee \in Nat \ {0}
  /\ MaxEntries \in Nat
  /\ CommissionBps \in 0 .. 10000
  /\ Rank \in [Users -> Nat]
  /\ \A u, v \in Users : Rank[u] = Rank[v] => u = v
  /\ Prompt \in BOOLEAN /\ Faults \in BOOLEAN

ASSUME TemplateAssumption == TemplatePays(Template)

VARIABLES
  balance, journal,   \* the ledger
  status,             \* Contest.status
  escrowOpen,         \* the escrow account row exists
  kickedOff,          \* lockAt has passed
  lockJob,            \* the delayed lock job
  entry,              \* Entry.status per user, "none" before there is one
  scored,             \* the matches whose predictions are scored, per entry
  prize,              \* Entry.prizeMinor
  finalized,          \* matches whose result is final
  resultEvents,       \* MatchResultFinalized events still to be (re)delivered
  scoredEvent,        \* ContestScored has been emitted
  publishing,         \* publish calls
  submitting,         \* submitSlip calls: past their checks or not
  cancelling,         \* cancel calls and what they read
  scoring,            \* the MatchResultFinalized job of each match
  settling            \* distribute calls and what they read

ledgerVars == <<balance, journal>>
contestVars == <<status, escrowOpen, entry, scored, prize, scoredEvent>>
worldVars == <<kickedOff, lockJob, finalized, resultEvents>>
callVars == <<publishing, submitting, cancelling, scoring, settling>>
vars == <<ledgerVars, contestVars, worldVars, callVars>>

EntryKey(key) == <<"entry", key>>
RefundKey(u) == <<"refund", u>>
SettlementKey == <<"settlement">>

Books == INSTANCE Ledger WITH
  Guarded <- Users \cup {Escrow},
  Keys <- {EntryKey(key) : key \in ClientKeys}
            \cup {RefundKey(u) : u \in Users} \cup {SettlementKey},
  Movements <- [Accounts -> Int]

Posted(key) == Books!Posted(key)

Transfer(from, to, amount) ==
  [a \in Accounts |-> CASE a = from -> -amount [] a = to -> amount [] OTHER -> 0]

Active == {u \in Users : entry[u] = "ACTIVE"}
Entered == {u \in Users : entry[u] # "none"}

(* Who paid a fee into this escrow, who entered on a key already used      *)
(* instead, and who got a fee back.                                        *)
Charged == {u \in Users : \E key \in ClientKeys :
              Posted(EntryKey(key)) /\ journal[EntryKey(key)][u] < 0}
Replayed == Entered \ Charged
Refunded == {u \in Users : Posted(RefundKey(u))}

NotCancelling == [at |-> "idle", seen |-> {}, escrow |-> FALSE]
NotSettling == [at |-> "idle", ranked |-> {}, gross |-> 0]

-----------------------------------------------------------------------------

Init ==
  /\ Books!Init
  /\ status = "DRAFT"
  /\ escrowOpen = FALSE
  /\ kickedOff = FALSE
  /\ lockJob = "none"
  /\ entry = [u \in Users |-> "none"]
  /\ scored = [u \in Users |-> {}]
  /\ prize = [u \in Users |-> 0]
  /\ finalized = {}
  /\ resultEvents = {}
  /\ scoredEvent = FALSE
  /\ publishing = [a \in Admins |-> "idle"]
  /\ submitting = [s \in Users \X Tabs |-> FALSE]
  /\ cancelling = [a \in Admins |-> NotCancelling]
  /\ scoring = [m \in Matches |-> "idle"]
  /\ settling = [w \in Workers |-> NotSettling]

(* The earliest kickoff, frozen into lockAt at publish, comes.             *)
KickOff ==
  /\ ~kickedOff
  /\ kickedOff' = TRUE
  /\ UNCHANGED <<ledgerVars, contestVars, lockJob, finalized, resultEvents, callVars>>

-----------------------------------------------------------------------------
(* publish: check, commit, and only then schedule the lock job.            *)

PublishCheck(a) ==
  /\ publishing[a] = "idle"
  /\ status = "DRAFT"
  /\ ~kickedOff
  /\ publishing' = [publishing EXCEPT ![a] = "checked"]
  /\ UNCHANGED <<ledgerVars, contestVars, worldVars, submitting, cancelling, scoring, settling>>

(* Updates by id, whatever the status is by now; a second escrow for the   *)
(* contest violates a unique key and rolls the call back.                  *)
PublishCommit(a) ==
  /\ publishing[a] = "checked"
  /\ IF escrowOpen
       THEN /\ publishing' = [publishing EXCEPT ![a] = "idle"]
            /\ UNCHANGED <<status, escrowOpen>>
       ELSE /\ publishing' = [publishing EXCEPT ![a] = "committed"]
            /\ status' = "PUBLISHED"
            /\ escrowOpen' = TRUE
  /\ UNCHANGED <<ledgerVars, entry, scored, prize, scoredEvent, worldVars,
                 submitting, cancelling, scoring, settling>>

ScheduleLock(a) ==
  /\ publishing[a] = "committed"
  /\ publishing' = [publishing EXCEPT ![a] = "idle"]
  /\ lockJob' = "scheduled"
  /\ UNCHANGED <<ledgerVars, contestVars, kickedOff, finalized, resultEvents,
                 submitting, cancelling, scoring, settling>>

(* The process stops, or Redis refuses the job, after the commit.          *)
LoseLockJob(a) ==
  /\ Faults
  /\ publishing[a] = "committed"
  /\ publishing' = [publishing EXCEPT ![a] = "idle"]
  /\ UNCHANGED <<ledgerVars, contestVars, worldVars,
                 submitting, cancelling, scoring, settling>>

-----------------------------------------------------------------------------
(* lock: compare-and-set on PUBLISHED, by the delayed job or an admin.     *)

Lock ==
  /\ status' = IF status = "PUBLISHED" THEN "LOCKED" ELSE status
  /\ UNCHANGED <<ledgerVars, escrowOpen, entry, scored, prize, scoredEvent,
                 kickedOff, finalized, resultEvents, callVars>>

RunLockJob ==
  /\ lockJob = "scheduled"
  /\ kickedOff
  /\ lockJob' = "done"
  /\ Lock

(* The job's three attempts all fail.                                      *)
ExhaustLockJob ==
  /\ Faults
  /\ lockJob = "scheduled"
  /\ kickedOff
  /\ lockJob' = "done"
  /\ UNCHANGED <<ledgerVars, contestVars, kickedOff, finalized, resultEvents, callVars>>

ForceLock ==
  /\ status = "PUBLISHED"
  /\ UNCHANGED lockJob
  /\ Lock

-----------------------------------------------------------------------------
(* submitSlip: status, lock time and capacity are checked before the       *)
(* transaction, which checks none of them again.                           *)

Open == status = "PUBLISHED" /\ ~kickedOff
Full == MaxEntries > 0 /\ Cardinality(Active) >= MaxEntries

SubmitCheck(u, t) ==
  /\ ~submitting[<<u, t>>]
  /\ Open
  /\ ~Full
  /\ submitting' = [submitting EXCEPT ![<<u, t>>] = TRUE]
  /\ UNCHANGED <<ledgerVars, contestVars, worldVars, publishing, cancelling, scoring, settling>>

SubmitEnds(u, t) == submitting' = [submitting EXCEPT ![<<u, t>>] = FALSE]

(* Another contest's submission is the first to post under the key; what  *)
(* it moves is on no account of this contest.                              *)
ChargeElsewhere(key) ==
  /\ Books!Post(EntryKey(key), [a \in Accounts |-> 0])
  /\ UNCHANGED <<contestVars, worldVars, callVars>>

(* A fresh key charges the fee; under a used one the ledger returns the    *)
(* earlier journal's id, whoever it charged and for whatever contest, and  *)
(* moves nothing.                                                          *)
ChargeFee(u, key) ==
  IF Posted(EntryKey(key)) THEN UNCHANGED ledgerVars
  ELSE Books!Post(EntryKey(key), Transfer(u, Escrow, Fee))

(* Mutant: a user may hold two entries (no unique (contestId, userId)).    *)
SubmitTwice(u, t, key) ==
  /\ submitting[<<u, t>>]
  /\ ChargeFee(u, key)
  /\ entry' = [entry EXCEPT ![u] = "ACTIVE"]
  /\ SubmitEnds(u, t)
  /\ UNCHANGED <<status, escrowOpen, scored, prize, scoredEvent, worldVars,
                 publishing, cancelling, scoring, settling>>

(* The entry appears together with its fee, or on the strength of the      *)
(* journal its key already names.                                          *)
SubmitCommit(u, t, key) ==
  /\ submitting[<<u, t>>]
  /\ entry[u] = "none"
  /\ ChargeFee(u, key)
  /\ entry' = [entry EXCEPT ![u] = "ACTIVE"]
  /\ SubmitEnds(u, t)
  /\ UNCHANGED <<status, escrowOpen, scored, prize, scoredEvent, worldVars,
                 publishing, cancelling, scoring, settling>>

(* Insufficient funds, a second entry of the user (the unique              *)
(* (contestId, userId) rolls the charge back too), or a lost process.      *)
SubmitFails(u, t) ==
  /\ submitting[<<u, t>>]
  /\ SubmitEnds(u, t)
  /\ UNCHANGED <<ledgerVars, contestVars, worldVars, publishing, cancelling, scoring, settling>>

-----------------------------------------------------------------------------
(* cancel: the entries to refund are those read before the transaction.    *)

CancelRead(a) ==
  /\ cancelling[a].at = "idle"
  /\ status \in {"DRAFT", "PUBLISHED", "LOCKED"}
  /\ cancelling' = [cancelling EXCEPT
       ![a] = [at |-> "read", seen |-> Active, escrow |-> escrowOpen]]
  /\ UNCHANGED <<ledgerVars, contestVars, worldVars, publishing, submitting, scoring, settling>>

CancelEnds(a) == cancelling' = [cancelling EXCEPT ![a] = NotCancelling]

(* Mutant: refunds carry no idempotency key.                               *)
ToRefundUnkeyed(seen) == seen

(* Entries refunded by this call: a used refund key posts nothing.         *)
ToRefund(seen) == {u \in seen : ~Posted(RefundKey(u))}

EscrowAfterRefunds(seen) == balance[Escrow] - Fee * Cardinality(ToRefund(seen))

Refund(seen) ==
  /\ balance' = [a \in Accounts |->
       CASE a = Escrow -> EscrowAfterRefunds(seen)
         [] a \in ToRefund(seen) -> balance[a] + Fee
         [] OTHER -> balance[a]]
  /\ journal' = [k \in DOMAIN journal \cup {RefundKey(u) : u \in ToRefund(seen)} |->
       IF Posted(k) THEN journal[k] ELSE Transfer(Escrow, k[2], Fee)]

(* Mutant: neither the escrow balance nor its emptiness is checked.        *)
CancelUnchecked(a) ==
  LET seen == cancelling[a].seen IN
  /\ cancelling[a].at = "read"
  /\ Refund(seen)
  /\ entry' = [u \in Users |-> IF u \in seen THEN "REFUNDED" ELSE entry[u]]
  /\ status' = "CANCELLED"
  /\ CancelEnds(a)
  /\ UNCHANGED <<escrowOpen, scored, prize, scoredEvent, worldVars,
                 publishing, submitting, scoring, settling>>

(* One transaction: it commits only if the refunds are covered and, when   *)
(* the call had read an escrow account, leave that exactly empty.  The     *)
(* contest is then CANCELLED whatever its status has become.               *)
CancelCommit(a) ==
  LET seen == cancelling[a].seen IN
  /\ cancelling[a].at = "read"
  /\ EscrowAfterRefunds(seen) >= 0
  /\ cancelling[a].escrow => EscrowAfterRefunds(seen) = 0
  /\ Refund(seen)
  /\ entry' = [u \in Users |-> IF u \in seen THEN "REFUNDED" ELSE entry[u]]
  /\ status' = "CANCELLED"
  /\ CancelEnds(a)
  /\ UNCHANGED <<escrowOpen, scored, prize, scoredEvent, worldVars,
                 publishing, submitting, scoring, settling>>

(* The escrow check or a refund fails, or the process stops.               *)
CancelFails(a) ==
  /\ cancelling[a].at = "read"
  /\ CancelEnds(a)
  /\ UNCHANGED <<ledgerVars, contestVars, worldVars, publishing, submitting, scoring, settling>>

-----------------------------------------------------------------------------
(* Results and scoring.                                                    *)

(* Mutant: the event is emitted for a result that was not stored.          *)
FinalizeUnstored(m) ==
  /\ m \notin finalized
  /\ resultEvents' = resultEvents \cup {m}
  /\ UNCHANGED <<ledgerVars, contestVars, kickedOff, lockJob, finalized, callVars>>

(* A match's result becomes final, once.  If Prompt, what began before     *)
(* kickoff has ended by then: a result comes some two hours later.         *)
FinalizeResult(m) ==
  /\ m \notin finalized
  /\ Prompt => /\ kickedOff /\ lockJob # "scheduled"
               /\ \A a \in Admins : publishing[a] = "idle"
               /\ \A s \in Users \X Tabs : ~submitting[s]
  /\ finalized' = finalized \cup {m}
  /\ resultEvents' = resultEvents \cup {m}
  /\ UNCHANGED <<ledgerVars, contestVars, kickedOff, lockJob, callVars>>

Delivered(m) == m \in resultEvents /\ scoring[m] = "idle"

(* The job ends; the queue may deliver the event again all the same.       *)
AckResult(m) == resultEvents' \in {resultEvents, resultEvents \ {m}}

SelectContest(m) ==
  /\ Delivered(m)
  /\ status \in {"LOCKED", "SCORING"}
  /\ scoring' = [scoring EXCEPT ![m] = "selected"]
  /\ UNCHANGED <<ledgerVars, contestVars, worldVars, publishing, submitting, cancelling, settling>>

(* In any other status the contest is passed over, for good.               *)
PassOverContest(m) ==
  /\ Delivered(m)
  /\ status \notin {"LOCKED", "SCORING"}
  /\ resultEvents' = resultEvents \ {m}
  /\ UNCHANGED <<ledgerVars, contestVars, kickedOff, lockJob, finalized, callVars>>

(* One transaction under the contest's advisory lock.                      *)
ScoreMatch(m) ==
  /\ scoring[m] = "selected"
  /\ status' = IF status = "LOCKED" THEN "SCORING" ELSE status
  /\ scored' = [u \in Users |-> IF u \in Entered THEN scored[u] \cup {m} ELSE {}]
  /\ scoring' = [scoring EXCEPT ![m] = "scored"]
  /\ UNCHANGED <<ledgerVars, escrowOpen, entry, prize, scoredEvent, worldVars,
                 publishing, submitting, cancelling, settling>>

AllResultsIn == finalized = Matches
AllScored == \A u \in Entered : scored[u] = Matches

(* Mutant: only the results are counted, not the unscored predictions.     *)
CountResultsOnly(m) ==
  /\ scoring[m] = "scored"
  /\ IF AllResultsIn
       THEN scoring' = [scoring EXCEPT ![m] = "complete"] /\ UNCHANGED resultEvents
       ELSE scoring' = [scoring EXCEPT ![m] = "idle"] /\ AckResult(m)
  /\ UNCHANGED <<ledgerVars, contestVars, kickedOff, lockJob, finalized,
                 publishing, submitting, cancelling, settling>>

CountPending(m) ==
  /\ scoring[m] = "scored"
  /\ IF AllResultsIn /\ AllScored
       THEN scoring' = [scoring EXCEPT ![m] = "complete"] /\ UNCHANGED resultEvents
       ELSE scoring' = [scoring EXCEPT ![m] = "idle"] /\ AckResult(m)
  /\ UNCHANGED <<ledgerVars, contestVars, kickedOff, lockJob, finalized,
                 publishing, submitting, cancelling, settling>>

(* Mutant: the winner of the compare-and-set emits nothing.                *)
MarkScoredSilently(m) ==
  /\ scoring[m] = "complete"
  /\ scoring' = [scoring EXCEPT ![m] = "idle"]
  /\ status' = IF status = "SCORING" THEN "SCORED" ELSE status
  /\ AckResult(m)
  /\ UNCHANGED <<ledgerVars, escrowOpen, entry, scored, prize, scoredEvent, kickedOff,
                 lockJob, finalized, publishing, submitting, cancelling, settling>>

(* Compare-and-set SCORING -> SCORED; who wins it emits ContestScored.     *)
MarkScored(m) ==
  /\ scoring[m] = "complete"
  /\ scoring' = [scoring EXCEPT ![m] = "idle"]
  /\ status' = IF status = "SCORING" THEN "SCORED" ELSE status
  /\ scoredEvent' = (scoredEvent \/ status = "SCORING")
  /\ AckResult(m)
  /\ UNCHANGED <<ledgerVars, escrowOpen, entry, scored, prize, kickedOff, lockJob, finalized,
                 publishing, submitting, cancelling, settling>>

(* The job fails between its transactions, or the process stops; it will   *)
(* be retried from the start.                                              *)
ResultJobFails(m) ==
  /\ scoring[m] # "idle"
  /\ scoring' = [scoring EXCEPT ![m] = "idle"]
  /\ UNCHANGED <<ledgerVars, contestVars, worldVars, publishing, submitting, cancelling, settling>>

-----------------------------------------------------------------------------
(* distribute: entries are read before the transaction, the escrow in it.  *)

DistributeRead(w) ==
  /\ scoredEvent
  /\ settling[w].at = "idle"
  /\ status = "SCORED"
  /\ settling' = [settling EXCEPT ![w] = [at |-> "read", ranked |-> Active, gross |-> 0]]
  /\ UNCHANGED <<ledgerVars, contestVars, worldVars, publishing, submitting, cancelling, scoring>>

DistributeOpen(w) ==
  /\ settling[w].at = "read"
  /\ settling' = [settling EXCEPT ![w].at = "open", ![w].gross = balance[Escrow]]
  /\ UNCHANGED <<ledgerVars, contestVars, worldVars, publishing, submitting, cancelling, scoring>>

Position(u, ranked) == Cardinality({v \in ranked : Rank[v] <= Rank[u]})

PrizesOf(ranked, gross) ==
  ComputePrizes(PrizePool(gross, CommissionBps), Template, Cardinality(ranked))

PrizeWinners(ranked, gross) ==
  {u \in ranked : Position(u, ranked) \in DOMAIN PrizesOf(ranked, gross)}

(* What each user is paid when the ranked entries share gross.             *)
Payout(ranked, gross) ==
  [u \in Users |-> IF u \in PrizeWinners(ranked, gross)
                   THEN PrizesOf(ranked, gross)[Position(u, ranked)] ELSE 0]

Commission(ranked, gross) == gross - SumFunction(Payout(ranked, gross))

SettlementLines(ranked, gross) ==
  [a \in Accounts |-> CASE a = Escrow -> -gross
                        [] a = Platform -> Commission(ranked, gross)
                        [] OTHER -> Payout(ranked, gross)[a]]

DistributeEnds(w) == settling' = [settling EXCEPT ![w] = NotSettling]

(* Mutant: the last ranked entry falls outside the batch.                  *)
CloseContestShort(ranked) ==
  /\ entry' = [u \in Users |-> IF u \in ranked /\ Position(u, ranked) < Cardinality(ranked)
                               THEN "SETTLED" ELSE entry[u]]
  /\ status' = "SETTLED"

(* The ranked entries become SETTLED and the contest with them, whatever   *)
(* either has become since they were read.                                 *)
CloseContest(ranked) ==
  /\ entry' = [u \in Users |-> IF u \in ranked THEN "SETTLED" ELSE entry[u]]
  /\ status' = "SETTLED"

(* Something to pay: the journal (a replay if it is there already) must    *)
(* leave the escrow empty.  A zero line is refused by the ledger.          *)
DistributePay(w) ==
  LET ranked == settling[w].ranked
      gross == settling[w].gross
  IN
  /\ settling[w].at = "open"
  /\ gross > 0 /\ ranked # {}
  /\ Commission(ranked, gross) # 0
  /\ Books!Valid(SettlementLines(ranked, gross))
  /\ IF Posted(SettlementKey)
       THEN balance[Escrow] = 0 /\ UNCHANGED ledgerVars
       ELSE balance[Escrow] = gross /\ Books!Post(SettlementKey, SettlementLines(ranked, gross))
  /\ prize' = [u \in Users |-> IF u \in PrizeWinners(ranked, gross)
                               THEN Payout(ranked, gross)[u] ELSE prize[u]]
  /\ CloseContest(ranked)
  /\ DistributeEnds(w)
  /\ UNCHANGED <<escrowOpen, scored, scoredEvent, worldVars,
                 publishing, submitting, cancelling, scoring>>

(* Nothing to pay: ranks and statuses only.                                *)
DistributeNothing(w) ==
  /\ settling[w].at = "open"
  /\ settling[w].gross = 0 \/ settling[w].ranked = {}
  /\ CloseContest(settling[w].ranked)
  /\ DistributeEnds(w)
  /\ UNCHANGED <<ledgerVars, escrowOpen, scored, prize, scoredEvent, worldVars,
                 publishing, submitting, cancelling, scoring>>

(* A check or a unique key fails the transaction, or the process stops;    *)
(* the job is retried.                                                     *)
DistributeFails(w) ==
  /\ settling[w].at # "idle"
  /\ DistributeEnds(w)
  /\ UNCHANGED <<ledgerVars, contestVars, worldVars, publishing, submitting, cancelling, scoring>>

-----------------------------------------------------------------------------

Next ==
  \/ KickOff
  \/ RunLockJob \/ ExhaustLockJob \/ ForceLock
  \/ \E a \in Admins :
       \/ PublishCheck(a) \/ PublishCommit(a) \/ ScheduleLock(a) \/ LoseLockJob(a)
       \/ CancelRead(a) \/ CancelCommit(a) \/ CancelFails(a)
  \/ \E u \in Users, t \in Tabs :
       SubmitCheck(u, t) \/ SubmitFails(u, t) \/ \E key \in ClientKeys : SubmitCommit(u, t, key)
  \/ \E key \in ClientKeys : ChargeElsewhere(key)
  \/ \E m \in Matches :
       \/ FinalizeResult(m) \/ SelectContest(m) \/ PassOverContest(m)
       \/ ScoreMatch(m) \/ CountPending(m) \/ MarkScored(m) \/ ResultJobFails(m)
  \/ \E w \in Workers :
       \/ DistributeRead(w) \/ DistributeOpen(w)
       \/ DistributePay(w) \/ DistributeNothing(w) \/ DistributeFails(w)

Spec == Init /\ [][Next]_vars

(* Kickoff and every result come, calls end one way or another, and a job  *)
(* the queue retries is not failed at the same step for ever.              *)
Fairness ==
  /\ WF_vars(KickOff) /\ WF_vars(RunLockJob)
  /\ \A a \in Admins : /\ WF_vars(PublishCommit(a)) /\ WF_vars(ScheduleLock(a))
                      /\ WF_vars(CancelCommit(a) \/ CancelFails(a))
  /\ \A u \in Users, t \in Tabs :
       WF_vars(SubmitFails(u, t) \/ \E key \in ClientKeys : SubmitCommit(u, t, key))
  /\ \A m \in Matches : /\ WF_vars(FinalizeResult(m)) /\ WF_vars(SelectContest(m))
                        /\ SF_vars(ScoreMatch(m)) /\ SF_vars(CountPending(m))
                        /\ SF_vars(MarkScored(m))
  /\ \A w \in Workers : /\ WF_vars(DistributeRead(w)) /\ SF_vars(DistributeOpen(w))
                        /\ SF_vars(DistributePay(w) \/ DistributeNothing(w))

FairSpec == Spec /\ Fairness

-----------------------------------------------------------------------------

(* Types; an event is pending for a stored result only, and a call only    *)
(* holds entries of the contest's users.                                   *)
TypeOK ==
  /\ balance \in [Accounts -> Int]
  /\ status \in {"DRAFT", "PUBLISHED", "LOCKED", "SCORING", "SCORED", "SETTLED", "CANCELLED"}
  /\ escrowOpen \in BOOLEAN /\ kickedOff \in BOOLEAN /\ scoredEvent \in BOOLEAN
  /\ lockJob \in {"none", "scheduled", "done"}
  /\ entry \in [Users -> {"none", "ACTIVE", "REFUNDED", "SETTLED"}]
  /\ scored \in [Users -> SUBSET Matches]
  /\ prize \in [Users -> Int]
  /\ finalized \subseteq Matches /\ resultEvents \subseteq finalized
  /\ publishing \in [Admins -> {"idle", "checked", "committed"}]
  /\ submitting \in [Users \X Tabs -> BOOLEAN]
  /\ cancelling \in [Admins -> [at : {"idle", "read"}, seen : SUBSET Users, escrow : BOOLEAN]]
  /\ scoring \in [Matches -> {"idle", "selected", "scored", "complete"}]
  /\ settling \in [Workers -> [at : {"idle", "read", "open"}, ranked : SUBSET Users, gross : Int]]

Prized(u) == IF Posted(SettlementKey) THEN journal[SettlementKey][u] ELSE 0

(* Until the prizes are paid the escrow holds the fees charged less those  *)
(* returned, and no fee without an ACTIVE entry to play for it: exactly    *)
(* one per ACTIVE entry while every entry paid for itself.  An entry on a  *)
(* used key (entries.service.ts, submitSlip; ledger.service.ts, post)      *)
(* leaves the escrow short by up to a fee, and no interleaving of entry,   *)
(* cancellation and settlement lets anything else leak in or out.          *)
EscrowBacksEntries ==
  ~Posted(SettlementKey) =>
    /\ balance[Escrow] = Fee * (Cardinality(Charged) - Cardinality(Refunded))
    /\ balance[Escrow] <= Fee * Cardinality(Active)
    /\ Replayed = {} => balance[Escrow] = Fee * Cardinality(Active)

(* Every wallet is its opening balance, less one fee if the user was       *)
(* charged (never two, however many builders submit, and never without an  *)
(* entry), plus the refund and the prize that were journaled for it.  Who  *)
(* entered on a used key (entries.service.ts, submitSlip) was not charged. *)
WalletExact ==
  /\ Charged \subseteq Entered
  /\ \A u \in Users :
       balance[u] = Opening[u] - (IF u \in Charged THEN Fee ELSE 0)
                               + (IF u \in Refunded THEN Fee ELSE 0)
                               + Prized(u)

(* A fee is returned or played for, never both.                            *)
RefundXorPrize ==
  \A u \in Users : ~(Posted(RefundKey(u)) /\ Prized(u) > 0)

(* A settled contest owes nothing: no entry is left ACTIVE, no fee is left *)
(* in escrow, and the prize an entry shows is the prize its wallet got.    *)
SettledOwesNothing ==
  /\ status = "SETTLED" => Active = {} /\ balance[Escrow] = 0
  /\ \A u \in Users : prize[u] = Prized(u)

(* A contest is SCORED only with every result in and every prediction of   *)
(* every entry scored (scoring.service.ts, finalizeContestIfComplete).     *)
ScoredWhenComplete ==
  [][status' = "SCORED" /\ status # "SCORED" => AllResultsIn /\ AllScored]_vars

(* A published contest ends: its players get their prizes or their fees.   *)
EventuallyResolved == status = "PUBLISHED" ~> status \in {"SETTLED", "CANCELLED"}

-----------------------------------------------------------------------------
(* What the documentation says of a contest, and the code does not do.     *)

(* "contest CANCELLED - and the escrow must be exactly zero afterwards"    *)
(* (contests.service.ts, cancel).                                          *)
CancelEmptiesEscrow == status = "CANCELLED" => balance[Escrow] = 0
=============================================================================
