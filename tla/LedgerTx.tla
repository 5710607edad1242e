------------------------------ MODULE LedgerTx ------------------------------
(***************************************************************************)
(* LedgerService.post as it runs: concurrent ReadCommitted transactions    *)
(* on Postgres, statement by statement.  Each call looks its key up,       *)
(* inserts the journal under the unique index on idempotencyKey and then   *)
(* increments one account row after another, each increment taking that    *)
(* row's lock until the transaction ends.  The calls may carry the same    *)
(* key (a retry, a webhook racing the client's verify) and cross each      *)
(* other's accounts in opposite orders (an entry fee locks wallet then     *)
(* escrow, a refund escrow then wallet).                                   *)
(***************************************************************************)
EXTENDS Integers, Sequences, FiniteSets, Functions

CONSTANTS
  Accounts, Guarded, Opening,
  Requests,   \* concurrent callers of post()
  Keys,
  KeyOf,      \* the idempotency key each caller posts under
  Order,      \* its lines' accounts, in input order, no account twice
  Amount,     \* and their signed amounts
  MaxCalls    \* bound: calls of post() each caller makes, the first included

Lines(r) ==
  [a \in Accounts |-> IF a \in Range(Order[r]) THEN Amount[r][a] ELSE 0]

ASSUME LedgerTxAssumption ==
  /\ IsFiniteSet(Accounts)
  /\ Guarded \subseteq Accounts
  /\ Opening \in [Accounts -> Int]
  /\ \A a \in Guarded : Opening[a] >= 0
  /\ KeyOf \in [Requests -> Keys]
  /\ Order \in [Requests -> Seq(Accounts)]
  /\ \A r \in Requests : \A i, j \in DOMAIN Order[r] :
       Order[r][i] = Order[r][j] => i = j
  /\ Amount \in [Requests -> [Accounts -> Int]]
  /\ MaxCalls \in [Requests -> Nat]

VARIABLES
  balance,    \* committed balances
  journal,    \* committed journal rows, by key
  pc,         \* where each call is, or how it ended
  next,       \* the index of the line a call posts next
  calls       \* calls made so far

vars == <<balance, journal, pc, next, calls>>

Abstract == INSTANCE Ledger WITH Movements <- {Lines(r) : r \in Requests}

Running == {"find", "insert", "lines"}
Ended == {"rejected", "replayed", "conflict", "insufficient", "posted", "failed"}

-----------------------------------------------------------------------------
(* Locks, derived from how far each transaction has come.                  *)

RowLocks(r) ==
  IF pc[r] = "lines" THEN {Order[r][i] : i \in 1 .. (next[r] - 1)} ELSE {}

HoldsKey(r) == pc[r] = "lines"

AwaitsKey(r, q) ==
  /\ r # q /\ pc[r] = "insert"
  /\ HoldsKey(q) /\ KeyOf[q] = KeyOf[r]

AwaitsRow(r, q) ==
  /\ r # q /\ pc[r] = "lines" /\ next[r] \in DOMAIN Order[r]
  /\ Order[r][next[r]] \in RowLocks(q)

Awaits(r, q) == AwaitsKey(r, q) \/ AwaitsRow(r, q)

Blocked(r) == \E q \in Requests : Awaits(r, q)

(* r is on a cycle of waiting transactions: every one of the set awaits    *)
(* another of it and is awaited by one.                                    *)
Deadlocked(r) ==
  \E cycle \in SUBSET {q \in Requests : Blocked(q)} :
    /\ r \in cycle
    /\ \A q \in cycle : /\ \E p \in cycle : Awaits(q, p)
                        /\ \E p \in cycle : Awaits(p, q)

-----------------------------------------------------------------------------

ValidLines(r) ==
  /\ Len(Order[r]) >= 2
  /\ \A a \in Range(Order[r]) : Amount[r][a] # 0
  /\ Abstract!Valid(Lines(r))

Init ==
  /\ balance = Opening
  /\ journal = Abstract!NoJournal
  /\ pc = [r \in Requests |-> "idle"]
  /\ next = [r \in Requests |-> 1]
  /\ calls = [r \in Requests |-> 0]

(* Mutant: the next attempt starts behind the lines of this one.           *)
EndMidway(r, outcome) ==
  /\ pc' = [pc EXCEPT ![r] = outcome]
  /\ UNCHANGED next

(* The rolled-back or finished transaction leaves no uncommitted rows.     *)
End(r, outcome) ==
  /\ pc' = [pc EXCEPT ![r] = outcome]
  /\ next' = [next EXCEPT ![r] = 1]

(* A first call, or the retry of one that ended, its answer lost or not.   *)
Call(r) ==
  /\ pc[r] \in {"idle"} \cup Ended
  /\ calls[r] < MaxCalls[r]
  /\ calls' = [calls EXCEPT ![r] = @ + 1]
  /\ pc' = [pc EXCEPT ![r] = IF ValidLines(r) THEN "find" ELSE "rejected"]
  /\ UNCHANGED <<balance, journal, next>>

FindExisting(r) ==
  /\ pc[r] = "find"
  /\ pc' = [pc EXCEPT ![r] = IF KeyOf[r] \in DOMAIN journal
                             THEN "replayed" ELSE "insert"]
  /\ UNCHANGED <<balance, journal, next, calls>>

(* Mutant: no unique index on idempotencyKey.                              *)
InsertUnindexed(r) ==
  /\ pc[r] = "insert"
  /\ pc' = [pc EXCEPT ![r] = "lines"]
  /\ UNCHANGED <<balance, journal, next, calls>>

(* Mutant: another call's uncommitted row is taken for the original.       *)
InsertUnwaiting(r) ==
  /\ pc[r] = "insert"
  /\ pc' = [pc EXCEPT ![r] = IF Blocked(r) \/ KeyOf[r] \in DOMAIN journal
                             THEN "conflict" ELSE "lines"]
  /\ UNCHANGED <<balance, journal, next, calls>>

(* The unique index: wait for another transaction's uncommitted row with   *)
(* this key, then P2002 if it committed.                                   *)
InsertEntry(r) ==
  /\ pc[r] = "insert"
  /\ ~Blocked(r)
  /\ pc' = [pc EXCEPT ![r] = IF KeyOf[r] \in DOMAIN journal
                             THEN "conflict" ELSE "lines"]
  /\ UNCHANGED <<balance, journal, next, calls>>

(* Mutant: the balance is checked without holding the row.                 *)
UpdateUnlocked(r) ==
  /\ pc[r] = "lines"
  /\ next[r] \in DOMAIN Order[r]
  /\ LET a == Order[r][next[r]] IN
       IF a \in Guarded /\ balance[a] + Amount[r][a] < 0
         THEN End(r, "insufficient")
         ELSE /\ next' = [next EXCEPT ![r] = @ + 1]
              /\ UNCHANGED pc
  /\ UNCHANGED <<balance, journal, calls>>

(* One increment on the latest committed row, and the check that a guarded *)
(* balance is still not negative; InsufficientFundsError rolls back.       *)
UpdateLine(r) ==
  /\ pc[r] = "lines"
  /\ next[r] \in DOMAIN Order[r]
  /\ ~Blocked(r)
  /\ LET a == Order[r][next[r]] IN
       IF a \in Guarded /\ balance[a] + Amount[r][a] < 0
         THEN End(r, "insufficient")
         ELSE /\ next' = [next EXCEPT ![r] = @ + 1]
              /\ UNCHANGED pc
  /\ UNCHANGED <<balance, journal, calls>>

Commit(r) ==
  /\ pc[r] = "lines"
  /\ next[r] \notin DOMAIN Order[r]
  /\ balance' = Abstract!Apply(balance, Lines(r))
  /\ journal' = Abstract!Record(journal, KeyOf[r], Lines(r))
  /\ End(r, "posted")
  /\ UNCHANGED calls

(* The process or its connection dies, the transaction times out, or the   *)
(* caller's own writes in the outer transaction fail.                      *)
Abort(r) ==
  /\ pc[r] \in Running
  /\ End(r, "failed")
  /\ UNCHANGED <<balance, journal, calls>>

(* Mutant: no deadlock detection.                                          *)
LeaveDeadlock(r) == FALSE

(* Postgres ends one transaction of a wait cycle with an error.            *)
BreakDeadlock(r) ==
  /\ Deadlocked(r)
  /\ End(r, "failed")
  /\ UNCHANGED <<balance, journal, calls>>

Step(r) ==
  FindExisting(r) \/ InsertEntry(r) \/ UpdateLine(r) \/ Commit(r)

Next ==
  \E r \in Requests : Call(r) \/ Step(r) \/ Abort(r) \/ BreakDeadlock(r)

Spec == Init /\ [][Next]_vars

(* Statements that are not waiting complete, and the deadlock detector     *)
(* runs; nobody is obliged to call, and nothing is obliged to crash.       *)
Fairness ==
  \A r \in Requests : WF_vars(Step(r) \/ BreakDeadlock(r))

FairSpec == Spec /\ Fairness

-----------------------------------------------------------------------------

(* Types; only a call that has inserted its journal is past its first line.*)
TypeOK ==
  /\ balance \in [Accounts -> Int]
  /\ DOMAIN journal \subseteq Keys
  /\ \A k \in DOMAIN journal : journal[k] \in [Accounts -> Int]
  /\ pc \in [Requests -> {"idle"} \cup Running \cup Ended]
  /\ next \in [Requests -> Nat \ {0}]
  /\ calls \in [Requests -> Nat]
  /\ \A r \in Requests : pc[r] # "lines" => next[r] = 1

(* No guarded account is overdrawn, however the increments of concurrent   *)
(* transactions interleave (ledger.service.ts, invariant 3).               *)
NonNegative == Abstract!NonNegative

(* Every step is one whole posting or no change at all: transactions under *)
(* row locks and the unique index implement the atomic ledger.             *)
ImplementsLedger == Abstract!Spec

(* An answer is not lost in a lock queue: every call ends, the ones whose  *)
(* transactions wait for each other included.                              *)
EveryCallEnds ==
  \A r \in Requests : pc[r] \in Running ~> pc[r] \in Ended

(* Only the rows its own key wrote: a call answered with the original      *)
(* entry, or with a new one, has its key in the journal, and an            *)
(* insufficient, rejected or failed call has moved no money of its own.    *)
OneJournalPerAnswer ==
  [][\A r \in Requests :
       pc'[r] # pc[r] /\ pc'[r] \in Ended =>
         /\ pc'[r] \in {"posted", "replayed", "conflict"} => KeyOf[r] \in DOMAIN journal'
         /\ pc'[r] # "posted" => UNCHANGED <<balance, journal>>]_vars
=============================================================================
