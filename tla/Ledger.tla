------------------------------- MODULE Ledger -------------------------------
(***************************************************************************)
(* What LedgerService.post promises its callers: a journal is posted whole *)
(* and at most once per idempotency key, its lines balance, and no guarded *)
(* account (a wallet, a withdrawal hold, a contest escrow) is overdrawn.   *)
(* One posting is one step here; LedgerTx has the database transactions    *)
(* that implement it, and the domain modules post through it.              *)
(***************************************************************************)
EXTENDS Integers, FiniteSets, Functions

CONSTANTS
  Accounts,   \* ledger accounts
  Guarded,    \* those whose type is in NON_NEGATIVE_ACCOUNT_TYPES
  Keys,       \* idempotency keys
  Movements,  \* the line sets callers may post, each a total function:
              \* the signed amount on every account, 0 where it has no line
  Opening     \* balances when the model starts

VARIABLES
  balance,    \* LedgerAccount.balanceMinor
  journal     \* committed JournalEntry rows: idempotency key -> its lines

ledgerVars == <<balance, journal>>

NoJournal == [k \in {} |-> {}]

Posted(key) == key \in DOMAIN journal

(* What validateLines leaves to check of a movement: its lines sum to zero.*)
Valid(lines) == lines \in [Accounts -> Int] /\ SumFunction(lines) = 0

Covers(bal, lines) == \A a \in Guarded : bal[a] + lines[a] >= 0

Apply(bal, lines) == [a \in Accounts |-> bal[a] + lines[a]]

Record(jnl, key, lines) ==
  [k \in DOMAIN jnl \cup {key} |-> IF k = key THEN lines ELSE jnl[k]]

-----------------------------------------------------------------------------

Init ==
  /\ balance = Opening
  /\ journal = NoJournal

(* A used key posts nothing (the caller gets the original entry id): that  *)
(* is a stuttering step.                                                   *)
Post(key, lines) ==
  /\ ~Posted(key)
  /\ Valid(lines)
  /\ Covers(balance, lines)
  /\ balance' = Apply(balance, lines)
  /\ journal' = Record(journal, key, lines)

Next == \E key \in Keys, lines \in Movements : Post(key, lines)

Spec == Init /\ [][Next]_ledgerVars

-----------------------------------------------------------------------------

(* Types of the committed state.                                           *)
TypeOK ==
  /\ balance \in [Accounts -> Int]
  /\ DOMAIN journal \subseteq Keys
  /\ \A k \in DOMAIN journal : journal[k] \in [Accounts -> Int]

(* No wallet, withdrawal hold or escrow is ever below zero                 *)
(* (ledger.service.ts, invariant 3).                                       *)
NonNegative == \A a \in Guarded : balance[a] >= 0

=============================================================================
