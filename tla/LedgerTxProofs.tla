--------------------------- MODULE LedgerTxProofs ---------------------------
(***************************************************************************)
(* LedgerTx implements Ledger, and no guarded account is ever overdrawn,   *)
(* for every set of accounts, of callers and of line orders.  The argument *)
(* is two-phase locking: a transaction that has incremented a row owns it  *)
(* until it ends, so the check made then still holds when it commits.      *)
(* What the ledger promises of its books then follows from the abstract    *)
(* ledger alone: the balances are what the journal says they are, and no   *)
(* money appears or disappears.                                            *)
(***************************************************************************)
EXTENDS LedgerTx, DataLemmas

(* Only valid line lists get past validateLines.                           *)
RunningValid == \A r \in Requests : pc[r] \in Running => ValidLines(r)

NextBounded == \A r \in Requests : pc[r] = "lines" => next[r] <= Len(Order[r]) + 1

(* Two transactions never hold the same row.                               *)
RowsExclusive ==
  \A r, q \in Requests : r # q => RowLocks(r) \cap RowLocks(q) = {}

(* The uncommitted journal row of a transaction has its key to itself.     *)
KeysExclusive ==
  /\ \A r \in Requests : HoldsKey(r) => KeyOf[r] \notin DOMAIN journal
  /\ \A r, q \in Requests : r # q /\ HoldsKey(r) /\ HoldsKey(q) => KeyOf[r] # KeyOf[q]

(* What UpdateLine checked stays true of the rows it locked.               *)
LocksCovered ==
  \A r \in Requests : \A a \in RowLocks(r) \cap Guarded : balance[a] + Amount[r][a] >= 0

IInv ==
  /\ TypeOK
  /\ RunningValid
  /\ NextBounded
  /\ RowsExclusive
  /\ KeysExclusive
  /\ LocksCovered
  /\ NonNegative

USE DEF Abstract!Posted

-----------------------------------------------------------------------------

LEMMA LinesType == \A r \in Requests : Lines(r) \in [Accounts -> Int]
BY LedgerTxAssumption DEF Lines, Range

LEMMA OrderType ==
  \A r \in Requests : /\ DOMAIN Order[r] = 1 .. Len(Order[r])
                      /\ Len(Order[r]) \in Nat
                      /\ \A i \in DOMAIN Order[r] : Order[r][i] \in Accounts
BY LedgerTxAssumption

(* Once every line is posted the transaction holds all its rows.           *)
LEMMA AllRowsLocked ==
  ASSUME TypeOK, NextBounded, NEW r \in Requests,
         pc[r] = "lines", next[r] \notin DOMAIN Order[r]
  PROVE  RowLocks(r) = Range(Order[r])
<1>1. next[r] \in Nat \ {0} /\ next[r] <= Len(Order[r]) + 1
  BY DEF TypeOK, NextBounded
<1>2. next[r] - 1 = Len(Order[r])
  BY <1>1, OrderType
<1> QED
  BY <1>2, OrderType DEF RowLocks, Range

LEMMA InitIInv == Init => IInv
<1> SUFFICES ASSUME Init PROVE IInv
  OBVIOUS
<1>1. TypeOK
  BY LedgerTxAssumption DEF Init, TypeOK, Abstract!NoJournal
<1>2. \A r \in Requests : pc[r] = "idle"
  BY DEF Init
<1>3. RunningValid /\ NextBounded
  BY <1>2 DEF RunningValid, NextBounded, Running
<1>4. RowsExclusive /\ KeysExclusive /\ LocksCovered
  BY <1>2 DEF RowsExclusive, KeysExclusive, LocksCovered, RowLocks, HoldsKey
<1>5. NonNegative
  BY LedgerTxAssumption DEF Init, NonNegative, Abstract!NonNegative
<1> QED
  BY <1>1, <1>3, <1>4, <1>5 DEF IInv

-----------------------------------------------------------------------------
(* Steps that take no row and no key, and leave the committed state alone. *)

LEMMA ReleaseIInv ==
  ASSUME IInv, NEW r \in Requests, NEW outcome \in {"idle", "find", "insert"} \cup Ended,
         outcome \in Running => ValidLines(r),
         pc' = [pc EXCEPT ![r] = outcome],
         next' = [next EXCEPT ![r] = 1],
         UNCHANGED <<balance, journal>>,
         calls' \in [Requests -> Nat]
  PROVE  IInv'
<1> USE DEF IInv
<1>1. TypeOK'
  <2>1. pc' \in [Requests -> {"idle"} \cup Running \cup Ended]
    BY DEF TypeOK, Running
  <2>2. next' \in [Requests -> Nat \ {0}]
    BY DEF TypeOK
  <2>3. \A q \in Requests : pc'[q] # "lines" => next'[q] = 1
    BY DEF TypeOK, Ended
  <2> QED
    BY <2>1, <2>2, <2>3 DEF TypeOK
<1>2. pc'[r] # "lines" /\ \A q \in Requests \ {r} : pc'[q] = pc[q] /\ next'[q] = next[q]
  BY DEF TypeOK, Ended
<1>3. RunningValid'
  BY <1>2 DEF RunningValid, TypeOK, ValidLines
<1>4. NextBounded'
  BY <1>2 DEF NextBounded
<1>5. RowLocks(r)' = {} /\ \A q \in Requests \ {r} : RowLocks(q)' = RowLocks(q)
  BY <1>2 DEF RowLocks
<1>6. RowsExclusive'
  BY <1>5 DEF RowsExclusive
<1>7. KeysExclusive'
  BY <1>2 DEF KeysExclusive, HoldsKey
<1>8. LocksCovered'
  BY <1>5 DEF LocksCovered
<1>9. NonNegative'
  BY DEF NonNegative, Abstract!NonNegative
<1> QED
  BY <1>1, <1>3, <1>4, <1>6, <1>7, <1>8, <1>9

LEMMA InsertIInv ==
  ASSUME IInv, NEW r \in Requests, InsertEntry(r)
  PROVE  IInv'
<1> USE DEF IInv
<1>1. pc[r] = "insert" /\ next[r] = 1 /\ UNCHANGED <<balance, journal, next, calls>>
  BY DEF InsertEntry, TypeOK
<1>2. CASE KeyOf[r] \in DOMAIN journal
  <2>1. pc' = [pc EXCEPT ![r] = "conflict"] /\ next' = [next EXCEPT ![r] = 1]
    BY <1>1, <1>2 DEF InsertEntry, TypeOK
  <2> QED
    BY <1>1, <2>1, ReleaseIInv DEF TypeOK, Ended, Running
<1>3. CASE KeyOf[r] \notin DOMAIN journal
  <2>1. pc' = [pc EXCEPT ![r] = "lines"]
    BY <1>3 DEF InsertEntry
  <2>2. pc'[r] = "lines" /\ \A q \in Requests \ {r} : pc'[q] = pc[q]
    BY <2>1 DEF TypeOK
  <2>3. \A q \in Requests : RowLocks(q)' = RowLocks(q)
    <3>1. \A q \in Requests \ {r} : RowLocks(q)' = RowLocks(q)
      BY <1>1, <2>2 DEF RowLocks
    <3>2. RowLocks(r) = {} /\ RowLocks(r)' = {}
      BY <1>1, <2>2 DEF RowLocks
    <3> QED
      BY <3>1, <3>2
  <2>4. TypeOK'
    BY <1>1, <2>1 DEF TypeOK, Running
  <2>5. RunningValid' /\ NextBounded'
    BY <1>1, <2>2, OrderType DEF RunningValid, NextBounded, Running, ValidLines
  <2>6. RowsExclusive' /\ LocksCovered' /\ NonNegative'
    BY <1>1, <2>3 DEF RowsExclusive, LocksCovered, NonNegative, Abstract!NonNegative
  <2>7. \A q \in Requests \ {r} : HoldsKey(q) => KeyOf[q] # KeyOf[r]
    BY <1>1 DEF InsertEntry, Blocked, Awaits, AwaitsKey
  <2>8. KeysExclusive'
    BY <1>1, <1>3, <2>2, <2>7 DEF KeysExclusive, HoldsKey
  <2> QED
    BY <2>4, <2>5, <2>6, <2>8
<1> QED
  BY <1>2, <1>3

(* The row is free, so it joins r's rows alone; the check that let r go on *)
(* is what LocksCovered asks of it.                                        *)
LEMMA UpdateIInv ==
  ASSUME IInv, NEW r \in Requests, UpdateLine(r)
  PROVE  IInv'
<1> USE DEF IInv
<1> DEFINE a == Order[r][next[r]]
<1>1. pc[r] = "lines" /\ next[r] \in DOMAIN Order[r] /\ UNCHANGED <<balance, journal, calls>>
  BY DEF UpdateLine
<1>2. CASE a \in Guarded /\ balance[a] + Amount[r][a] < 0
  <2>1. pc' = [pc EXCEPT ![r] = "insufficient"] /\ next' = [next EXCEPT ![r] = 1]
    BY <1>2 DEF UpdateLine, End
  <2> QED
    BY <1>1, <2>1, ReleaseIInv DEF TypeOK, Ended, Running
<1>3. CASE ~(a \in Guarded /\ balance[a] + Amount[r][a] < 0)
  <2>1. next' = [next EXCEPT ![r] = next[r] + 1] /\ UNCHANGED pc
    BY <1>3 DEF UpdateLine
  <2>2. next[r] \in Nat \ {0} /\ next[r] <= Len(Order[r]) /\ next \in [Requests -> Nat \ {0}]
    BY <1>1, OrderType DEF TypeOK
  <2>3. next'[r] = next[r] + 1 /\ \A q \in Requests \ {r} : next'[q] = next[q]
    BY <2>1, <2>2
  <2>4. RowLocks(r)' = RowLocks(r) \cup {a}
    <3>1. 1 .. (next'[r] - 1) = (1 .. (next[r] - 1)) \cup {next[r]}
      BY <2>2, <2>3
    <3> QED
      BY <1>1, <2>1, <3>1 DEF RowLocks
  <2>5. \A q \in Requests \ {r} : RowLocks(q)' = RowLocks(q)
    BY <2>1, <2>3 DEF RowLocks
  <2>6. \A q \in Requests \ {r} : a \notin RowLocks(q)
    BY <1>1 DEF UpdateLine, Blocked, Awaits, AwaitsRow
  <2>7. TypeOK'
    <3>1. next' \in [Requests -> Nat \ {0}]
      BY <2>1, <2>2
    <3>2. \A q \in Requests : pc'[q] # "lines" => next'[q] = 1
      BY <1>1, <2>1, <2>3 DEF TypeOK
    <3> QED
      BY <1>1, <2>1, <3>1, <3>2 DEF TypeOK
  <2>8. RunningValid'
    BY <2>1 DEF RunningValid, ValidLines
  <2>9. NextBounded'
    BY <2>1, <2>2, <2>3, OrderType DEF NextBounded
  <2>10. RowsExclusive'
    BY <2>4, <2>5, <2>6 DEF RowsExclusive
  <2>11. KeysExclusive'
    BY <1>1, <2>1 DEF KeysExclusive, HoldsKey
  <2>12. LocksCovered'
    <3>1. a \in Guarded => balance[a] + Amount[r][a] >= 0
      <4>1. a \in Accounts
        BY <1>1, OrderType
      <4> QED
        BY <1>3, <4>1, LedgerTxAssumption DEF TypeOK
    <3> QED
      BY <1>1, <2>4, <2>5, <3>1 DEF LocksCovered
  <2>13. NonNegative'
    BY <1>1 DEF NonNegative, Abstract!NonNegative
  <2> QED
    BY <2>7, <2>8, <2>9, <2>10, <2>11, <2>12, <2>13
<1> QED
  BY <1>2, <1>3

(* A commit touches the rows it holds, so the others' checks stand.        *)
LEMMA CommitIInv ==
  ASSUME IInv, NEW r \in Requests, Commit(r)
  PROVE  IInv'
<1> USE DEF IInv
<1>1. /\ pc[r] = "lines" /\ next[r] \notin DOMAIN Order[r]
      /\ pc' = [pc EXCEPT ![r] = "posted"] /\ next' = [next EXCEPT ![r] = 1]
      /\ calls' = calls
  BY DEF Commit, End
<1>2. /\ balance' = [b \in Accounts |-> balance[b] + Lines(r)[b]]
      /\ DOMAIN journal' = DOMAIN journal \cup {KeyOf[r]}
      /\ \A k \in DOMAIN journal' : journal'[k] = IF k = KeyOf[r] THEN Lines(r) ELSE journal[k]
  BY DEF Commit, Abstract!Apply, Abstract!Record
<1>3. RowLocks(r) = Range(Order[r])
  BY <1>1, AllRowsLocked
<1>4. /\ pc'[r] = "posted" /\ next'[r] = 1
      /\ \A q \in Requests \ {r} : pc'[q] = pc[q] /\ next'[q] = next[q]
  BY <1>1 DEF TypeOK
<1>5. RowLocks(r)' = {} /\ \A q \in Requests \ {r} : RowLocks(q)' = RowLocks(q)
  BY <1>4 DEF RowLocks
<1>6. \A b \in Accounts : b \notin RowLocks(r) => balance'[b] = balance[b]
  <2>1. \A b \in Accounts : b \notin RowLocks(r) => Lines(r)[b] = 0
    BY <1>3 DEF Lines
  <2> QED
    BY <1>2, <2>1 DEF TypeOK
<1>7. \A b \in Accounts : b \in RowLocks(r) => balance'[b] = balance[b] + Amount[r][b]
  BY <1>2, <1>3 DEF Lines
<1>8. TypeOK'
  <2>1. balance' \in [Accounts -> Int]
    BY <1>2, LinesType DEF TypeOK
  <2>2. DOMAIN journal' \subseteq Keys /\ \A k \in DOMAIN journal' : journal'[k] \in [Accounts -> Int]
    BY <1>2, LinesType, LedgerTxAssumption DEF TypeOK
  <2>3. pc' \in [Requests -> {"idle"} \cup Running \cup Ended] /\ next' \in [Requests -> Nat \ {0}]
    BY <1>1 DEF TypeOK, Ended
  <2> QED
    BY <1>1, <1>4, <2>1, <2>2, <2>3 DEF TypeOK
<1>9. RunningValid'
  BY <1>4 DEF RunningValid, Running, ValidLines
<1>10. NextBounded'
  BY <1>4 DEF NextBounded
<1>11. RowsExclusive'
  BY <1>5 DEF RowsExclusive
<1>12. KeysExclusive'
  BY <1>1, <1>2, <1>4 DEF KeysExclusive, HoldsKey
<1>13. LocksCovered'
  BY <1>5, <1>6, LedgerTxAssumption DEF LocksCovered, RowsExclusive
<1>14. NonNegative'
  <2>1. \A b \in Guarded : b \in RowLocks(r) => balance'[b] >= 0
    BY <1>7, LedgerTxAssumption DEF LocksCovered
  <2>2. \A b \in Guarded : b \notin RowLocks(r) => balance'[b] >= 0
    BY <1>6, LedgerTxAssumption DEF NonNegative, Abstract!NonNegative
  <2> QED
    BY <2>1, <2>2 DEF NonNegative, Abstract!NonNegative
<1> QED
  BY <1>8, <1>9, <1>10, <1>11, <1>12, <1>13, <1>14

LEMMA NextIInv == IInv /\ [Next]_vars => IInv'
<1> SUFFICES ASSUME IInv, [Next]_vars PROVE IInv'
  OBVIOUS
<1>1. CASE UNCHANGED vars
  BY <1>1 DEF vars, IInv, TypeOK, RunningValid, ValidLines, NextBounded, RowsExclusive, RowLocks,
              KeysExclusive, HoldsKey, LocksCovered, NonNegative, Abstract!NonNegative
<1>2. CASE Next
  <2>1. PICK r \in Requests : Call(r) \/ Step(r) \/ Abort(r) \/ BreakDeadlock(r)
    BY <1>2 DEF Next
  <2>2. CASE Call(r)
    <3>1. pc[r] # "lines" /\ next' = [next EXCEPT ![r] = 1]
      BY <2>2 DEF Call, IInv, TypeOK, Ended
    <3>2. calls' \in [Requests -> Nat]
      BY <2>2, LedgerTxAssumption DEF Call, IInv, TypeOK
    <3>3. CASE ValidLines(r)
      BY <2>2, <3>1, <3>2, <3>3, ReleaseIInv DEF Call
    <3>4. CASE ~ValidLines(r)
      BY <2>2, <3>1, <3>2, <3>4, ReleaseIInv DEF Call, Running, Ended
    <3> QED
      BY <3>3, <3>4
  <2>3. CASE FindExisting(r)
    <3>1. next' = [next EXCEPT ![r] = 1] /\ ValidLines(r)
      BY <2>3 DEF FindExisting, IInv, TypeOK, RunningValid, Running
    <3>2. CASE KeyOf[r] \in DOMAIN journal
      BY <2>3, <3>1, <3>2, ReleaseIInv DEF FindExisting, Ended, IInv, TypeOK
    <3>3. CASE KeyOf[r] \notin DOMAIN journal
      BY <2>3, <3>1, <3>3, ReleaseIInv DEF FindExisting, IInv, TypeOK
    <3> QED
      BY <3>2, <3>3
  <2>4. CASE Abort(r) \/ BreakDeadlock(r)
    BY <2>4, ReleaseIInv DEF Abort, BreakDeadlock, End, Running, Ended, IInv, TypeOK
  <2> QED
    BY <2>1, <2>2, <2>3, <2>4, InsertIInv, UpdateIInv, CommitIInv DEF Step
<1> QED
  BY <1>1, <1>2

-----------------------------------------------------------------------------

(* What every state of LedgerTx satisfies, the locking discipline of       *)
(* ledger.service.ts under ReadCommitted included.                         *)
THEOREM Invariance == Spec => []IInv
BY InitIInv, NextIInv, PTL DEF Spec

(* Balances stay integers per account, journals stay line sets, and only a *)
(* call that has inserted its journal row is past its first line.          *)
THEOREM TypeCorrect == Spec => []TypeOK
<1>1. IInv => TypeOK
  BY DEF IInv
<1> QED
  BY <1>1, Invariance, PTL

(* No wallet, hold or escrow is ever overdrawn, whatever the callers, the  *)
(* keys they share and the order of their lines.                           *)
THEOREM NeverOverdrawn == Spec => []NonNegative
<1>1. IInv => NonNegative
  BY DEF IInv
<1> QED
  BY <1>1, Invariance, PTL

(* Each call posts atomically and at most once per idempotency key: every  *)
(* step of the statement-level transactions is one Ledger posting or none. *)
THEOREM Implementation == Spec => ImplementsLedger
<1>1. Init => Abstract!Init
  BY DEF Init, Abstract!Init
<1>2. IInv /\ [Next]_vars => [Abstract!Next]_(Abstract!ledgerVars)
  <2> SUFFICES ASSUME IInv, [Next]_vars
               PROVE  Abstract!Next \/ UNCHANGED <<balance, journal>>
    BY DEF Abstract!ledgerVars
  <2>1. CASE UNCHANGED vars
    BY <2>1 DEF vars
  <2>2. ASSUME NEW r \in Requests, Commit(r)
        PROVE  Abstract!Next
    <3>1. pc[r] = "lines" /\ next[r] \notin DOMAIN Order[r]
      BY <2>2 DEF Commit
    <3>2. ~Abstract!Posted(KeyOf[r])
      BY <3>1 DEF IInv, KeysExclusive, HoldsKey
    <3>3. Abstract!Valid(Lines(r))
      BY <3>1 DEF IInv, RunningValid, Running, ValidLines
    <3>4. Abstract!Covers(balance, Lines(r))
      <4>1. RowLocks(r) = Range(Order[r])
        BY <3>1, AllRowsLocked DEF IInv
      <4>2. \A a \in Guarded : a \in RowLocks(r) => balance[a] + Lines(r)[a] >= 0
        BY <4>1, LedgerTxAssumption DEF IInv, LocksCovered, Lines
      <4>3. \A a \in Guarded : a \notin RowLocks(r) => balance[a] + Lines(r)[a] >= 0
        BY <4>1, LedgerTxAssumption DEF IInv, TypeOK, NonNegative, Abstract!NonNegative, Lines
      <4> QED
        BY <4>2, <4>3 DEF Abstract!Covers
    <3>5. Abstract!Post(KeyOf[r], Lines(r))
      BY <2>2, <3>2, <3>3, <3>4 DEF Commit, Abstract!Post
    <3> QED
      BY <3>5, LedgerTxAssumption DEF Abstract!Next
  <2>3. CASE Next
    BY <2>2, <2>3 DEF Next, Step, Call, FindExisting, InsertEntry, UpdateLine, Abort, BreakDeadlock
  <2> QED
    BY <2>1, <2>3
<1> QED
  BY <1>1, <1>2, Invariance, PTL DEF Spec, ImplementsLedger, Abstract!Spec

(* An answer that names a journal entry names a committed one, and any     *)
(* other answer moved nothing.                                             *)
THEOREM AnswersJournaled == Spec => OneJournalPerAnswer
<1> DEFINE Answered(r) ==
      pc'[r] # pc[r] /\ pc'[r] \in Ended =>
        /\ pc'[r] \in {"posted", "replayed", "conflict"} => KeyOf[r] \in DOMAIN journal'
        /\ pc'[r] # "posted" => UNCHANGED <<balance, journal>>
<1>1. IInv /\ [Next]_vars => [\A r \in Requests : Answered(r)]_vars
  <2> SUFFICES ASSUME IInv, Next, NEW r \in Requests, pc'[r] # pc[r]
               PROVE  Answered(r)
    BY DEF Answered
  <2>1. PICK q \in Requests : Call(q) \/ Step(q) \/ Abort(q) \/ BreakDeadlock(q)
    BY DEF Next
  <2>2. q = r
    BY <2>1 DEF Step, Call, FindExisting, InsertEntry, UpdateLine, Commit, Abort, BreakDeadlock,
                End, IInv, TypeOK
  <2>3. CASE Commit(r)
    BY <2>3 DEF Commit, End, IInv, TypeOK, Abstract!Record
  <2>4. CASE FindExisting(r) \/ InsertEntry(r)
    BY <2>4 DEF FindExisting, InsertEntry, IInv, TypeOK, Ended
  <2>5. CASE Call(r) \/ UpdateLine(r) \/ Abort(r) \/ BreakDeadlock(r)
    BY <2>5 DEF Call, UpdateLine, Abort, BreakDeadlock, End, IInv, TypeOK, Ended
  <2> QED
    BY <2>1, <2>2, <2>3, <2>4, <2>5 DEF Step
<1> QED
  BY <1>1, Invariance, PTL DEF Spec, OneJournalPerAnswer

-----------------------------------------------------------------------------
(* The books.                                                              *)

(* What each journal entry moved on account a.                             *)
PostedTo(a) == [k \in DOMAIN journal |-> journal[k][a]]

(* Every journal entry sums to zero, every balance is what its account     *)
(* opened with and its entries add up to, and the balances of all accounts *)
(* together never change (ledger.service.ts, invariant 1, and the          *)
(* reconciliation its comment relies on).                                  *)
Reconciled ==
  /\ \A k \in DOMAIN journal : SumFunction(journal[k]) = 0
  /\ \A a \in Accounts : balance[a] = Opening[a] + SumFunction(PostedTo(a))
  /\ SumFunction(balance) = SumFunction(Opening)

BooksInv ==
  /\ IsFiniteSet(DOMAIN journal)
  /\ \A k \in DOMAIN journal : journal[k] \in [Accounts -> Int]
  /\ balance \in [Accounts -> Int]
  /\ Reconciled

LEMMA SameSum == \A f : Abstract!SumFunction(f) = SumFunction(f)
BY DEF Abstract!SumFunction, Abstract!SumFunctionOnSet, Abstract!FoldFunctionOnSet,
       Abstract!MapThenFoldSet, SumFunction, SumFunctionOnSet, FoldFunctionOnSet, MapThenFoldSet

LEMMA InitBooks == Abstract!Init => BooksInv
<1> SUFFICES ASSUME Abstract!Init PROVE BooksInv
  OBVIOUS
<1>1. DOMAIN journal = {} /\ IsFiniteSet(DOMAIN journal)
  BY FS_EmptySet DEF Abstract!Init, Abstract!NoJournal
<1>2. \A a \in Accounts : SumFunction(PostedTo(a)) = 0
  BY <1>1, SumEmpty DEF PostedTo, SumFunction
<1>3. balance = Opening /\ Opening \in [Accounts -> Int]
  BY LedgerTxAssumption DEF Abstract!Init
<1> QED
  BY <1>1, <1>2, <1>3 DEF BooksInv, Reconciled

(* One posting: an entry that sums to zero under a new key, and its lines  *)
(* on the balances.                                                        *)
LEMMA PostBooks ==
  ASSUME BooksInv, NEW key, NEW lines, Abstract!Post(key, lines)
  PROVE  BooksInv'
<1>1. /\ key \notin DOMAIN journal
      /\ lines \in [Accounts -> Int] /\ SumFunction(lines) = 0
      /\ balance' = [a \in Accounts |-> balance[a] + lines[a]]
      /\ DOMAIN journal' = DOMAIN journal \cup {key}
      /\ journal'[key] = lines
      /\ \A k \in DOMAIN journal : journal'[k] = journal[k]
  BY SameSum DEF Abstract!Post, Abstract!Valid, Abstract!Apply, Abstract!Record
<1>2. /\ IsFiniteSet(DOMAIN journal')
      /\ \A k \in DOMAIN journal' : journal'[k] \in [Accounts -> Int]
      /\ balance' \in [Accounts -> Int]
  BY <1>1, FS_AddElement DEF BooksInv
<1>3. \A k \in DOMAIN journal' : SumFunction(journal'[k]) = 0
  BY <1>1 DEF BooksInv, Reconciled
<1>4. ASSUME NEW a \in Accounts
      PROVE  balance'[a] = Opening[a] + SumFunction(PostedTo(a)')
  <2> DEFINE old == PostedTo(a)
             new == PostedTo(a)'
  <2>1. /\ DOMAIN old = DOMAIN journal /\ DOMAIN new = DOMAIN journal \cup {key}
        /\ \A k \in DOMAIN journal : old[k] \in Int /\ new[k] = old[k]
        /\ new[key] = lines[a] /\ lines[a] \in Int
    BY <1>1 DEF PostedTo, BooksInv
  <2> HIDE DEF old, new
  <2>2. /\ SumFunctionOnSet(new, DOMAIN journal \cup {key})
             = lines[a] + SumFunctionOnSet(new, DOMAIN journal)
        /\ SumFunctionOnSet(new, DOMAIN journal) = SumFunctionOnSet(old, DOMAIN journal)
        /\ SumFunctionOnSet(old, DOMAIN journal) \in Int
    BY <1>1, <2>1, SumAdd, SumsEqual, SumType DEF BooksInv
  <2>3. balance[a] = Opening[a] + SumFunction(old)
    BY DEF BooksInv, Reconciled, old
  <2>4. balance'[a] = Opening[a] + SumFunction(new)
    BY <1>1, <2>1, <2>2, <2>3, LedgerTxAssumption DEF SumFunction
  <2> QED
    BY <2>4 DEF new
<1>5. SumFunction(balance') = SumFunction(Opening)
  <2>1. DOMAIN balance = Accounts /\ DOMAIN balance' = Accounts /\ DOMAIN lines = Accounts
    BY <1>1 DEF BooksInv
  <2>2. SumFunctionOnSet(balance', Accounts)
          = SumFunctionOnSet(balance, Accounts) + SumFunctionOnSet(lines, Accounts)
    BY <1>1, SumOfSums, LedgerTxAssumption DEF BooksInv
  <2>3. SumFunctionOnSet(balance, Accounts) \in Int
    BY SumType, LedgerTxAssumption DEF BooksInv
  <2> QED
    BY <1>1, <2>1, <2>2, <2>3 DEF SumFunction, BooksInv, Reconciled
<1> QED
  BY <1>2, <1>3, <1>4, <1>5 DEF BooksInv, Reconciled

(* Whatever transactions do beside one another, the books reconcile with   *)
(* the journal, account by account and in total, after every statement.    *)
THEOREM BooksReconcile == Spec => []Reconciled
<1>1. Abstract!Init => BooksInv
  BY InitBooks
<1>2. BooksInv /\ [Abstract!Next]_(Abstract!ledgerVars) => BooksInv'
  <2> SUFFICES ASSUME BooksInv, [Abstract!Next]_(Abstract!ledgerVars) PROVE BooksInv'
    OBVIOUS
  <2>1. CASE Abstract!Next
    BY <2>1, PostBooks DEF Abstract!Next
  <2>2. CASE UNCHANGED Abstract!ledgerVars
    BY <2>2 DEF Abstract!ledgerVars, BooksInv, Reconciled, PostedTo
  <2> QED
    BY <2>1, <2>2
<1>3. BooksInv => Reconciled
  BY DEF BooksInv
<1> QED
  BY <1>1, <1>2, <1>3, Implementation, PTL DEF ImplementsLedger, Abstract!Spec

(* The journal is append-only: no committed entry is ever changed or       *)
(* removed (ledger.service.ts, invariant 2).                               *)
THEOREM JournalAppendOnly ==
  Spec => [][\A k \in DOMAIN journal : k \in DOMAIN journal' /\ journal'[k] = journal[k]]_vars
<1>1. [Abstract!Next]_(Abstract!ledgerVars)
        => \A k \in DOMAIN journal : k \in DOMAIN journal' /\ journal'[k] = journal[k]
  BY DEF Abstract!Next, Abstract!ledgerVars, Abstract!Post, Abstract!Record
<1> QED
  BY <1>1, Implementation, PTL DEF ImplementsLedger, Abstract!Spec
=============================================================================
