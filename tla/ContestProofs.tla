--------------------------- MODULE ContestProofs ---------------------------
(***************************************************************************)
(* The money of a contest, proved for any number of users, builders,       *)
(* admins, workers and matches, any fee, commission and template, prompt   *)
(* callers or not.  What makes it inductive is the link between an entry's *)
(* status and the refund journaled for it: it tells a late cancellation    *)
(* and a late settlement which of the entries they once read still own     *)
(* their fee.  What a settled contest owes is proved of prompt callers     *)
(* (Prompt): publish and submit calls and the lock job are done when a     *)
(* match gets its result.  What a settlement pays follows from the         *)
(* arithmetic of computePrizes and from the entries' order being total.    *)
(*                                                                         *)
(* Then the tables the contest rests on, row by row (Tables): prizes and   *)
(* ranks, what wins, slips as they are built, sent and checked, and stars. *)
(***************************************************************************)
EXTENDS Contest, Tables, DataLemmas

JournalOK == Posted(SettlementKey) => journal[SettlementKey] \in [Accounts -> Int]

(* Calls hold entries that exist, however long ago they read them.         *)
SeenEntered == \A a \in Admins : cancelling[a].seen \subseteq Entered
RankedEntered == \A w \in Workers : settling[w].ranked \subseteq Entered

(* Before a settlement an entry leaves ACTIVE by being refunded, and, as   *)
(* long as every entry paid for itself, in no other way.                   *)
RefundsTracked ==
  \A u \in Users :
    /\ entry[u] \in {"none", "ACTIVE"} => ~Posted(RefundKey(u))
    /\ ~Posted(SettlementKey) /\ Replayed = {} /\ entry[u] \in {"REFUNDED", "SETTLED"}
         => Posted(RefundKey(u))

(* What settlements rank that found the escrow empty, and may close.       *)
Emptied ==
  UNION {settling[w].ranked : w \in {v \in Workers : settling[v].at = "open" /\ settling[v].gross = 0}}

(* No fee in escrow is theirs: the other ACTIVE entries account for all.   *)
EscrowCovered ==
  ~Posted(SettlementKey) =>
    0 <= balance[Escrow] /\ balance[Escrow] <= Fee * Cardinality(Active \ Emptied)

MoneyInv ==
  /\ JournalOK
  /\ SeenEntered
  /\ RankedEntered
  /\ RefundsTracked
  /\ EscrowCovered
  /\ EscrowBacksEntries
  /\ WalletExact

IInv == TypeOK /\ MoneyInv

moneyVars == <<balance, journal, entry, cancelling, settling>>

-----------------------------------------------------------------------------

LEMMA AccountsDistinct ==
  /\ Users \subseteq Accounts /\ Escrow \in Accounts /\ Platform \in Accounts
  /\ \A u \in Users : u # Escrow /\ u # Platform
  /\ Escrow # Platform
BY ContestAssumption DEF Accounts

(* Journals of different kinds, entry fees on different keys, and refunds  *)
(* of different users, never share an idempotency key.                     *)
LEMMA KeysDistinct ==
  /\ \A key \in ClientKeys : /\ EntryKey(key) # SettlementKey
                            /\ \A u \in Users : EntryKey(key) # RefundKey(u)
  /\ \A j, k \in ClientKeys : EntryKey(j) = EntryKey(k) => j = k
  /\ \A u, v \in Users : /\ RefundKey(v) # SettlementKey
                         /\ RefundKey(u) = RefundKey(v) => u = v
BY DEF EntryKey, RefundKey, SettlementKey

LEMMA SubsetOfUsers ==
  ASSUME NEW S, S \subseteq Users
  PROVE  IsFiniteSet(S) /\ Cardinality(S) \in Nat
BY ContestAssumption, FS_Subset, FS_CardinalityType

(* More entries, more fees.                                                *)
LEMMA FeesGrow ==
  ASSUME NEW S \in SUBSET Users, NEW T \in SUBSET S
  PROVE  /\ Fee * Cardinality(S) \in Nat /\ Fee * Cardinality(T) \in Nat
         /\ Fee * Cardinality(T) <= Fee * Cardinality(S)
<1>1. /\ Cardinality(S) \in Nat /\ Cardinality(T) \in Nat
      /\ Cardinality(T) <= Cardinality(S)
  BY SubsetOfUsers, FS_Subset
<1>2. \A m, n \in Nat : m <= n => Fee * m \in Nat /\ Fee * n \in Nat /\ Fee * m <= Fee * n
  BY ContestAssumption
<1> QED
  BY <1>1, <1>2

(* Only the journals of entry fees say who was charged.                    *)
LEMMA ChargedStands ==
  ASSUME \A key \in ClientKeys :
           /\ Posted(EntryKey(key))' <=> Posted(EntryKey(key))
           /\ Posted(EntryKey(key)) => journal'[EntryKey(key)] = journal[EntryKey(key)]
  PROVE  Charged' = Charged
BY DEF Charged

LEMMA TransferType ==
  ASSUME NEW from \in Accounts, NEW to \in Accounts, NEW n \in Int
  PROVE  Transfer(from, to, n) \in [Accounts -> Int]
BY DEF Transfer

LEMMA ApplyType ==
  ASSUME balance \in [Accounts -> Int], NEW lines \in [Accounts -> Int]
  PROVE  Books!Apply(balance, lines) \in [Accounts -> Int]
BY DEF Books!Apply

LEMMA RefundType ==
  ASSUME balance \in [Accounts -> Int], NEW seen \in SUBSET Users, Refund(seen)
  PROVE  /\ balance' \in [Accounts -> Int]
         /\ balance'[Escrow] = balance[Escrow] - Fee * Cardinality(ToRefund(seen))
<1>1. Cardinality(ToRefund(seen)) \in Nat
  BY SubsetOfUsers DEF ToRefund
<1>2. EscrowAfterRefunds(seen) \in Int
  BY <1>1, AccountsDistinct, ContestAssumption DEF EscrowAfterRefunds
<1>3. balance' \in [Accounts -> Int]
  BY <1>2, ContestAssumption DEF Refund
<1>4. balance'[Escrow] = EscrowAfterRefunds(seen)
  BY AccountsDistinct DEF Refund, ToRefund
<1> QED
  BY <1>3, <1>4 DEF EscrowAfterRefunds

LEMMA ElsewhereMovesNothing ==
  ASSUME balance \in [Accounts -> Int], NEW key \in ClientKeys, ChargeElsewhere(key)
  PROVE  balance' = balance
<1>1. balance' = [a \in Accounts |-> balance[a] + 0]
  BY DEF ChargeElsewhere, Books!Post, Books!Apply
<1> QED
  BY <1>1

(* The ledger's validity check vouches for the prizes it is handed.        *)
LEMMA PayoutType ==
  ASSUME NEW ranked, NEW gross, Books!Valid(SettlementLines(ranked, gross))
  PROVE  \A u \in Users : /\ Payout(ranked, gross)[u] \in Int
                          /\ SettlementLines(ranked, gross)[u] = Payout(ranked, gross)[u]
<1>1. \A u \in Users : SettlementLines(ranked, gross)[u] = Payout(ranked, gross)[u]
  BY AccountsDistinct DEF SettlementLines
<1>2. SettlementLines(ranked, gross) \in [Accounts -> Int]
  BY DEF Books!Valid
<1> QED
  BY <1>1, <1>2, AccountsDistinct

-----------------------------------------------------------------------------

LEMMA InitTypeOK == Init => TypeOK
<1> SUFFICES ASSUME Init PROVE TypeOK
  OBVIOUS
<1>1. balance \in [Accounts -> Int]
  BY ContestAssumption DEF Init, Books!Init
<1>2. /\ cancelling \in [Admins -> [at : {"idle", "read"}, seen : SUBSET Users, escrow : BOOLEAN]]
      /\ settling \in [Workers -> [at : {"idle", "read", "open"}, ranked : SUBSET Users, gross : Int]]
  BY DEF Init, NotCancelling, NotSettling
<1>3. prize \in [Users -> Int] /\ scored \in [Users -> SUBSET Matches]
  BY DEF Init
<1> QED
  BY <1>1, <1>2, <1>3 DEF Init, TypeOK

LEMMA NextTypeOK == TypeOK /\ [Next]_vars => TypeOK'
<1> SUFFICES ASSUME TypeOK, [Next]_vars PROVE TypeOK'
  OBVIOUS
<1> USE DEF TypeOK, ledgerVars, contestVars, worldVars, callVars
<1>1. CASE UNCHANGED vars
  BY <1>1 DEF vars
<1>2. CASE KickOff
  BY <1>2 DEF KickOff
<1>3. CASE RunLockJob \/ ForceLock \/ ExhaustLockJob
  BY <1>3 DEF RunLockJob, ForceLock, ExhaustLockJob, Lock
<1>4. ASSUME NEW a \in Admins,
             PublishCheck(a) \/ PublishCommit(a) \/ ScheduleLock(a) \/ LoseLockJob(a)
      PROVE  TypeOK'
  BY <1>4 DEF PublishCheck, PublishCommit, ScheduleLock, LoseLockJob
<1>5. ASSUME NEW a \in Admins, CancelRead(a) \/ CancelFails(a)
      PROVE  TypeOK'
  <2>1. cancelling' \in [Admins -> [at : {"idle", "read"}, seen : SUBSET Users, escrow : BOOLEAN]]
    <3>1. CASE CancelRead(a)
      BY <3>1 DEF CancelRead, Active
    <3>2. CASE CancelFails(a)
      BY <3>2 DEF CancelFails, CancelEnds, NotCancelling
    <3> QED
      BY <1>5, <3>1, <3>2
  <2> QED
    BY <1>5, <2>1 DEF CancelRead, CancelFails
<1>6. ASSUME NEW a \in Admins, CancelCommit(a)
      PROVE  TypeOK'
  <2>1. balance' \in [Accounts -> Int]
    BY <1>6, RefundType DEF CancelCommit
  <2> QED
    BY <1>6, <2>1 DEF CancelCommit, CancelEnds, NotCancelling
<1>7. ASSUME NEW u \in Users, NEW t \in Tabs, SubmitCheck(u, t) \/ SubmitFails(u, t)
      PROVE  TypeOK'
  BY <1>7 DEF SubmitCheck, SubmitFails, SubmitEnds
<1>8. ASSUME NEW u \in Users, NEW t \in Tabs, NEW key \in ClientKeys, SubmitCommit(u, t, key)
      PROVE  TypeOK'
  <2>1. balance' \in [Accounts -> Int]
    <3>1. Transfer(u, Escrow, Fee) \in [Accounts -> Int]
      <4>1. u \in Accounts /\ Escrow \in Accounts /\ Fee \in Int
        BY AccountsDistinct, ContestAssumption
      <4> QED
        BY <4>1, TransferType
    <3> QED
      BY <1>8, <3>1, ApplyType DEF SubmitCommit, ChargeFee, Books!Post
  <2>2. submitting' \in [Users \X Tabs -> BOOLEAN] /\ entry' \in [Users -> {"none", "ACTIVE", "REFUNDED", "SETTLED"}]
    BY <1>8 DEF SubmitCommit, SubmitEnds
  <2> QED
    BY <1>8, <2>1, <2>2 DEF SubmitCommit
<1>9. ASSUME NEW m \in Matches,
             \/ FinalizeResult(m) \/ SelectContest(m) \/ PassOverContest(m)
             \/ CountPending(m) \/ MarkScored(m) \/ ResultJobFails(m)
      PROVE  TypeOK'
  <2>1. CASE FinalizeResult(m)
    BY <2>1 DEF FinalizeResult
  <2>2. CASE SelectContest(m) \/ PassOverContest(m) \/ ResultJobFails(m)
    BY <2>2 DEF SelectContest, PassOverContest, ResultJobFails
  <2>3. CASE CountPending(m)
    BY <2>3 DEF CountPending, AckResult
  <2>4. CASE MarkScored(m)
    BY <2>4 DEF MarkScored, AckResult
  <2> QED
    BY <1>9, <2>1, <2>2, <2>3, <2>4
<1>10. ASSUME NEW m \in Matches, ScoreMatch(m)
       PROVE  TypeOK'
  BY <1>10 DEF ScoreMatch
<1>11. ASSUME NEW w \in Workers, DistributeRead(w) \/ DistributeOpen(w) \/ DistributeFails(w)
       PROVE  TypeOK'
  <2>1. settling' \in [Workers -> [at : {"idle", "read", "open"}, ranked : SUBSET Users, gross : Int]]
    <3>1. CASE DistributeRead(w)
      BY <3>1 DEF DistributeRead, Active
    <3>2. CASE DistributeOpen(w)
      BY <3>2, AccountsDistinct DEF DistributeOpen
    <3>3. CASE DistributeFails(w)
      BY <3>3 DEF DistributeFails, DistributeEnds, NotSettling
    <3> QED
      BY <1>11, <3>1, <3>2, <3>3
  <2> QED
    BY <1>11, <2>1 DEF DistributeRead, DistributeOpen, DistributeFails
<1>12. ASSUME NEW w \in Workers, DistributeNothing(w)
       PROVE  TypeOK'
  BY <1>12 DEF DistributeNothing, DistributeEnds, NotSettling, CloseContest
<1>13. ASSUME NEW w \in Workers, DistributePay(w)
       PROVE  TypeOK'
  <2> DEFINE ranked == settling[w].ranked
             gross == settling[w].gross
             lines == SettlementLines(ranked, gross)
  <2>1. Books!Valid(lines) /\ lines \in [Accounts -> Int]
    BY <1>13 DEF DistributePay, Books!Valid
  <2>2. balance' \in [Accounts -> Int]
    BY <1>13, <2>1, ApplyType DEF DistributePay, Books!Post
  <2>3. prize' \in [Users -> Int]
    BY <1>13, <2>1, PayoutType DEF DistributePay
  <2> QED
    BY <1>13, <2>2, <2>3 DEF DistributePay, DistributeEnds, NotSettling, CloseContest
<1>14. ASSUME NEW key \in ClientKeys, ChargeElsewhere(key)
       PROVE  TypeOK'
  BY <1>14, ElsewhereMovesNothing DEF ChargeElsewhere
<1> QED
  BY <1>1, <1>2, <1>3, <1>4, <1>5, <1>6, <1>7, <1>8, <1>9, <1>10, <1>11, <1>12, <1>13, <1>14 DEF Next

-----------------------------------------------------------------------------

LEMMA InitMoneyInv == Init => MoneyInv
<1> SUFFICES ASSUME Init PROVE MoneyInv
  OBVIOUS
<1>1. \A k : ~Posted(k)
  BY DEF Init, Books!Init, Books!NoJournal, Posted, Books!Posted
<1>2. /\ Active = {} /\ Entered = {}
      /\ Charged = {} /\ Replayed = {} /\ Refunded = {}
  BY <1>1 DEF Init, Active, Entered, Charged, Replayed, Refunded
<1>3. JournalOK /\ SeenEntered /\ RankedEntered
  BY <1>1 DEF Init, JournalOK, SeenEntered, RankedEntered, NotCancelling, NotSettling
<1>4. RefundsTracked
  BY <1>1 DEF Init, RefundsTracked
<1>5. EscrowCovered /\ EscrowBacksEntries
  <2>1. balance[Escrow] = 0 /\ Active \ Emptied = {}
    BY <1>2, ContestAssumption DEF Init, Books!Init
  <2>2. Fee * 0 = 0 /\ Fee * (0 - 0) = 0
    BY ContestAssumption
  <2> QED
    BY <1>2, <2>1, <2>2, FS_EmptySet DEF EscrowCovered, EscrowBacksEntries
<1>6. WalletExact
  BY <1>1, <1>2, ContestAssumption, AccountsDistinct DEF Init, Books!Init, WalletExact, Prized
<1> QED
  BY <1>3, <1>4, <1>5, <1>6 DEF MoneyInv

(* Most steps touch neither money nor what the invariant says of calls.    *)
LEMMA FrameMoneyInv == MoneyInv /\ UNCHANGED moneyVars => MoneyInv'
BY DEF moneyVars, MoneyInv, JournalOK, SeenEntered, RankedEntered, RefundsTracked,
       EscrowCovered, Emptied, EscrowBacksEntries, WalletExact, Posted, Books!Posted, Active,
       Entered, Charged, Replayed, Refunded, Prized

(* Nor do calls that read, or give up.                                     *)
LEMMA CallMoneyInv ==
  ASSUME MoneyInv, UNCHANGED <<balance, journal, entry>>,
         SeenEntered', RankedEntered', EscrowCovered'
  PROVE  MoneyInv'
BY DEF MoneyInv, JournalOK, RefundsTracked, EscrowBacksEntries, WalletExact, Posted,
       Books!Posted, Active, Entered, Charged, Replayed, Refunded, Prized

LEMMA CancelReadMoneyInv ==
  ASSUME IInv, NEW a \in Admins, CancelRead(a) \/ CancelFails(a)
  PROVE  MoneyInv'
<1> USE DEF IInv, MoneyInv
<1>1. UNCHANGED <<balance, journal, entry, settling>>
  BY DEF CancelRead, CancelFails, ledgerVars, contestVars
<1>2. Entered' = Entered /\ Active \subseteq Entered
  BY <1>1 DEF Entered, Active
<1>3. cancelling'[a].seen \in {Active, {}} /\ \A b \in Admins \ {a} : cancelling'[b] = cancelling[b]
  <2>1. CASE CancelRead(a)
    BY <2>1 DEF CancelRead, TypeOK
  <2>2. CASE CancelFails(a)
    BY <2>2 DEF CancelFails, CancelEnds, NotCancelling, TypeOK
  <2> QED
    BY <2>1, <2>2
<1>4. SeenEntered'
  BY <1>2, <1>3 DEF SeenEntered
<1>5. RankedEntered' /\ EscrowCovered'
  BY <1>1, <1>2 DEF RankedEntered, EscrowCovered, Emptied, Active, Posted, Books!Posted
<1> QED
  BY <1>1, <1>4, <1>5, CallMoneyInv

(* A settlement that is dropped, or that closes entries which no fee in    *)
(* escrow belongs to, leaves the others to account for all.                *)
LEMMA CoveredByOthers ==
  ASSUME TypeOK, EscrowCovered, Posted(SettlementKey)' <=> Posted(SettlementKey),
         UNCHANGED balance, Active \ Emptied \subseteq (Active \ Emptied)',
         Active' \subseteq Users
  PROVE  EscrowCovered'
<1> DEFINE before == Active \ Emptied
           after == (Active \ Emptied)'
<1>1. after \in SUBSET Users /\ before \in SUBSET after
  OBVIOUS
<1>2. Fee * Cardinality(before) \in Nat /\ Fee * Cardinality(after) \in Nat
      /\ Fee * Cardinality(before) <= Fee * Cardinality(after)
  BY <1>1, FeesGrow
<1>3. balance[Escrow] \in Int
  BY AccountsDistinct DEF TypeOK
<1> HIDE DEF before, after
<1> QED
  BY <1>2, <1>3 DEF EscrowCovered, before, after

LEMMA DistributeReadMoneyInv ==
  ASSUME IInv, NEW w \in Workers, DistributeRead(w) \/ DistributeOpen(w) \/ DistributeFails(w)
  PROVE  MoneyInv'
<1> USE DEF IInv, MoneyInv
<1>1. UNCHANGED <<balance, journal, entry, cancelling>>
  BY DEF DistributeRead, DistributeOpen, DistributeFails, ledgerVars, contestVars
<1>2. /\ Entered' = Entered /\ Active' = Active /\ Active \subseteq Entered /\ Active \subseteq Users
      /\ \A k : Posted(k)' = Posted(k)
  BY <1>1 DEF Entered, Active, Posted, Books!Posted
<1>3. \A v \in Workers \ {w} : settling'[v] = settling[v]
  BY DEF DistributeRead, DistributeOpen, DistributeFails, DistributeEnds, TypeOK
<1>4. SeenEntered'
  BY <1>1, <1>2 DEF SeenEntered
<1>5. ASSUME ~(settling'[w].at = "open" /\ settling'[w].gross = 0) PROVE EscrowCovered'
  <2>1. Emptied' \subseteq Emptied
    BY <1>3, <1>5 DEF Emptied
  <2> QED
    BY <1>1, <1>2, <2>1, CoveredByOthers
<1>6. CASE DistributeRead(w)
  <2>1. settling'[w].ranked = Active /\ settling'[w].at = "read"
    BY <1>6 DEF DistributeRead, TypeOK
  <2>2. RankedEntered'
    BY <1>2, <1>3, <2>1 DEF RankedEntered
  <2> QED
    BY <1>1, <1>4, <1>5, <2>1, <2>2, CallMoneyInv
<1>7. CASE DistributeOpen(w)
  <2>1. settling'[w].ranked = settling[w].ranked /\ settling'[w].gross = balance[Escrow]
    BY <1>7 DEF DistributeOpen, TypeOK
  <2>2. RankedEntered'
    BY <1>2, <1>3, <2>1 DEF RankedEntered
  <2>3. CASE balance[Escrow] = 0
    <3>1. (Active \ Emptied)' \in SUBSET Users
      BY <1>2
    <3>2. Fee * Cardinality((Active \ Emptied)') \in Nat
      BY <3>1, FeesGrow
    <3>3. EscrowCovered'
      BY <1>1, <2>3, <3>2 DEF EscrowCovered
    <3> QED
      BY <1>1, <1>4, <2>2, <3>3, CallMoneyInv
  <2>4. CASE balance[Escrow] # 0
    BY <1>1, <1>4, <1>5, <2>1, <2>2, <2>4, CallMoneyInv
  <2> QED
    BY <2>3, <2>4
<1>8. CASE DistributeFails(w)
  <2>1. settling'[w].ranked = {} /\ settling'[w].at = "idle"
    BY <1>8 DEF DistributeFails, DistributeEnds, NotSettling, TypeOK
  <2>2. RankedEntered'
    BY <1>2, <1>3, <2>1 DEF RankedEntered
  <2> QED
    BY <1>1, <1>4, <1>5, <2>1, <2>2, CallMoneyInv
<1> QED
  BY <1>6, <1>7, <1>8

-----------------------------------------------------------------------------
(* The steps that move money.                                              *)

LEMMA ElsewhereMoneyInv ==
  ASSUME IInv, NEW key \in ClientKeys, ChargeElsewhere(key)
  PROVE  MoneyInv'
<1> USE DEF IInv, MoneyInv
<1> DEFINE lines == [a \in Accounts |-> 0]
<1>1. /\ ~Posted(EntryKey(key))
      /\ journal' = Books!Record(journal, EntryKey(key), lines)
      /\ UNCHANGED <<balance, entry, cancelling, settling>>
  BY ElsewhereMovesNothing DEF ChargeElsewhere, Books!Post, Posted, Books!Posted, TypeOK,
     contestVars, callVars
<1>2. /\ \A v \in Users : Posted(RefundKey(v))' = Posted(RefundKey(v))
      /\ Posted(SettlementKey)' = Posted(SettlementKey)
      /\ Posted(SettlementKey) => journal'[SettlementKey] = journal[SettlementKey]
  BY <1>1, KeysDistinct DEF Books!Record, Posted, Books!Posted
<1>3. /\ \A k \in ClientKeys \ {key} :
           /\ Posted(EntryKey(k))' <=> Posted(EntryKey(k))
           /\ Posted(EntryKey(k)) => journal'[EntryKey(k)] = journal[EntryKey(k)]
      /\ Posted(EntryKey(key))' /\ journal'[EntryKey(key)] = lines
  BY <1>1, KeysDistinct DEF Books!Record, Posted, Books!Posted
<1>4. Charged' = Charged
  <2>1. \A u \in Users : ~(lines[u] < 0)
    BY AccountsDistinct
  <2> HIDE DEF lines
  <2> QED
    BY <1>1, <1>3, <2>1 DEF Charged
<1>5. /\ Active' = Active /\ Entered' = Entered /\ Replayed' = Replayed
      /\ Refunded' = Refunded /\ Emptied' = Emptied
  BY <1>1, <1>2, <1>4 DEF Active, Entered, Replayed, Refunded, Emptied
<1>6. JournalOK' /\ SeenEntered' /\ RankedEntered' /\ RefundsTracked'
  BY <1>1, <1>2, <1>5 DEF JournalOK, SeenEntered, RankedEntered, RefundsTracked
<1>7. EscrowCovered' /\ EscrowBacksEntries'
  BY <1>1, <1>2, <1>4, <1>5 DEF EscrowCovered, EscrowBacksEntries
<1>8. WalletExact'
  BY <1>1, <1>2, <1>4, <1>5 DEF WalletExact, Prized
<1> QED
  BY <1>6, <1>7, <1>8

(* An entry on a fresh key brings its fee along.                           *)
LEMMA FreshMoneyInv ==
  ASSUME IInv, NEW u \in Users, NEW t \in Tabs, NEW key \in ClientKeys,
         SubmitCommit(u, t, key), ~Posted(EntryKey(key))
  PROVE  MoneyInv'
<1> USE DEF IInv, MoneyInv
<1> DEFINE lines == Transfer(u, Escrow, Fee)
<1>1. /\ entry[u] = "none" /\ entry' = [entry EXCEPT ![u] = "ACTIVE"]
      /\ UNCHANGED <<cancelling, settling>>
  BY DEF SubmitCommit
<1>2. /\ balance' = Books!Apply(balance, lines)
      /\ journal' = Books!Record(journal, EntryKey(key), lines)
  BY DEF SubmitCommit, ChargeFee, Books!Post
<1>3. /\ \A v \in Users : Posted(RefundKey(v))' = Posted(RefundKey(v))
      /\ Posted(SettlementKey)' = Posted(SettlementKey)
      /\ Posted(SettlementKey) => journal'[SettlementKey] = journal[SettlementKey]
      /\ \A k \in ClientKeys \ {key} :
           /\ Posted(EntryKey(k))' <=> Posted(EntryKey(k))
           /\ Posted(EntryKey(k)) => journal'[EntryKey(k)] = journal[EntryKey(k)]
      /\ Posted(EntryKey(key))' /\ journal'[EntryKey(key)] = lines
  BY <1>2, KeysDistinct DEF Books!Record, Posted, Books!Posted
<1>4. /\ balance'[Escrow] = balance[Escrow] + Fee
      /\ balance'[u] = balance[u] - Fee
      /\ \A v \in Users \ {u} : balance'[v] = balance[v]
  BY <1>2, AccountsDistinct, ContestAssumption DEF Books!Apply, Transfer, TypeOK
<1>5. /\ Active' = Active \cup {u} /\ u \notin Active /\ Active \subseteq Users
      /\ Entered' = Entered \cup {u} /\ u \notin Entered
  BY <1>1 DEF Active, Entered, TypeOK
<1>6. Charged' = Charged \cup {u} /\ u \notin Charged /\ Charged \subseteq Users
  <2>1. \A v \in Users : lines[v] < 0 <=> v = u
    BY AccountsDistinct, ContestAssumption DEF Transfer
  <2> HIDE DEF lines
  <2>2. u \notin Charged /\ Charged \subseteq Users
    BY <1>5 DEF WalletExact, Charged
  <2>3. Charged' = Charged \cup {u}
    BY <1>3, <2>1 DEF Charged
  <2> QED
    BY <2>2, <2>3
<1>7. Replayed' = Replayed /\ Refunded' = Refunded /\ Refunded \subseteq Users
  BY <1>3, <1>5, <1>6 DEF Replayed, Refunded
<1>8. JournalOK' /\ SeenEntered' /\ RankedEntered'
  BY <1>1, <1>3, <1>5 DEF JournalOK, SeenEntered, RankedEntered
<1>9. RefundsTracked'
  BY <1>1, <1>3, <1>7 DEF RefundsTracked, TypeOK
<1>10. \A n \in Int : Fee * (n + 1) = Fee * n + Fee
  BY ContestAssumption
<1>11. balance[Escrow] \in Int /\ Fee \in Nat
  BY AccountsDistinct, ContestAssumption DEF TypeOK
<1>12. EscrowCovered'
  <2> DEFINE others == Active \ Emptied
  <2>1. (Active \ Emptied)' = others \cup {u} /\ u \notin others
    BY <1>1, <1>5 DEF Emptied, RankedEntered
  <2>2. Cardinality(others \cup {u}) = Cardinality(others) + 1 /\ Cardinality(others) \in Nat
    BY <1>5, <2>1, SubsetOfUsers, FS_AddElement
  <2>3. Fee * Cardinality((Active \ Emptied)') = Fee * Cardinality(others) + Fee
    BY <1>10, <2>1, <2>2
  <2>4. Fee * Cardinality(others) \in Int
    BY <1>11, <2>2
  <2> HIDE DEF others
  <2> QED
    BY <1>3, <1>4, <1>11, <2>3, <2>4 DEF EscrowCovered, others
<1>13. EscrowBacksEntries'
  <2>1. /\ Cardinality(Active') = Cardinality(Active) + 1
        /\ Cardinality(Charged') = Cardinality(Charged) + 1
        /\ Cardinality(Refunded') = Cardinality(Refunded)
    BY <1>5, <1>6, <1>7, SubsetOfUsers, FS_AddElement
  <2>2. /\ Cardinality(Active) \in Nat /\ Cardinality(Charged) \in Nat
        /\ Cardinality(Refunded) \in Nat
    BY <1>5, <1>6, <1>7, SubsetOfUsers
  <2> DEFINE active == Cardinality(Active)
             paid == Cardinality(Charged) - Cardinality(Refunded)
  <2>3. active \in Int /\ paid \in Int /\ Cardinality(Active') = active + 1
        /\ Cardinality(Charged') - Cardinality(Refunded') = paid + 1
    BY <2>1, <2>2
  <2> HIDE DEF active, paid
  <2>4. /\ Fee * Cardinality(Active') = Fee * active + Fee
        /\ Fee * (Cardinality(Charged') - Cardinality(Refunded')) = Fee * paid + Fee
        /\ Fee * active \in Int
    BY <1>10, <1>11, <2>3
  <2> QED
    BY <1>3, <1>4, <1>7, <1>11, <2>4 DEF EscrowBacksEntries, active, paid
<1>14. WalletExact'
  <2>1. \A v \in Users : Prized(v)' = Prized(v)
    BY <1>3 DEF Prized
  <2>2. \A v \in Users : Prized(v) \in Int /\ balance[v] \in Int /\ Opening[v] \in Int
    BY AccountsDistinct, ContestAssumption DEF Prized, JournalOK, TypeOK
  <2>3. /\ \A v \in Users \ {u} : v \in Charged' <=> v \in Charged
        /\ Charged' \subseteq Entered'
    BY <1>5, <1>6 DEF WalletExact
  <2> QED
    BY <1>4, <1>6, <1>7, <2>1, <2>2, <2>3, ContestAssumption DEF WalletExact
<1> QED
  BY <1>8, <1>9, <1>12, <1>13, <1>14

(* An entry on a used key adds to what the escrow may owe, and nothing to  *)
(* what it holds.                                                          *)
LEMMA ReplayMoneyInv ==
  ASSUME IInv, NEW u \in Users, NEW t \in Tabs, NEW key \in ClientKeys,
         SubmitCommit(u, t, key), Posted(EntryKey(key))
  PROVE  MoneyInv'
<1> USE DEF IInv, MoneyInv
<1>1. /\ entry[u] = "none" /\ entry' = [entry EXCEPT ![u] = "ACTIVE"]
      /\ UNCHANGED <<balance, journal, cancelling, settling>>
  BY DEF SubmitCommit, ChargeFee, ledgerVars
<1>2. \A k : Posted(k)' <=> Posted(k)
  BY <1>1 DEF Posted, Books!Posted
<1>3. /\ Active' = Active \cup {u} /\ Active' \subseteq Users
      /\ Entered' = Entered \cup {u} /\ u \notin Entered
  BY <1>1 DEF Active, Entered, TypeOK
<1>4. Charged' = Charged /\ Refunded' = Refunded /\ Emptied' = Emptied
  BY <1>1, <1>2 DEF Charged, Refunded, Emptied
<1>5. Replayed' # {}
  BY <1>3, <1>4 DEF Replayed, WalletExact
<1>6. JournalOK' /\ SeenEntered' /\ RankedEntered' /\ RefundsTracked'
  BY <1>1, <1>2, <1>3, <1>5 DEF JournalOK, SeenEntered, RankedEntered, RefundsTracked, TypeOK
<1>7. EscrowCovered'
  BY <1>1, <1>2, <1>3, <1>4, CoveredByOthers
<1>8. EscrowBacksEntries'
  <2>1. Active' \in SUBSET Users /\ Active \in SUBSET Active'
    BY <1>3
  <2>2. /\ Fee * Cardinality(Active) \in Nat /\ Fee * Cardinality(Active') \in Nat
        /\ Fee * Cardinality(Active) <= Fee * Cardinality(Active')
    BY <2>1, FeesGrow
  <2>3. balance[Escrow] \in Int
    BY AccountsDistinct DEF TypeOK
  <2> QED
    BY <1>1, <1>2, <1>4, <1>5, <2>2, <2>3 DEF EscrowBacksEntries
<1>9. WalletExact'
  BY <1>1, <1>2, <1>3, <1>4 DEF WalletExact, Prized
<1> QED
  BY <1>6, <1>7, <1>8, <1>9

LEMMA SubmitMoneyInv ==
  ASSUME IInv, NEW u \in Users, NEW t \in Tabs, NEW key \in ClientKeys, SubmitCommit(u, t, key)
  PROVE  MoneyInv'
BY FreshMoneyInv, ReplayMoneyInv

(* The refunds journaled now include those of the entries read that are    *)
(* still ACTIVE; while every entry paid for itself, they are no others,    *)
(* unless the prizes are out already.                                      *)
LEMMA CancelMoneyInv ==
  ASSUME IInv, NEW a \in Admins, CancelCommit(a)
  PROVE  MoneyInv'
<1> USE DEF IInv, MoneyInv
<1> DEFINE seen == cancelling[a].seen
<1>1. /\ Refund(seen) /\ settling' = settling
      /\ entry' = [u \in Users |-> IF u \in seen THEN "REFUNDED" ELSE entry[u]]
      /\ cancelling' = [cancelling EXCEPT ![a] = NotCancelling]
      /\ EscrowAfterRefunds(seen) >= 0
  BY DEF CancelCommit, CancelEnds
<1>2. seen \subseteq Users /\ seen \subseteq Entered
  BY DEF TypeOK, SeenEntered
<1>3. /\ \A u \in Users : Posted(RefundKey(u))' <=> Posted(RefundKey(u)) \/ u \in seen
      /\ Posted(SettlementKey)' = Posted(SettlementKey)
      /\ Posted(SettlementKey) => journal'[SettlementKey] = journal[SettlementKey]
      /\ \A key \in ClientKeys :
           /\ Posted(EntryKey(key))' <=> Posted(EntryKey(key))
           /\ Posted(EntryKey(key)) => journal'[EntryKey(key)] = journal[EntryKey(key)]
  BY <1>1, <1>2, KeysDistinct DEF Refund, ToRefund, Posted, Books!Posted
<1>4. Charged' = Charged
  BY <1>3, ChargedStands
<1>5. balance'[Escrow] = balance[Escrow] - Fee * Cardinality(ToRefund(seen))
  BY <1>1, <1>2, RefundType DEF TypeOK
<1>6. \A u \in Users : balance'[u] = IF u \in ToRefund(seen) THEN balance[u] + Fee ELSE balance[u]
  BY <1>1, AccountsDistinct DEF Refund
<1>7. /\ Entered' = Entered /\ Active' = Active \ seen /\ Replayed' = Replayed
      /\ Emptied' = Emptied
      /\ Refunded' = Refunded \cup ToRefund(seen) /\ Refunded \cap ToRefund(seen) = {}
  BY <1>1, <1>2, <1>3, <1>4 DEF Entered, Active, Replayed, Emptied, Refunded, ToRefund, TypeOK
<1>8. JournalOK'
  BY <1>3 DEF JournalOK
<1>9. SeenEntered' /\ RankedEntered'
  BY <1>1, <1>7 DEF SeenEntered, RankedEntered, NotCancelling, TypeOK
<1>10. RefundsTracked'
  BY <1>1, <1>2, <1>3, <1>7 DEF RefundsTracked, Entered, TypeOK
<1> DEFINE back == ToRefund(seen)
<1>a. /\ back \in SUBSET Users /\ Active \in SUBSET Users /\ Active \cap seen \subseteq back
      /\ balance[Escrow] \in Int
  BY <1>2, AccountsDistinct DEF ToRefund, Active, RefundsTracked, TypeOK
<1>b. \A m, n \in Nat : Fee * (m - n) = Fee * m - Fee * n
  BY ContestAssumption
<1>11. EscrowCovered'
  <2> DEFINE others == Active \ Emptied
  <2>1. /\ others \in SUBSET Users /\ others \cap seen \in SUBSET back
        /\ (Active \ Emptied)' = others \ seen
    BY <1>7, <1>a
  <2>2. /\ Cardinality(others \ seen) = Cardinality(others) - Cardinality(others \cap seen)
        /\ Cardinality(others) \in Nat /\ Cardinality(others \cap seen) \in Nat
    BY <1>2, <2>1, SubsetOfUsers, FS_Difference
  <2>3. /\ Fee * Cardinality(others \cap seen) <= Fee * Cardinality(back)
        /\ Fee * Cardinality(others \cap seen) \in Nat /\ Fee * Cardinality(back) \in Nat
    BY <1>a, <2>1, FeesGrow
  <2>4. Fee * Cardinality(others) \in Nat
    BY <2>1, FeesGrow
  <2>5. Fee * Cardinality((Active \ Emptied)')
          = Fee * Cardinality(others) - Fee * Cardinality(others \cap seen)
    BY <1>b, <2>1, <2>2
  <2>6. 0 <= balance'[Escrow]
    BY <1>1, <1>5 DEF EscrowAfterRefunds
  <2> HIDE DEF others, back
  <2> QED
    BY <1>3, <1>5, <1>a, <2>3, <2>4, <2>5, <2>6 DEF EscrowCovered, others, back
<1>12. EscrowBacksEntries'
  <2> SUFFICES ASSUME ~Posted(SettlementKey)
               PROVE  /\ balance'[Escrow] = Fee * (Cardinality(Charged') - Cardinality(Refunded'))
                      /\ balance'[Escrow] <= Fee * Cardinality(Active')
                      /\ Replayed = {} => balance'[Escrow] = Fee * Cardinality(Active')
    BY <1>3, <1>7 DEF EscrowBacksEntries
  <2>1. balance'[Escrow] = Fee * (Cardinality(Charged') - Cardinality(Refunded'))
    <3>1. /\ Cardinality(Refunded') = Cardinality(Refunded) + Cardinality(back)
          /\ Cardinality(Refunded) \in Nat /\ Cardinality(back) \in Nat
          /\ Cardinality(Charged) \in Nat
      <4>1. IsFiniteSet(Refunded) /\ IsFiniteSet(back) /\ IsFiniteSet(Charged)
        BY <1>a, SubsetOfUsers DEF Refunded, Charged
      <4>2. /\ Cardinality(Refunded) \in Nat /\ Cardinality(back) \in Nat
            /\ Cardinality(Charged) \in Nat
        BY <4>1, FS_CardinalityType
      <4>3. Cardinality(Refunded \cup back)
              = Cardinality(Refunded) + Cardinality(back) - Cardinality(Refunded \cap back)
        BY <4>1, FS_Union
      <4>4. Refunded' = Refunded \cup back /\ Cardinality(Refunded \cap back) = 0
        BY <1>7, FS_EmptySet
      <4> HIDE DEF back
      <4> QED
        BY <4>2, <4>3, <4>4
    <3> DEFINE charged == Cardinality(Charged)
               refunded == Cardinality(Refunded)
               n == Cardinality(back)
    <3>2. balance[Escrow] = Fee * (charged - refunded)
      BY DEF EscrowBacksEntries
    <3>3. Cardinality(Charged') - Cardinality(Refunded') = charged - (refunded + n)
      BY <1>4, <3>1
    <3>4. \A x, y, z \in Nat : Fee * (x - y) - Fee * z = Fee * (x - (y + z))
      BY ContestAssumption
    <3>5. balance'[Escrow] = balance[Escrow] - Fee * n
      BY <1>5
    <3>6. charged \in Nat /\ refunded \in Nat /\ n \in Nat
      BY <3>1
    <3> HIDE DEF charged, refunded, n
    <3> QED
      BY <3>2, <3>3, <3>4, <3>5, <3>6
  <2>2. balance'[Escrow] <= Fee * Cardinality(Active')
    <3>1. Active' \in SUBSET Users /\ (Active \ Emptied)' \in SUBSET Active'
      BY <1>7, <1>a
    <3>2. /\ Fee * Cardinality(Active') \in Nat
          /\ Fee * Cardinality((Active \ Emptied)') \in Nat
          /\ Fee * Cardinality((Active \ Emptied)') <= Fee * Cardinality(Active')
      BY <3>1, FeesGrow
    <3>3. balance'[Escrow] \in Int
      <4>1. Fee * Cardinality(back) \in Nat
        BY <1>a, FeesGrow
      <4> HIDE DEF back
      <4> QED
        BY <1>5, <1>a, <4>1 DEF back
    <3> QED
      BY <1>3, <1>11, <3>2, <3>3 DEF EscrowCovered
  <2>3. ASSUME Replayed = {} PROVE balance'[Escrow] = Fee * Cardinality(Active')
    <3>1. back = Active \cap seen
      <4>1. \A u \in seen : entry[u] \in {"ACTIVE", "REFUNDED", "SETTLED"}
        BY <1>2 DEF Entered, TypeOK
      <4> QED
        BY <1>2, <2>3, <4>1 DEF ToRefund, Active, RefundsTracked
    <3> HIDE DEF back
    <3>2. Cardinality(Active \ seen) = Cardinality(Active) - Cardinality(Active \cap seen)
      BY <1>2, <1>a, SubsetOfUsers, FS_Difference
    <3>3. Cardinality(Active) \in Nat /\ Cardinality(Active \cap seen) \in Nat
      BY <1>a, SubsetOfUsers
    <3>4. balance[Escrow] = Fee * Cardinality(Active)
      BY <2>3 DEF EscrowBacksEntries
    <3> QED
      BY <1>5, <1>7, <1>b, <3>1, <3>2, <3>3, <3>4 DEF back
  <2> QED
    BY <2>1, <2>2, <2>3
<1>13. WalletExact'
  <2>1. \A u \in Users : Prized(u)' = Prized(u)
    BY <1>3 DEF Prized
  <2>2. \A u \in Users : Prized(u) \in Int /\ balance[u] \in Int /\ Opening[u] \in Int
    BY AccountsDistinct, ContestAssumption DEF Prized, JournalOK, TypeOK
  <2>3. \A u \in Users : u \in Refunded' <=> u \in Refunded \/ u \in ToRefund(seen)
    BY <1>7
  <2> QED
    BY <1>4, <1>6, <1>7, <2>1, <2>2, <2>3, ContestAssumption DEF WalletExact
<1> QED
  BY <1>8, <1>9, <1>10, <1>11, <1>12, <1>13

(* Prizes out, or no fee in escrow is a ranked entry's: closing the        *)
(* entries then takes none from it.                                        *)
LEMMA DistributeMoneyInv ==
  ASSUME IInv, NEW w \in Workers, DistributePay(w) \/ DistributeNothing(w)
  PROVE  MoneyInv'
<1> USE DEF IInv, MoneyInv
<1> DEFINE ranked == settling[w].ranked
           gross == settling[w].gross
           lines == SettlementLines(ranked, gross)
<1>1. /\ entry' = [u \in Users |-> IF u \in ranked THEN "SETTLED" ELSE entry[u]]
      /\ settling' = [settling EXCEPT ![w] = NotSettling]
      /\ cancelling' = cancelling
  BY DEF DistributePay, DistributeNothing, CloseContest, DistributeEnds
<1>2. ranked \subseteq Users /\ ranked \subseteq Entered
  BY DEF TypeOK, RankedEntered
<1>3. Entered' = Entered /\ Active' = Active \ ranked
  BY <1>1, <1>2 DEF Entered, Active, TypeOK
<1>4. SeenEntered' /\ RankedEntered'
  BY <1>1, <1>3 DEF SeenEntered, RankedEntered, NotSettling, TypeOK
<1>5. CASE UNCHANGED ledgerVars
  <2>1. UNCHANGED <<balance, journal>> /\ \A k : Posted(k)' = Posted(k)
    BY <1>5 DEF ledgerVars, Posted, Books!Posted
  <2>2. Charged' = Charged /\ Replayed' = Replayed /\ Refunded' = Refunded
    BY <1>3, <2>1 DEF Charged, Replayed, Refunded
  <2>3. JournalOK' /\ WalletExact'
    BY <1>3, <2>1, <2>2 DEF JournalOK, WalletExact, Prized
  <2>4. ~Posted(SettlementKey) => ranked \subseteq Emptied
    <3>1. ~Posted(SettlementKey) => settling[w].at = "open" /\ (gross = 0 \/ ranked = {})
      BY <1>5 DEF DistributePay, DistributeNothing, Books!Post, ledgerVars, Posted, Books!Posted,
                  Books!Record
    <3> QED
      BY <3>1 DEF Emptied
  <2>5. Emptied' \subseteq Emptied
    BY <1>1 DEF Emptied, NotSettling, TypeOK
  <2>6. EscrowCovered'
    <3>1. CASE Posted(SettlementKey)
      BY <2>1, <3>1 DEF EscrowCovered
    <3>2. CASE ~Posted(SettlementKey)
      <4>1. Active \ Emptied \subseteq (Active \ Emptied)' /\ Active' \subseteq Users
        BY <1>3, <2>4, <2>5, <3>2 DEF Active
      <4> QED
        BY <2>1, <4>1, CoveredByOthers
    <3> QED
      BY <3>1, <3>2
  <2>7. ~Posted(SettlementKey) /\ Replayed = {} => Active \cap ranked = {}
    <3> SUFFICES ASSUME ~Posted(SettlementKey), Replayed = {}
                 PROVE  Active \cap Emptied = {}
      BY <2>4
    <3>1. Active \in SUBSET Users /\ Active \ Emptied \in SUBSET Active
      BY DEF Active
    <3>2. Fee * Cardinality(Active) <= Fee * Cardinality(Active \ Emptied)
      BY DEF EscrowBacksEntries, EscrowCovered
    <3>3. /\ Cardinality(Active) \in Nat /\ Cardinality(Active \ Emptied) \in Nat
          /\ Cardinality(Active \ Emptied) <= Cardinality(Active)
          /\ Cardinality(Active) = Cardinality(Active \ Emptied) => Active = Active \ Emptied
      BY <3>1, SubsetOfUsers, FS_Subset
    <3>4. \A m, n \in Nat : Fee * m <= Fee * n => m <= n
      BY ContestAssumption
    <3>5. Cardinality(Active) = Cardinality(Active \ Emptied)
      BY <3>2, <3>3, <3>4
    <3> QED
      BY <3>3, <3>5
  <2>8. RefundsTracked'
    <3>1. ASSUME NEW u \in Users, ~Posted(SettlementKey), Replayed = {}, u \in ranked
          PROVE  Posted(RefundKey(u))
      <4>1. entry[u] \in {"REFUNDED", "SETTLED"}
        BY <1>2, <2>7, <3>1 DEF Active, Entered, TypeOK
      <4> QED
        BY <3>1, <4>1 DEF RefundsTracked
    <3> QED
      BY <1>1, <1>2, <2>1, <2>2, <3>1 DEF RefundsTracked, TypeOK
  <2>9. EscrowBacksEntries'
    <3> SUFFICES ASSUME ~Posted(SettlementKey)
                 PROVE  /\ balance[Escrow] = Fee * (Cardinality(Charged) - Cardinality(Refunded))
                        /\ balance[Escrow] <= Fee * Cardinality(Active')
                        /\ Replayed = {} => balance[Escrow] = Fee * Cardinality(Active')
      BY <2>1, <2>2 DEF EscrowBacksEntries
    <3>1. Replayed = {} => Active' = Active
      BY <1>3, <2>7
    <3>2. Active' \in SUBSET Users /\ (Active \ Emptied)' \in SUBSET Active'
      BY <1>3 DEF Active
    <3>3. /\ Fee * Cardinality(Active') \in Nat
          /\ Fee * Cardinality((Active \ Emptied)') \in Nat
          /\ Fee * Cardinality((Active \ Emptied)') <= Fee * Cardinality(Active')
      BY <3>2, FeesGrow
    <3>4. balance[Escrow] \in Int
      BY AccountsDistinct DEF TypeOK
    <3>5. balance[Escrow] <= Fee * Cardinality(Active')
      BY <2>1, <2>6, <3>3, <3>4 DEF EscrowCovered
    <3> QED
      BY <3>1, <3>5 DEF EscrowBacksEntries
  <2> QED
    BY <1>4, <2>3, <2>6, <2>8, <2>9
<1>6. CASE DistributePay(w) /\ ~Posted(SettlementKey)
  <2>1. /\ Books!Valid(lines) /\ lines \in [Accounts -> Int]
        /\ balance' = Books!Apply(balance, lines)
        /\ journal' = Books!Record(journal, SettlementKey, lines)
    BY <1>6 DEF DistributePay, Books!Post, Books!Valid
  <2>2. /\ Posted(SettlementKey)' /\ journal'[SettlementKey] = lines
        /\ \A u \in Users : Posted(RefundKey(u))' = Posted(RefundKey(u))
        /\ \A key \in ClientKeys :
             /\ Posted(EntryKey(key))' <=> Posted(EntryKey(key))
             /\ Posted(EntryKey(key)) => journal'[EntryKey(key)] = journal[EntryKey(key)]
    BY <2>1, KeysDistinct DEF Books!Record, Posted, Books!Posted
  <2>3. JournalOK' /\ EscrowCovered' /\ EscrowBacksEntries'
    BY <2>1, <2>2 DEF JournalOK, EscrowCovered, EscrowBacksEntries
  <2>4. RefundsTracked'
    BY <1>1, <2>2 DEF RefundsTracked, TypeOK
  <2>5. WalletExact'
    <3>1. \A u \in Users : balance'[u] = balance[u] + lines[u] /\ Prized(u)' = lines[u] /\ Prized(u) = 0
      BY <1>6, <2>1, <2>2, AccountsDistinct DEF Books!Apply, Prized
    <3>2. \A u \in Users : lines[u] \in Int /\ balance[u] \in Int /\ Opening[u] \in Int
      BY <2>1, AccountsDistinct, ContestAssumption DEF TypeOK
    <3>3. Charged' = Charged /\ Refunded' = Refunded
      BY <2>2, ChargedStands DEF Refunded
    <3> QED
      BY <1>3, <3>1, <3>2, <3>3, ContestAssumption DEF WalletExact
  <2> QED
    BY <1>4, <2>3, <2>4, <2>5
<1>7. UNCHANGED ledgerVars \/ (DistributePay(w) /\ ~Posted(SettlementKey))
  BY DEF DistributePay, DistributeNothing
<1> QED
  BY <1>5, <1>6, <1>7

-----------------------------------------------------------------------------

LEMMA NextMoneyInv == IInv /\ [Next]_vars => MoneyInv'
<1> SUFFICES ASSUME IInv, [Next]_vars PROVE MoneyInv'
  OBVIOUS
<1> USE DEF ledgerVars, contestVars, worldVars, callVars
<1>1. CASE UNCHANGED moneyVars
  BY <1>1, FrameMoneyInv DEF IInv
<1>2. CASE UNCHANGED vars
  BY <1>1, <1>2 DEF vars, moneyVars
<1>3. CASE KickOff \/ RunLockJob \/ ExhaustLockJob \/ ForceLock
  BY <1>1, <1>3 DEF KickOff, RunLockJob, ExhaustLockJob, ForceLock, Lock, moneyVars
<1>4. ASSUME NEW a \in Admins,
             PublishCheck(a) \/ PublishCommit(a) \/ ScheduleLock(a) \/ LoseLockJob(a)
      PROVE  MoneyInv'
  BY <1>1, <1>4 DEF PublishCheck, PublishCommit, ScheduleLock, LoseLockJob, moneyVars
<1>5. ASSUME NEW u \in Users, NEW t \in Tabs, SubmitCheck(u, t) \/ SubmitFails(u, t)
      PROVE  MoneyInv'
  BY <1>1, <1>5 DEF SubmitCheck, SubmitFails, moneyVars
<1>6. ASSUME NEW m \in Matches,
             \/ FinalizeResult(m) \/ SelectContest(m) \/ PassOverContest(m) \/ ScoreMatch(m)
             \/ CountPending(m) \/ MarkScored(m) \/ ResultJobFails(m)
      PROVE  MoneyInv'
  BY <1>1, <1>6 DEF FinalizeResult, SelectContest, PassOverContest, ScoreMatch, CountPending,
                    MarkScored, ResultJobFails, moneyVars
<1> QED
  BY <1>2, <1>3, <1>4, <1>5, <1>6, CancelReadMoneyInv, CancelMoneyInv, SubmitMoneyInv,
     ElsewhereMoneyInv, DistributeReadMoneyInv, DistributeMoneyInv
  DEF Next

(* Every state of a contest satisfies the typing and the accounting parts  *)
(* of the invariant.                                                       *)
THEOREM Invariance == Spec => []IInv
<1>1. Init => IInv
  BY InitTypeOK, InitMoneyInv DEF IInv
<1>2. IInv /\ [Next]_vars => IInv'
  BY NextTypeOK, NextMoneyInv DEF IInv
<1> QED
  BY <1>1, <1>2, PTL DEF Spec

(* Statuses, calls in flight and balances keep their ranges: in particular *)
(* an event is only ever pending for a stored result, and a call only ever *)
(* holds entries of users of the contest.                                  *)
THEOREM TypeCorrect == Spec => []TypeOK
<1>1. IInv => TypeOK
  BY DEF IInv
<1> QED
  BY <1>1, Invariance, PTL

(* Until the prizes are paid the escrow holds the fees charged less those  *)
(* returned, never more than one per ACTIVE entry, and exactly that while  *)
(* no entry was made on a used key, however entries, cancellations and     *)
(* settlements interleave.                                                 *)
THEOREM EscrowAlwaysBacked == Spec => []EscrowBacksEntries
<1>1. IInv => EscrowBacksEntries
  BY DEF IInv, MoneyInv
<1> QED
  BY <1>1, Invariance, PTL

(* A user is charged at most once, and for an entry, refunded once and     *)
(* paid the journaled prize; nothing else of the contest touches the       *)
(* wallet.                                                                 *)
THEOREM WalletsExact == Spec => []WalletExact
<1>1. IInv => WalletExact
  BY DEF IInv, MoneyInv
<1> QED
  BY <1>1, Invariance, PTL

-----------------------------------------------------------------------------
(* With prompt callers, what began before kickoff is over when results     *)
(* come, and what a settlement has read cannot change under it but by a    *)
(* cancellation, which then leaves it nothing to pay.                      *)

(* From the first result on, nobody enters or publishes.                   *)
Closed ==
  finalized # {} => /\ kickedOff
                    /\ \A a \in Admins : publishing[a] = "idle"
                    /\ \A s \in Users \X Tabs : ~submitting[s]

ScoringFinal == \A m \in Matches : scoring[m] # "idle" => m \in finalized

CountedComplete == \A m \in Matches : scoring[m] = "complete" => AllResultsIn /\ AllScored

(* Once ContestScored is out the status never goes back.                   *)
ScoredOnce ==
  /\ scoredEvent => finalized # {} /\ status \in {"SCORED", "SETTLED", "CANCELLED"}
  /\ status = "SETTLED" => scoredEvent
  /\ \A w \in Workers : settling[w].at # "idle" => scoredEvent

(* Entries need the escrow account, so a cancellation that read some read  *)
(* it as open too, and must leave it empty.                                *)
EscrowFirst ==
  /\ Entered # {} \/ (\E s \in Users \X Tabs : submitting[s]) \/ status = "PUBLISHED" => escrowOpen
  /\ \A a \in Admins : cancelling[a].seen # {} => cancelling[a].escrow

PhaseInv == Closed /\ ScoringFinal /\ CountedComplete /\ ScoredOnce /\ EscrowFirst

(* Every settlement in progress ranks the same entries, and none is ACTIVE *)
(* that it does not rank.                                                  *)
RanksAgree ==
  /\ \A w \in Workers : settling[w].at # "idle" =>
       /\ Active \subseteq settling[w].ranked
       /\ status = "SCORED" => settling[w].ranked = Active
  /\ \A v, w \in Workers :
       settling[v].at # "idle" /\ settling[w].at # "idle" => settling[v].ranked = settling[w].ranked

(* Prizes and refunds exclude each other.                                  *)
PrizesOut ==
  Posted(SettlementKey) => /\ scoredEvent
                           /\ balance[Escrow] = 0
                           /\ \A u \in Users : ~Posted(RefundKey(u))

(* A refund ends the contest, or leaves a settlement in progress nothing.  *)
RefundEnds ==
  \A u \in Users : Posted(RefundKey(u)) =>
    IF scoredEvent THEN balance[Escrow] = 0 ELSE status = "CANCELLED"

(* The escrow a settlement read is still there, or is gone: to the prizes  *)
(* this very settlement would pay, or to refunds.                          *)
GrossStands ==
  \A w \in Workers : settling[w].at = "open" =>
    /\ settling[w].gross = 0 => balance[Escrow] = 0
    /\ settling[w].gross # 0 =>
         IF Posted(SettlementKey)
           THEN journal[SettlementKey] = SettlementLines(settling[w].ranked, settling[w].gross)
           ELSE balance[Escrow] \in {settling[w].gross, 0}

SettleInv == RanksAgree /\ PrizesOut /\ RefundEnds /\ GrossStands /\ SettledOwesNothing

PromptInv == PhaseInv /\ SettleInv

LEMMA InitPromptInv == Init => PromptInv
<1> SUFFICES ASSUME Init PROVE PromptInv
  OBVIOUS
<1>1. \A k : ~Posted(k)
  BY DEF Init, Books!Init, Books!NoJournal, Posted, Books!Posted
<1>2. Active = {} /\ Entered = {}
  BY DEF Init, Active, Entered
<1>3. PhaseInv
  BY <1>2 DEF Init, PhaseInv, Closed, ScoringFinal, CountedComplete, ScoredOnce, EscrowFirst,
     NotCancelling, NotSettling
<1>4. SettleInv
  BY <1>1 DEF Init, SettleInv, RanksAgree, PrizesOut, RefundEnds, GrossStands, SettledOwesNothing,
     Prized, NotSettling
<1> QED
  BY <1>3, <1>4 DEF PromptInv

LEMMA NextPhaseInv ==
  ASSUME Prompt, IInv, PhaseInv, [Next]_vars
  PROVE  PhaseInv'
<1> USE DEF ledgerVars, contestVars, worldVars, callVars
<1>a. TypeOK /\ Closed /\ ScoringFinal /\ CountedComplete /\ ScoredOnce /\ EscrowFirst
  BY DEF IInv, PhaseInv
<1>1. CASE UNCHANGED vars
  BY <1>1, <1>a DEF vars, PhaseInv, Closed, ScoringFinal, CountedComplete, ScoredOnce, EscrowFirst,
     AllResultsIn, AllScored, Entered
<1>2. CASE KickOff
  BY <1>2, <1>a DEF KickOff, PhaseInv, Closed, ScoringFinal, CountedComplete, ScoredOnce, EscrowFirst,
     AllResultsIn, AllScored, Entered
<1>3. CASE RunLockJob \/ ForceLock \/ ExhaustLockJob
  <2>1. /\ UNCHANGED <<escrowOpen, entry, scored, scoredEvent, kickedOff, finalized, callVars>>
        /\ status' \in {status, "LOCKED"} /\ (status' # status => status = "PUBLISHED")
    BY <1>3 DEF RunLockJob, ForceLock, ExhaustLockJob, Lock
  <2>2. Closed' /\ ScoringFinal' /\ CountedComplete'
    BY <1>a, <2>1 DEF Closed, ScoringFinal, CountedComplete, AllResultsIn, AllScored, Entered
  <2>3. ScoredOnce' /\ EscrowFirst'
    BY <1>a, <2>1 DEF ScoredOnce, EscrowFirst, Entered
  <2> QED
    BY <2>2, <2>3 DEF PhaseInv
<1>4. ASSUME NEW a \in Admins,
             PublishCheck(a) \/ PublishCommit(a) \/ ScheduleLock(a) \/ LoseLockJob(a)
      PROVE  PhaseInv'
  <2>1. /\ UNCHANGED <<entry, scored, scoredEvent, kickedOff, finalized>>
        /\ UNCHANGED <<submitting, cancelling, scoring, settling>>
        /\ finalized = {}
    <3>1. PublishCheck(a) => ~kickedOff
      BY DEF PublishCheck
    <3>2. PublishCommit(a) \/ ScheduleLock(a) \/ LoseLockJob(a) => publishing[a] # "idle"
      BY DEF PublishCommit, ScheduleLock, LoseLockJob
    <3>3. finalized = {}
      BY <1>4, <1>a, <3>1, <3>2 DEF Closed
    <3> QED
      BY <1>4, <3>3 DEF PublishCheck, PublishCommit, ScheduleLock, LoseLockJob
  <2>2. UNCHANGED <<status, escrowOpen>> \/ (status' = "PUBLISHED" /\ escrowOpen')
    BY <1>4 DEF PublishCheck, PublishCommit, ScheduleLock, LoseLockJob
  <2>3. Closed' /\ ScoringFinal' /\ CountedComplete'
    BY <1>a, <2>1 DEF Closed, ScoringFinal, CountedComplete, AllResultsIn, AllScored, Entered
  <2>4. ScoredOnce' /\ EscrowFirst'
    BY <1>a, <2>1, <2>2 DEF ScoredOnce, EscrowFirst, Entered
  <2> QED
    BY <2>3, <2>4 DEF PhaseInv
<1>5. ASSUME NEW a \in Admins, CancelRead(a) \/ CancelCommit(a) \/ CancelFails(a)
      PROVE  PhaseInv'
  <2>1. /\ UNCHANGED <<escrowOpen, scored, scoredEvent, kickedOff, finalized>>
        /\ UNCHANGED <<publishing, submitting, scoring, settling>>
        /\ status' \in {status, "CANCELLED"}
    BY <1>5 DEF CancelRead, CancelCommit, CancelFails
  <2>2. Entered' = Entered
    BY <1>5 DEF CancelRead, CancelCommit, CancelFails, Entered, IInv, TypeOK, MoneyInv, SeenEntered
  <2>3. cancelling'[a].seen # {} => cancelling'[a].escrow
    <3>1. Active \subseteq Entered
      BY DEF Active, Entered
    <3>2. CASE CancelRead(a)
      BY <1>a, <3>1, <3>2 DEF CancelRead, EscrowFirst, TypeOK
    <3>3. CASE ~CancelRead(a)
      BY <1>5, <1>a, <3>3 DEF CancelCommit, CancelFails, CancelEnds, NotCancelling, TypeOK
    <3> QED
      BY <3>2, <3>3
  <2>4. \A b \in Admins \ {a} : cancelling'[b] = cancelling[b]
    BY <1>5, <1>a DEF CancelRead, CancelCommit, CancelFails, CancelEnds, TypeOK
  <2>5. Closed' /\ ScoringFinal' /\ CountedComplete'
    BY <1>a, <2>1, <2>2 DEF Closed, ScoringFinal, CountedComplete, AllResultsIn, AllScored
  <2>6. ScoredOnce' /\ EscrowFirst'
    BY <1>a, <2>1, <2>2, <2>3, <2>4 DEF ScoredOnce, EscrowFirst
  <2> QED
    BY <2>5, <2>6 DEF PhaseInv
<1>6. ASSUME NEW u \in Users, NEW t \in Tabs,
             SubmitCheck(u, t) \/ SubmitFails(u, t) \/ \E key \in ClientKeys : SubmitCommit(u, t, key)
      PROVE  PhaseInv'
  <2>1. /\ UNCHANGED <<status, escrowOpen, scored, scoredEvent, kickedOff, finalized>>
        /\ UNCHANGED <<publishing, cancelling, scoring, settling>>
        /\ escrowOpen /\ finalized = {}
        /\ \A s \in Users \X Tabs : submitting'[s] => submitting[s] \/ SubmitCheck(u, t)
    <3>1. SubmitCheck(u, t) => ~kickedOff /\ status = "PUBLISHED"
      BY DEF SubmitCheck, Open
    <3>2. SubmitFails(u, t) \/ (\E key \in ClientKeys : SubmitCommit(u, t, key)) => submitting[<<u, t>>]
      BY DEF SubmitCommit, SubmitFails
    <3>3. <<u, t>> \in Users \X Tabs
      OBVIOUS
    <3>4. escrowOpen /\ finalized = {}
      BY <1>6, <1>a, <3>1, <3>2, <3>3 DEF Closed, EscrowFirst
    <3> QED
      BY <1>6, <1>a, <3>4 DEF SubmitCheck, SubmitCommit, SubmitFails, SubmitEnds, TypeOK
  <2>2. Closed' /\ ScoringFinal'
    BY <1>a, <2>1 DEF Closed, ScoringFinal
  <2>3. CountedComplete'
    BY <1>a, <2>1 DEF CountedComplete, ScoringFinal
  <2>4. ScoredOnce' /\ EscrowFirst'
    BY <1>a, <2>1 DEF ScoredOnce, EscrowFirst
  <2> QED
    BY <2>2, <2>3, <2>4 DEF PhaseInv
<1>7. ASSUME NEW m \in Matches, FinalizeResult(m) PROVE PhaseInv'
  <2>1. /\ UNCHANGED <<contestVars, kickedOff, callVars>>
        /\ finalized' = finalized \cup {m} /\ m \notin finalized
        /\ kickedOff /\ (\A a \in Admins : publishing[a] = "idle")
        /\ \A s \in Users \X Tabs : ~submitting[s]
    BY <1>7 DEF FinalizeResult
  <2>2. Closed' /\ ScoringFinal'
    BY <1>a, <2>1 DEF Closed, ScoringFinal
  <2>3. CountedComplete'
    BY <1>a, <2>1 DEF CountedComplete, AllResultsIn, AllScored
  <2>4. ScoredOnce' /\ EscrowFirst'
    BY <1>a, <2>1 DEF ScoredOnce, EscrowFirst, Entered
  <2> QED
    BY <2>2, <2>3, <2>4 DEF PhaseInv
<1>8. ASSUME NEW m \in Matches,
             \/ SelectContest(m) \/ PassOverContest(m) \/ ScoreMatch(m) \/ CountPending(m)
             \/ MarkScored(m) \/ ResultJobFails(m)
      PROVE  PhaseInv'
  <2>1. /\ UNCHANGED <<escrowOpen, entry, kickedOff, finalized>>
        /\ UNCHANGED <<publishing, submitting, cancelling, settling>>
    BY <1>8 DEF SelectContest, PassOverContest, ScoreMatch, CountPending, MarkScored, ResultJobFails
  <2>2. Entered' = Entered
    BY <2>1 DEF Entered
  <2>3. Closed'
    BY <1>a, <2>1 DEF Closed
  <2>4. ScoringFinal'
    <3>1. \A n \in Matches \ {m} : scoring'[n] = scoring[n]
      BY <1>8, <1>a DEF SelectContest, PassOverContest, ScoreMatch, CountPending, MarkScored,
         ResultJobFails, TypeOK
    <3>2. scoring'[m] # "idle" => m \in finalized
      BY <1>8, <1>a DEF SelectContest, Delivered, PassOverContest, ScoreMatch, CountPending,
         MarkScored, ResultJobFails, TypeOK, ScoringFinal
    <3> QED
      BY <1>a, <2>1, <3>1, <3>2 DEF ScoringFinal
  <2>5. AllResultsIn' <=> AllResultsIn
    BY <2>1 DEF AllResultsIn
  <2>6. AllScored => AllScored'
    <3>1. CASE UNCHANGED scored
      BY <2>2, <3>1 DEF AllScored
    <3>2. CASE ScoreMatch(m)
      BY <1>a, <2>2, <3>2 DEF ScoreMatch, AllScored, Entered
    <3> QED
      BY <1>8, <3>1, <3>2 DEF SelectContest, PassOverContest, CountPending, MarkScored, ResultJobFails
  <2>7. CountedComplete'
    <3>1. \A n \in Matches : scoring'[n] = "complete" =>
            scoring[n] = "complete" \/ (AllResultsIn /\ AllScored)
      BY <1>8, <1>a DEF SelectContest, PassOverContest, ScoreMatch, CountPending, MarkScored,
         ResultJobFails, TypeOK
    <3> QED
      BY <1>a, <2>5, <2>6, <3>1 DEF CountedComplete
  <2>8. ScoredOnce'
    <3>1. CASE UNCHANGED <<status, scoredEvent>>
      BY <1>a, <2>1, <3>1 DEF ScoredOnce
    <3>2. CASE ScoreMatch(m)
      BY <1>a, <2>1, <3>2 DEF ScoreMatch, ScoredOnce
    <3>3. CASE MarkScored(m)
      BY <1>a, <2>1, <3>3 DEF MarkScored, ScoredOnce, ScoringFinal, TypeOK
    <3> QED
      BY <1>8, <3>1, <3>2, <3>3 DEF SelectContest, PassOverContest, CountPending, ResultJobFails
  <2>9. EscrowFirst'
    <3>1. status' = "PUBLISHED" => status = "PUBLISHED"
      BY <1>8 DEF SelectContest, PassOverContest, ScoreMatch, CountPending, MarkScored, ResultJobFails
    <3> QED
      BY <1>a, <2>1, <2>2, <3>1 DEF EscrowFirst
  <2> QED
    BY <2>3, <2>4, <2>7, <2>8, <2>9 DEF PhaseInv
<1>9. ASSUME NEW w \in Workers,
             \/ DistributeRead(w) \/ DistributeOpen(w) \/ DistributePay(w)
             \/ DistributeNothing(w) \/ DistributeFails(w)
      PROVE  PhaseInv'
  <2>1. /\ UNCHANGED <<escrowOpen, scored, scoredEvent, kickedOff, finalized>>
        /\ UNCHANGED <<publishing, submitting, cancelling, scoring>>
    BY <1>9 DEF DistributeRead, DistributeOpen, DistributePay, DistributeNothing, DistributeFails
  <2>2. Entered' = Entered
    BY <1>9 DEF DistributeRead, DistributeOpen, DistributePay, DistributeNothing, DistributeFails,
       CloseContest, Entered, IInv, TypeOK, MoneyInv, RankedEntered
  <2>3. scoredEvent /\ status' \in {status, "SETTLED"}
    BY <1>9, <1>a DEF DistributeRead, DistributeOpen, DistributePay, DistributeNothing,
       DistributeFails, CloseContest, ScoredOnce
  <2>4. Closed' /\ ScoringFinal' /\ CountedComplete'
    BY <1>a, <2>1, <2>2 DEF Closed, ScoringFinal, CountedComplete, AllResultsIn, AllScored
  <2>5. ScoredOnce' /\ EscrowFirst'
    BY <1>a, <2>1, <2>2, <2>3 DEF ScoredOnce, EscrowFirst
  <2> QED
    BY <2>4, <2>5 DEF PhaseInv
<1>10. ASSUME NEW key \in ClientKeys, ChargeElsewhere(key) PROVE PhaseInv'
  BY <1>10, <1>a DEF ChargeElsewhere, PhaseInv, Closed, ScoringFinal, CountedComplete, ScoredOnce,
     EscrowFirst, AllResultsIn, AllScored, Entered
<1> QED
  BY <1>1, <1>2, <1>3, <1>4, <1>5, <1>6, <1>7, <1>8, <1>9, <1>10 DEF Next

(* What a step that neither moves money nor touches a settlement must      *)
(* respect.                                                                *)
LEMMA FrameSettleInv ==
  ASSUME SettleInv, UNCHANGED <<balance, entry, prize, settling>>,
         \A u \in Users : Posted(RefundKey(u))' <=> Posted(RefundKey(u)),
         Posted(SettlementKey)' <=> Posted(SettlementKey),
         Posted(SettlementKey) => journal'[SettlementKey] = journal[SettlementKey],
         scoredEvent => scoredEvent',
         status' = "SETTLED" => status = "SETTLED",
         (\E w \in Workers : settling[w].at # "idle") /\ status' = "SCORED" => status = "SCORED",
         (\E u \in Users : Posted(RefundKey(u))) /\ ~scoredEvent
           => ~scoredEvent' /\ (status = "CANCELLED" => status' = "CANCELLED")
  PROVE  SettleInv'
<1>2. Active' = Active
  BY DEF Active
<1>3. RanksAgree'
  BY <1>2 DEF SettleInv, RanksAgree
<1>4. PrizesOut' /\ RefundEnds'
  BY DEF SettleInv, PrizesOut, RefundEnds
<1>5. GrossStands'
  BY DEF SettleInv, GrossStands
<1>6. SettledOwesNothing'
  BY <1>2 DEF SettleInv, SettledOwesNothing, Prized
<1> QED
  BY <1>3, <1>4, <1>5, <1>6 DEF SettleInv

LEMMA SubmitSettleInv ==
  ASSUME IInv, PromptInv, NEW u \in Users, NEW t \in Tabs, NEW key \in ClientKeys,
         SubmitCommit(u, t, key)
  PROVE  SettleInv'
<1>1. /\ UNCHANGED <<status, scoredEvent, prize, settling>>
      /\ \/ UNCHANGED journal
         \/ journal' = Books!Record(journal, EntryKey(key), Transfer(u, Escrow, Fee))
  BY DEF SubmitCommit, ChargeFee, Books!Post, ledgerVars
<1>2. /\ \A v \in Users : Posted(RefundKey(v))' <=> Posted(RefundKey(v))
      /\ Posted(SettlementKey)' <=> Posted(SettlementKey)
  BY <1>1, KeysDistinct DEF Books!Record, Posted, Books!Posted
<1>3. /\ ~scoredEvent /\ status # "SETTLED" /\ ~Posted(SettlementKey)
      /\ \A w \in Workers : settling[w].at = "idle"
  BY DEF SubmitCommit, PromptInv, PhaseInv, Closed, ScoredOnce, SettleInv, PrizesOut
<1>4. RanksAgree' /\ PrizesOut' /\ GrossStands'
  BY <1>1, <1>2, <1>3 DEF RanksAgree, PrizesOut, GrossStands
<1>5. RefundEnds' /\ SettledOwesNothing'
  BY <1>1, <1>2, <1>3 DEF PromptInv, SettleInv, RefundEnds, SettledOwesNothing, Prized
<1> QED
  BY <1>4, <1>5 DEF SettleInv

(* A cancellation that refunds anyone leaves the escrow empty, and one     *)
(* that finds it empty refunds nobody.                                     *)
LEMMA CancelSettleInv ==
  ASSUME IInv, PromptInv, NEW a \in Admins, CancelCommit(a)
  PROVE  SettleInv'
<1> DEFINE seen == cancelling[a].seen
           left == balance[Escrow] - Fee * Cardinality(ToRefund(seen))
<1>a. TypeOK /\ EscrowFirst /\ RanksAgree /\ PrizesOut /\ RefundEnds /\ GrossStands /\ SettledOwesNothing
  BY DEF IInv, PromptInv, PhaseInv, SettleInv
<1>1. /\ Refund(seen) /\ UNCHANGED <<scoredEvent, prize, settling>> /\ status' = "CANCELLED"
      /\ entry' = [u \in Users |-> IF u \in seen THEN "REFUNDED" ELSE entry[u]]
      /\ left >= 0 /\ (cancelling[a].escrow => left = 0)
  BY DEF CancelCommit, EscrowAfterRefunds
<1>2. seen \subseteq Users /\ ToRefund(seen) \subseteq seen
  BY <1>a DEF TypeOK, ToRefund
<1>3. balance'[Escrow] = left
  BY <1>1, <1>2, <1>a, RefundType DEF TypeOK
<1>4. ToRefund(seen) # {} => left = 0
  BY <1>1, <1>2, <1>a DEF EscrowFirst
<1>5. ToRefund(seen) = {} => left = balance[Escrow]
  <2> SUFFICES ASSUME ToRefund(seen) = {} PROVE left = balance[Escrow]
    OBVIOUS
  <2>1. Cardinality(ToRefund(seen)) = 0
    BY FS_EmptySet
  <2> QED
    BY <2>1, <1>a, AccountsDistinct, ContestAssumption DEF TypeOK
<1>6. balance[Escrow] = 0 => ToRefund(seen) = {}
  <2> SUFFICES ASSUME balance[Escrow] = 0 PROVE ToRefund(seen) = {}
    OBVIOUS
  <2> DEFINE n == Cardinality(ToRefund(seen))
  <2>1. IsFiniteSet(ToRefund(seen)) /\ n \in Nat
    BY <1>2, SubsetOfUsers
  <2>2. 0 - Fee * n >= 0
    BY <1>1
  <2> HIDE DEF n
  <2>3. n = 0
    BY <2>1, <2>2, ContestAssumption
  <2> QED
    BY <2>1, <2>3, FS_EmptySet DEF n
<1> HIDE DEF left
<1>7. /\ \A u \in Users : Posted(RefundKey(u))' <=> Posted(RefundKey(u)) \/ u \in ToRefund(seen)
      /\ Posted(SettlementKey)' <=> Posted(SettlementKey)
      /\ Posted(SettlementKey) => journal'[SettlementKey] = journal[SettlementKey]
  BY <1>1, <1>2, KeysDistinct DEF Refund, ToRefund, Posted, Books!Posted
<1>8. Active' \subseteq Active
  BY <1>1 DEF Active
<1>9. RanksAgree'
  BY <1>1, <1>8, <1>a DEF RanksAgree
<1>10. PrizesOut'
  BY <1>1, <1>3, <1>5, <1>6, <1>7, <1>a DEF PrizesOut
<1>11. RefundEnds'
  BY <1>1, <1>3, <1>4, <1>5, <1>6, <1>7, <1>a DEF RefundEnds
<1>12. GrossStands'
  BY <1>1, <1>3, <1>4, <1>5, <1>7, <1>a DEF GrossStands
<1>13. SettledOwesNothing'
  BY <1>1, <1>7, <1>a DEF SettledOwesNothing, Prized
<1> QED
  BY <1>9, <1>10, <1>11, <1>12, <1>13 DEF SettleInv

LEMMA DistributeReadSettleInv ==
  ASSUME IInv, PromptInv, NEW w \in Workers,
         DistributeRead(w) \/ DistributeOpen(w) \/ DistributeFails(w)
  PROVE  SettleInv'
<1>a. TypeOK /\ RanksAgree /\ PrizesOut /\ RefundEnds /\ GrossStands /\ SettledOwesNothing
  BY DEF IInv, PromptInv, SettleInv
<1>1. UNCHANGED <<balance, journal, entry, prize, status, scoredEvent>>
  BY DEF DistributeRead, DistributeOpen, DistributeFails, ledgerVars, contestVars
<1>2. Active' = Active /\ \A k : Posted(k)' <=> Posted(k)
  BY <1>1 DEF Active, Posted, Books!Posted
<1>3. \A v \in Workers \ {w} : settling'[v] = settling[v]
  BY <1>a DEF DistributeRead, DistributeOpen, DistributeFails, DistributeEnds, TypeOK
<1>4. \/ settling'[w].at = "read" /\ status = "SCORED" /\ settling'[w].ranked = Active
      \/ /\ settling'[w].at = "open" /\ settling[w].at = "read"
         /\ settling'[w].ranked = settling[w].ranked /\ settling'[w].gross = balance[Escrow]
      \/ settling'[w].at = "idle"
  BY <1>a DEF DistributeRead, DistributeOpen, DistributeFails, DistributeEnds, NotSettling, TypeOK
<1>5. RanksAgree'
  <2>1. \A v \in Workers \ {w} : settling'[v].at # "idle" =>
          Active \subseteq settling'[v].ranked /\ (status = "SCORED" => settling'[v].ranked = Active)
    BY <1>3, <1>a DEF RanksAgree
  <2>2. settling'[w].at # "idle" =>
          Active \subseteq settling'[w].ranked /\ (status = "SCORED" => settling'[w].ranked = Active)
    BY <1>4, <1>a DEF RanksAgree
  <2>3. \A v \in Workers \ {w} : settling'[v].at # "idle" /\ settling'[w].at # "idle" =>
          settling'[v].ranked = settling'[w].ranked
    BY <1>3, <1>4, <1>a DEF RanksAgree
  <2>4. \A u, v \in Workers \ {w} : settling'[u].at # "idle" /\ settling'[v].at # "idle" =>
          settling'[u].ranked = settling'[v].ranked
    BY <1>3, <1>a DEF RanksAgree
  <2> QED
    BY <1>1, <1>2, <2>1, <2>2, <2>3, <2>4 DEF RanksAgree
<1>6. GrossStands'
  BY <1>1, <1>2, <1>3, <1>4, <1>a DEF GrossStands, PrizesOut
<1>7. PrizesOut' /\ RefundEnds' /\ SettledOwesNothing'
  BY <1>1, <1>2, <1>a DEF PrizesOut, RefundEnds, SettledOwesNothing, Prized
<1> QED
  BY <1>5, <1>6, <1>7 DEF SettleInv

(* The contest closes with nothing owed: whoever ranks it ranks every      *)
(* entry still ACTIVE, and pays what the journal says or pays it now.      *)
LEMMA DistributeSettleInv ==
  ASSUME IInv, PromptInv, NEW w \in Workers, DistributePay(w) \/ DistributeNothing(w)
  PROVE  SettleInv'
<1> DEFINE ranked == settling[w].ranked
           gross == settling[w].gross
           lines == SettlementLines(ranked, gross)
<1>a. /\ TypeOK /\ EscrowCovered /\ ScoredOnce
      /\ RanksAgree /\ PrizesOut /\ RefundEnds /\ GrossStands /\ SettledOwesNothing
  BY DEF IInv, MoneyInv, PromptInv, PhaseInv, SettleInv
<1>1. /\ entry' = [u \in Users |-> IF u \in ranked THEN "SETTLED" ELSE entry[u]]
      /\ settling' = [settling EXCEPT ![w] = NotSettling] /\ settling[w].at = "open"
      /\ status' = "SETTLED" /\ UNCHANGED scoredEvent
  BY DEF DistributePay, DistributeNothing, CloseContest, DistributeEnds
<1>2. Active' = {} /\ scoredEvent
  BY <1>1, <1>a DEF RanksAgree, ScoredOnce, Active
<1>3. /\ settling'[w].at = "idle"
      /\ \A v \in Workers \ {w} : settling'[v] = settling[v]
  BY <1>1, <1>a DEF TypeOK, NotSettling
<1>4. RanksAgree'
  BY <1>1, <1>2, <1>3, <1>a DEF RanksAgree
<1>5. CASE DistributeNothing(w)
  <2>1. UNCHANGED <<balance, journal, prize>> /\ (gross = 0 \/ ranked = {})
    BY <1>5 DEF DistributeNothing, ledgerVars
  <2>2. \A k : Posted(k)' <=> Posted(k)
    BY <2>1 DEF Posted, Books!Posted
  <2>3. balance[Escrow] = 0
    <3>1. CASE gross = 0
      BY <1>1, <1>a, <3>1 DEF GrossStands
    <3>2. CASE ranked = {}
      <4>1. Active \ Emptied = {}
        BY <1>1, <1>a, <3>2 DEF RanksAgree
      <4>2. Fee * 0 = 0
        BY ContestAssumption
      <4>3. Fee * Cardinality(Active \ Emptied) = 0
        BY <4>1, <4>2, FS_EmptySet
      <4>4. balance[Escrow] \in Int
        BY <1>a, AccountsDistinct DEF TypeOK
      <4> QED
        BY <4>3, <4>4, <1>a DEF EscrowCovered, PrizesOut
    <3> QED
      BY <2>1, <3>1, <3>2
  <2>4. PrizesOut' /\ RefundEnds' /\ SettledOwesNothing'
    BY <1>1, <1>2, <1>a, <2>1, <2>2, <2>3 DEF PrizesOut, RefundEnds, SettledOwesNothing, Prized
  <2>5. GrossStands'
    BY <1>3, <1>a, <2>1, <2>2 DEF GrossStands
  <2> QED
    BY <1>4, <2>4, <2>5 DEF SettleInv
<1>6. CASE DistributePay(w)
  <2>1. /\ gross > 0 /\ Books!Valid(lines)
        /\ prize' = [u \in Users |-> IF u \in PrizeWinners(ranked, gross)
                                     THEN Payout(ranked, gross)[u] ELSE prize[u]]
    BY <1>6 DEF DistributePay
  <2>2. \A u \in Users : lines[u] = Payout(ranked, gross)[u]
                         /\ (u \notin PrizeWinners(ranked, gross) => lines[u] = 0)
    BY <2>1, PayoutType DEF Payout
  <2>3. gross \in Int /\ gross # 0
    BY <1>a, <2>1 DEF TypeOK
  <2>4. CASE Posted(SettlementKey)
    <3>1. UNCHANGED <<balance, journal>> /\ balance[Escrow] = 0
      BY <1>6, <2>4 DEF DistributePay, ledgerVars
    <3>2. \A k : Posted(k)' <=> Posted(k)
      BY <3>1 DEF Posted, Books!Posted
    <3>3. journal[SettlementKey] = lines
      BY <1>1, <1>a, <2>3, <2>4 DEF GrossStands
    <3>4. SettledOwesNothing'
      <4>1. \A u \in Users : Prized(u) = lines[u] /\ Prized(u)' = Prized(u)
        BY <2>4, <3>1, <3>2, <3>3 DEF Prized
      <4>2. \A u \in Users : prize'[u] = lines[u]
        BY <1>a, <2>1, <2>2, <4>1 DEF SettledOwesNothing
      <4> QED
        BY <1>2, <3>1, <4>1, <4>2 DEF SettledOwesNothing
    <3>5. PrizesOut' /\ RefundEnds'
      <4>1. scoredEvent' /\ balance'[Escrow] = 0 /\ \A u \in Users : ~Posted(RefundKey(u))'
        BY <1>1, <1>2, <1>a, <2>4, <3>1, <3>2 DEF PrizesOut
      <4> QED
        BY <4>1 DEF PrizesOut, RefundEnds
    <3>6. GrossStands'
      BY <1>3, <1>a, <3>1, <3>2 DEF GrossStands
    <3> QED
      BY <1>4, <3>4, <3>5, <3>6 DEF SettleInv
  <2>5. CASE ~Posted(SettlementKey)
    <3>1. /\ balance[Escrow] = gross
          /\ balance' = Books!Apply(balance, lines)
          /\ journal' = Books!Record(journal, SettlementKey, lines)
      BY <1>6, <2>5 DEF DistributePay, Books!Post
    <3>2. /\ Posted(SettlementKey)' /\ journal'[SettlementKey] = lines
          /\ \A u \in Users : Posted(RefundKey(u))' <=> Posted(RefundKey(u))
      BY <3>1, KeysDistinct DEF Books!Record, Posted, Books!Posted
    <3>3. \A u \in Users : ~Posted(RefundKey(u))
      BY <1>2, <1>a, <2>3, <3>1 DEF RefundEnds
    <3>4. balance'[Escrow] = 0
      <4>1. balance'[Escrow] = balance[Escrow] + lines[Escrow]
        BY <3>1, AccountsDistinct DEF Books!Apply
      <4>2. lines[Escrow] = -gross
        BY AccountsDistinct DEF SettlementLines
      <4> QED
        BY <2>3, <3>1, <4>1, <4>2
    <3>5. PrizesOut' /\ RefundEnds'
      BY <1>1, <1>2, <3>2, <3>3, <3>4 DEF PrizesOut, RefundEnds
    <3>6. ASSUME NEW v \in Workers \ {w}, settling[v].at = "open", settling[v].gross # 0
          PROVE  journal'[SettlementKey] = SettlementLines(settling[v].ranked, settling[v].gross)
      <4>1. settling[v].gross = gross
        BY <1>a, <2>3, <2>5, <3>1, <3>6 DEF GrossStands
      <4>2. settling[v].ranked = ranked
        BY <1>1, <1>a, <3>6 DEF RanksAgree
      <4> QED
        BY <3>2, <4>1, <4>2
    <3>7. GrossStands'
      BY <1>3, <3>2, <3>4, <3>6 DEF GrossStands
    <3>8. SettledOwesNothing'
      <4>1. \A u \in Users : prize[u] = 0 /\ Prized(u)' = lines[u]
        BY <1>a, <2>5, <3>2 DEF SettledOwesNothing, Prized
      <4>2. \A u \in Users : prize'[u] = lines[u]
        BY <2>1, <2>2, <4>1
      <4> QED
        BY <1>2, <3>4, <4>1, <4>2 DEF SettledOwesNothing
    <3> QED
      BY <1>4, <3>5, <3>7, <3>8 DEF SettleInv
  <2> QED
    BY <2>4, <2>5
<1> QED
  BY <1>5, <1>6

LEMMA NextSettleInv == IInv /\ PromptInv /\ [Next]_vars => SettleInv'
<1> SUFFICES ASSUME IInv, PromptInv, [Next]_vars PROVE SettleInv'
  OBVIOUS
<1> USE DEF ledgerVars, contestVars, worldVars, callVars
<1>a. SettleInv /\ TypeOK /\ ScoredOnce /\ EscrowFirst
  BY DEF IInv, PromptInv, PhaseInv
<1>b. (\E u \in Users : Posted(RefundKey(u))) => Entered # {}
  BY DEF IInv, TypeOK, MoneyInv, RefundsTracked, Entered
<1>c. UNCHANGED journal => /\ \A k : Posted(k)' <=> Posted(k)
                           /\ journal'[SettlementKey] = journal[SettlementKey]
  BY DEF Posted, Books!Posted
<1>1. CASE UNCHANGED vars
  BY <1>1, <1>a, <1>c, FrameSettleInv DEF vars
<1>2. CASE KickOff
  BY <1>2, <1>a, <1>c, FrameSettleInv DEF KickOff
<1>3. CASE RunLockJob \/ ForceLock \/ ExhaustLockJob
  BY <1>3, <1>a, <1>c, FrameSettleInv DEF RunLockJob, ForceLock, ExhaustLockJob, Lock
<1>4. ASSUME NEW a \in Admins,
             PublishCheck(a) \/ PublishCommit(a) \/ ScheduleLock(a) \/ LoseLockJob(a)
      PROVE  SettleInv'
  <2>1. /\ UNCHANGED <<balance, journal, entry, prize, settling, scoredEvent>>
        /\ status' = status \/ (status' = "PUBLISHED" /\ ~escrowOpen)
    BY <1>4 DEF PublishCheck, PublishCommit, ScheduleLock, LoseLockJob
  <2>2. (\E u \in Users : Posted(RefundKey(u))) => status' = status
    BY <1>a, <1>b, <2>1 DEF EscrowFirst
  <2> QED
    BY <1>a, <1>c, <2>1, <2>2, FrameSettleInv
<1>5. ASSUME NEW a \in Admins, CancelRead(a) \/ CancelFails(a) PROVE SettleInv'
  BY <1>5, <1>a, <1>c, FrameSettleInv DEF CancelRead, CancelFails
<1>6. ASSUME NEW u \in Users, NEW t \in Tabs, SubmitCheck(u, t) \/ SubmitFails(u, t)
      PROVE  SettleInv'
  BY <1>6, <1>a, <1>c, FrameSettleInv DEF SubmitCheck, SubmitFails
<1>7. ASSUME NEW m \in Matches,
             \/ FinalizeResult(m) \/ SelectContest(m) \/ PassOverContest(m)
             \/ CountPending(m) \/ ResultJobFails(m)
      PROVE  SettleInv'
  BY <1>7, <1>a, <1>c, FrameSettleInv
  DEF FinalizeResult, SelectContest, PassOverContest, CountPending, ResultJobFails
<1>8. ASSUME NEW m \in Matches, ScoreMatch(m) \/ MarkScored(m) PROVE SettleInv'
  <2>1. /\ UNCHANGED <<balance, journal, entry, prize, settling>>
        /\ scoredEvent => scoredEvent'
        /\ status' = status \/ (status \in {"LOCKED", "SCORING"} /\ status' \in {"SCORING", "SCORED"})
        /\ scoredEvent' = scoredEvent \/ status = "SCORING"
    BY <1>8, <1>a DEF ScoreMatch, MarkScored, TypeOK
  <2>2. (\E w \in Workers : settling[w].at # "idle") /\ status' = "SCORED" => status = "SCORED"
    BY <1>a, <2>1 DEF ScoredOnce
  <2>3. (\E u \in Users : Posted(RefundKey(u))) /\ ~scoredEvent => status = "CANCELLED"
    BY <1>a DEF SettleInv, RefundEnds
  <2> QED
    BY <1>a, <1>c, <2>1, <2>2, <2>3, FrameSettleInv
<1>9. ASSUME NEW key \in ClientKeys, ChargeElsewhere(key) PROVE SettleInv'
  <2>1. /\ UNCHANGED <<balance, entry, prize, settling, status, scoredEvent>>
        /\ journal' = Books!Record(journal, EntryKey(key), [a \in Accounts |-> 0])
    BY <1>9, <1>a, ElsewhereMovesNothing DEF ChargeElsewhere, Books!Post, TypeOK
  <2>2. /\ \A u \in Users : Posted(RefundKey(u))' <=> Posted(RefundKey(u))
        /\ Posted(SettlementKey)' <=> Posted(SettlementKey)
        /\ Posted(SettlementKey) => journal'[SettlementKey] = journal[SettlementKey]
    BY <2>1, KeysDistinct DEF Books!Record, Posted, Books!Posted
  <2> QED
    BY <1>a, <2>1, <2>2, FrameSettleInv
<1> QED
  BY <1>1, <1>2, <1>3, <1>4, <1>5, <1>6, <1>7, <1>8, <1>9, SubmitSettleInv, CancelSettleInv,
     DistributeReadSettleInv, DistributeSettleInv
  DEF Next

LEMMA PromptInvariance ==
  ASSUME Prompt PROVE Spec => [](IInv /\ PromptInv)
<1>1. Init => IInv /\ PromptInv
  BY InitTypeOK, InitMoneyInv, InitPromptInv DEF IInv
<1>2. IInv /\ PromptInv /\ [Next]_vars => (IInv /\ PromptInv)'
  BY NextTypeOK, NextMoneyInv, NextPhaseInv, NextSettleInv DEF IInv, PromptInv
<1> QED
  BY <1>1, <1>2, PTL DEF Spec

(* With prompt callers, no fee is both returned (cancel) and played for    *)
(* (distribute), however the two overlap.                                  *)
THEOREM RefundOrPrize ==
  ASSUME Prompt PROVE Spec => []RefundXorPrize
<1>1. IInv /\ PromptInv => RefundXorPrize
  BY DEF PromptInv, SettleInv, PrizesOut, RefundXorPrize, Prized
<1> QED
  BY <1>1, PromptInvariance, PTL

(* With prompt callers, a contest closes with no entry left ACTIVE and no  *)
(* fee in escrow, and every entry shows the prize its wallet got, whoever  *)
(* else was settling or cancelling meanwhile.                              *)
THEOREM SettledInFull ==
  ASSUME Prompt PROVE Spec => []SettledOwesNothing
<1>1. IInv /\ PromptInv => SettledOwesNothing
  BY DEF PromptInv, SettleInv
<1> QED
  BY <1>1, PromptInvariance, PTL

(* With prompt callers, finalizeContestIfComplete marks a contest SCORED   *)
(* only with every result in and every prediction scored, although it      *)
(* counted both in an earlier query.                                       *)
THEOREM ScoredComplete ==
  ASSUME Prompt PROVE Spec => ScoredWhenComplete
<1> DEFINE Step == status' = "SCORED" /\ status # "SCORED" => AllResultsIn /\ AllScored
<1>1. IInv /\ PromptInv /\ [Next]_vars => [Step]_vars
  <2> SUFFICES ASSUME IInv, PromptInv, Next, status' = "SCORED", status # "SCORED"
               PROVE  AllResultsIn /\ AllScored
    OBVIOUS
  <2>1. \E m \in Matches : MarkScored(m)
    BY DEF Next, ledgerVars, contestVars, KickOff, RunLockJob, ExhaustLockJob, ForceLock, Lock,
       PublishCheck, PublishCommit, ScheduleLock, LoseLockJob, CancelRead, CancelCommit, CancelFails,
       SubmitCheck, SubmitCommit, SubmitFails, FinalizeResult, SelectContest, PassOverContest,
       ScoreMatch, CountPending, ResultJobFails, DistributeRead, DistributeOpen, DistributePay,
       DistributeNothing, DistributeFails, CloseContest, ChargeElsewhere
  <2> QED
    BY <2>1 DEF MarkScored, PromptInv, PhaseInv, CountedComplete
<1> QED
  BY <1>1, PromptInvariance, PTL DEF Spec, ScoredWhenComplete

-----------------------------------------------------------------------------
(* What a settlement pays.                                                 *)

(* The paid positions: finitely many, the first among them, with shares    *)
(* that are naturals.                                                      *)
LEMMA PaidShares ==
  ASSUME NEW template, TemplatePays(template), NEW entrants \in Nat \ {0}
  PROVE  LET paid == PaidPositions(template, entrants)
         IN  /\ IsFiniteSet(paid) /\ paid \subseteq 1 .. entrants
             /\ 1 \in paid
             /\ \A pos \in paid : PerPosition(template)[pos] \in Nat
             /\ PerPosition(template)[1] > 0
<1> DEFINE paid == PaidPositions(template, entrants)
           Row == [from : Nat \ {0}, to : Nat, shareBps : Nat]
           rowsOf(pos) == {i \in DOMAIN template : pos \in template[i].from .. template[i].to}
           positions == UNION {template[i].from .. template[i].to : i \in DOMAIN template}
           last(pos) == CHOOSE i \in rowsOf(pos) : \A j \in rowsOf(pos) : j <= i
<1>1. /\ Len(template) \in Nat /\ DOMAIN template = 1 .. Len(template)
      /\ \A i \in DOMAIN template : template[i] \in Row
  BY LenProperties DEF TemplatePays
<1>2. DOMAIN PerPosition(template) = positions
  BY DEF PerPosition
<1>3. \A pos \in positions : pos \in Nat \ {0}
  BY <1>1
<1>4. ASSUME NEW pos \in positions PROVE PerPosition(template)[pos] \in Nat
  <2>1. rowsOf(pos) \in SUBSET (1 .. Len(template)) /\ rowsOf(pos) # {}
    BY <1>1
  <2>2. \E i \in rowsOf(pos) : \A j \in rowsOf(pos) : j <= i
    <3> HIDE DEF rowsOf
    <3> QED
      BY <1>1, <2>1, HasLargest
  <2>3. last(pos) \in rowsOf(pos)
    <3> HIDE DEF rowsOf
    <3> QED
      BY <2>2
  <2>4. /\ template[last(pos)] \in Row
        /\ pos \in template[last(pos)].from .. template[last(pos)].to
    BY <1>1, <2>3
  <2>5. PerPosition(template)[pos] = template[last(pos)].shareBps \div Span(template[last(pos)])
    BY DEF PerPosition
  <2> HIDE DEF last
  <2>6. Span(template[last(pos)]) \in Nat \ {0} /\ template[last(pos)].shareBps \in Nat
    BY <1>3, <2>4 DEF Span
  <2> QED
    BY <2>5, <2>6, Floored
<1> HIDE DEF positions
<1>5. paid \subseteq 1 .. entrants /\ paid \subseteq positions
  BY <1>2, <1>3 DEF PaidPositions
<1>6. IsFiniteSet(paid)
  BY <1>5, FS_Interval, FS_Subset
<1>7. 1 \in paid /\ PerPosition(template)[1] > 0
  BY DEF PaidPositions, TemplatePays
<1> QED
  BY <1>4, <1>5, <1>6, <1>7

(* Each paid position gets its share of the pool among the paid ones,      *)
(* rounded down; the rest, less than a unit per paid position, goes to the *)
(* first.                                                                  *)
DividesInFull(prizes, pool, template, entrants) ==
  LET paid == PaidPositions(template, entrants)
      share == PerPosition(template)
      total == SumFunctionOnSet(share, paid)
      floor(pos) == (pool * share[pos]) \div total
  IN  /\ prizes \in [paid -> Nat]
      /\ SumFunction(prizes) = pool
      /\ \A pos \in paid \ {1} : prizes[pos] = floor(pos)
      /\ prizes[1] \in floor(1) .. (floor(1) + Cardinality(paid) - 1)

(* computePrizes always distributes the full pool (ranking.ts), whatever   *)
(* the pool, the template and the number of entrants: nothing is rounded   *)
(* away and nobody is paid a negative prize.                               *)
THEOREM PoolDivided ==
  ASSUME NEW pool \in Nat \ {0}, NEW template, TemplatePays(template),
         NEW entrants \in Nat \ {0}
  PROVE  DividesInFull(ComputePrizes(pool, template, entrants), pool, template, entrants)
<1> DEFINE share == PerPosition(template)
           paid == PaidPositions(template, entrants)
           total == SumFunctionOnSet(share, paid)
           base == [pos \in paid |-> (pool * share[pos]) \div total]
           exact == [pos \in paid |-> pool * share[pos]]
           given == SumFunctionOnSet(base, paid)
           dust == pool - given
           prizes == [base EXCEPT ![1] = @ + dust]
           Sum(f) == SumFunctionOnSet(f, paid)
<1>1. /\ IsFiniteSet(paid) /\ paid \subseteq 1 .. entrants /\ 1 \in paid
      /\ \A pos \in paid : share[pos] \in Nat
      /\ share[1] > 0
  BY PaidShares
<1> HIDE DEF paid, share
<1>2. total \in Nat \ {0}
  <2>1. total \in Nat /\ total >= share[1]
    BY <1>1, SumCovers
  <2> HIDE DEF total
  <2> QED
    BY <1>1, <2>1
<1> HIDE DEF total
<1>3. /\ base \in [paid -> Nat] /\ exact \in [paid -> Nat]
      /\ \A pos \in paid : /\ total * base[pos] <= exact[pos]
                           /\ exact[pos] < total * (base[pos] + 1)
  <2> SUFFICES ASSUME NEW pos \in paid
               PROVE  /\ base[pos] \in Nat /\ exact[pos] \in Nat
                      /\ total * base[pos] <= exact[pos]
                      /\ exact[pos] < total * (base[pos] + 1)
    OBVIOUS
  <2>1. exact[pos] \in Nat /\ base[pos] = exact[pos] \div total
    BY <1>1
  <2> HIDE DEF exact, base
  <2> QED
    BY <1>2, <2>1, Floored
<1>4. base \in [paid -> Int] /\ exact \in [paid -> Int]
  BY <1>3
<1>5. given \in Nat /\ Sum(exact) = pool * total
  <2>1. given \in Nat
    BY <1>1, <1>3, SumCovers
  <2> DEFINE shares == [pos \in paid |-> share[pos]]
  <2>2. /\ shares \in [paid -> Int] /\ pool \in Int
        /\ \A pos \in paid : exact[pos] = pool * shares[pos]
    BY <1>1
  <2>3. Sum(shares) = total
    BY <1>1, SumsEqual DEF total
  <2> HIDE DEF shares, exact
  <2>4. Sum(exact) = pool * Sum(shares)
    BY <1>1, <1>4, <2>2, SumScaled
  <2> HIDE DEF Sum
  <2> QED
    BY <2>1, <2>3, <2>4
<1>6. given <= pool
  <2> DEFINE scaled == [pos \in paid |-> total * base[pos]]
  <2>1. /\ scaled \in [paid -> Int] /\ total \in Int
        /\ \A pos \in paid : scaled[pos] = total * base[pos] /\ scaled[pos] <= exact[pos]
    BY <1>2, <1>3
  <2> HIDE DEF base, exact, scaled
  <2>2. Sum(scaled) = total * given
    <3>1. ASSUME NEW c \in Int, \A pos \in paid : scaled[pos] = c * base[pos]
          PROVE  Sum(scaled) = c * Sum(base)
      BY <1>1, <1>4, <2>1, <3>1, SumScaled
    <3> QED
      BY <2>1, <3>1
  <2>3. Sum(scaled) <= Sum(exact)
    BY <1>1, <1>4, <2>1, SumMonotone
  <2> HIDE DEF given, Sum
  <2>4. total * given <= total * pool
    BY <1>2, <1>5, <2>2, <2>3
  <2> QED
    BY <1>2, <1>5, <2>4, Cancels
<1>7. dust < Cardinality(paid)
  <2> DEFINE ones == [pos \in paid |-> 1]
             next == [pos \in paid |-> base[pos] + ones[pos]]
             more == [pos \in paid |-> exact[pos] + ones[pos]]
             scaled == [pos \in paid |-> total * next[pos]]
  <2>1. Cardinality(paid) \in Nat /\ Cardinality(paid) > 0
    BY <1>1, FS_CardinalityType, FS_EmptySet
  <2>2. ones \in [paid -> Int] /\ \A pos \in paid : ones[pos] = 1
    OBVIOUS
  <2>3. /\ next \in [paid -> Int] /\ more \in [paid -> Int] /\ scaled \in [paid -> Int]
        /\ \A pos \in paid : scaled[pos] = total * next[pos] /\ more[pos] <= scaled[pos]
    BY <1>2, <1>3
  <2> HIDE DEF base, exact, ones
  <2>4. Sum(ones) = Cardinality(paid)
    BY <1>1, <2>2, SumOnes
  <2>5. Sum(next) = Sum(base) + Sum(ones) /\ Sum(more) = Sum(exact) + Sum(ones)
    BY <1>1, <1>4, <2>2, SumOfSums
  <2> HIDE DEF next, more, scaled
  <2>6. Sum(scaled) = total * Sum(next)
    <3>1. ASSUME NEW c \in Int, \A pos \in paid : scaled[pos] = c * next[pos]
          PROVE  Sum(scaled) = c * Sum(next)
      BY <1>1, <2>3, <3>1, SumScaled
    <3>2. total \in Int
      BY <1>2
    <3> QED
      BY <2>3, <3>1, <3>2
  <2>7. Sum(more) <= Sum(scaled)
    BY <1>1, <2>3, SumMonotone
  <2>8. Sum(base) = given
    OBVIOUS
  <2> HIDE DEF Sum, given
  <2>9. total * pool < total * (given + Cardinality(paid))
    BY <1>2, <1>5, <2>1, <2>4, <2>8, <2>5, <2>6, <2>7
  <2> QED
    BY <1>2, <1>5, <2>1, <2>9, Cancels
<1>8. dust \in Nat
  <2> HIDE DEF given
  <2> QED
    BY <1>5, <1>6
<1>9. /\ prizes \in [paid -> Nat]
      /\ prizes[1] = base[1] + dust
      /\ \A pos \in paid \ {1} : prizes[pos] = base[pos]
  <2> HIDE DEF base, dust
  <2> QED
    BY <1>1, <1>3, <1>8
<1>10. SumFunction(prizes) = pool
  <2> DEFINE others == SumFunctionOnSet(base, paid \ {1})
  <2> HIDE DEF prizes, base
  <2>1. IsFiniteSet(paid \ {1})
    BY <1>1, FS_RemoveElement
  <2>2. SumFunctionOnSet(prizes, paid \ {1}) = others
    BY <1>9, <2>1, SumsEqual
  <2>3. given = base[1] + others
    BY <1>1, <1>4, SumRemove
  <2>4. SumFunctionOnSet(prizes, paid) = prizes[1] + others
    <3>1. \A pos \in paid : prizes[pos] \in Int
      BY <1>9
    <3> HIDE DEF others
    <3> QED
      BY <1>1, <2>2, <3>1, SumRemove
  <2>5. others \in Int /\ base[1] \in Int
    BY <1>1, <1>4, <2>1, SumType
  <2>6. DOMAIN prizes = paid
    BY <1>9
  <2> HIDE DEF given, others
  <2> QED
    BY <1>5, <1>9, <2>3, <2>4, <2>5, <2>6 DEF SumFunction
<1>11. ComputePrizes(pool, template, entrants) = prizes
  <2>1. DOMAIN base = paid
    OBVIOUS
  <2> QED
    BY <1>1, <2>1 DEF ComputePrizes, SumFunction, paid, share, total
<1>12. prizes[1] \in base[1] .. (base[1] + Cardinality(paid) - 1)
  <2>1. Cardinality(paid) \in Nat /\ base[1] \in Nat
    BY <1>1, <1>3, FS_CardinalityType
  <2> HIDE DEF base, dust
  <2> QED
    BY <1>7, <1>8, <1>9, <2>1
<1> HIDE DEF prizes
<1> QED
  BY <1>1, <1>9, <1>10, <1>11, <1>12 DEF DividesInFull, paid, share, total

(* Ranking gives every position from first to last to one entry.           *)
LEMMA PositionsAssigned ==
  ASSUME NEW ranked \in SUBSET Users
  PROVE  /\ \A u \in ranked : Position(u, ranked) \in 1 .. Cardinality(ranked)
         /\ \A u, v \in ranked : Position(u, ranked) = Position(v, ranked) => u = v
         /\ \A pos \in 1 .. Cardinality(ranked) : \E u \in ranked : Position(u, ranked) = pos
<1>1. /\ IsFiniteSet(ranked) /\ \A u \in ranked : Rank[u] \in Int
      /\ \A u, v \in ranked : Rank[u] = Rank[v] => u = v
  BY SubsetOfUsers, ContestAssumption
<1>2. \A u \in ranked : Position(u, ranked) = Cardinality(UpTo(Rank, ranked, u))
  BY DEF Position, UpTo
<1> QED
  BY <1>1, <1>2, Placed

LEMMA PoolType ==
  ASSUME NEW gross \in Nat
  PROVE  PrizePool(gross, CommissionBps) \in 0 .. gross
<1> DEFINE net == gross * (10000 - CommissionBps)
           pool == PrizePool(gross, CommissionBps)
<1>1. CommissionBps \in 0 .. 10000 /\ 10000 - CommissionBps \in 0 .. 10000
  BY ContestAssumption
<1>2. net \in Nat /\ net <= 10000 * gross
  BY <1>1
<1>3. pool = net \div 10000
  BY DEF PrizePool
<1> HIDE DEF net, pool
<1>4. pool \in Nat /\ 10000 * pool <= net
  BY <1>2, <1>3, Floored
<1> QED
  BY <1>2, <1>4 DEF pool

(* The entries that win are paid the pool, all of it.                      *)
LEMMA PayoutInFull ==
  ASSUME NEW ranked \in SUBSET Users, ranked # {}, NEW gross \in Nat
  PROVE  /\ Payout(ranked, gross) \in [Users -> Nat]
         /\ SumFunctionOnSet(Payout(ranked, gross), Users) = PrizePool(gross, CommissionBps)
         /\ Commission(ranked, gross) = gross - PrizePool(gross, CommissionBps)
<1> DEFINE pool == PrizePool(gross, CommissionBps)
           n == Cardinality(ranked)
           prizes == PrizesOf(ranked, gross)
           winners == PrizeWinners(ranked, gross)
           payout == Payout(ranked, gross)
<1>1. IsFiniteSet(ranked) /\ n \in Nat \ {0} /\ IsFiniteSet(Users)
  BY SubsetOfUsers, FS_EmptySet, ContestAssumption
<1>2. pool \in Nat
  BY PoolType
<1>3. winners \in SUBSET Users /\ winners \subseteq ranked
  BY DEF PrizeWinners
<1>4. payout \in [Users -> Nat] /\ SumFunctionOnSet(payout, Users) = pool
  <2>1. CASE pool = 0
    <3>1. prizes = <<>>
      BY <2>1 DEF PrizesOf, ComputePrizes
    <3>2. winners = {}
      BY <3>1 DEF PrizeWinners
    <3>3. payout = [u \in Users |-> 0]
      BY <3>2 DEF Payout
    <3>4. \A u \in Users \ {} : payout[u] = 0
      BY <3>3
    <3>5. SumFunctionOnSet(payout, Users) = SumFunctionOnSet(payout, {})
      BY <1>1, <3>3, <3>4, SumSupport
    <3> QED
      BY <2>1, <3>3, <3>5, SumEmpty
  <2>2. CASE pool # 0
    <3> DEFINE paid == PaidPositions(Template, n)
               at == [u \in winners |-> Position(u, ranked)]
    <3>1. DividesInFull(prizes, pool, Template, n)
      <4>1. pool \in Nat \ {0}
        BY <1>2, <2>2
      <4> QED
        BY <1>1, <4>1, PoolDivided, TemplateAssumption DEF PrizesOf
    <3>2. prizes \in [paid -> Nat] /\ SumFunctionOnSet(prizes, paid) = pool
      BY <3>1 DEF DividesInFull, SumFunction
    <3>3. IsFiniteSet(paid) /\ paid \subseteq 1 .. n
      BY <1>1, PaidShares, TemplateAssumption
    <3> HIDE DEF prizes, paid
    <3>4. \A u \in ranked : u \in winners <=> Position(u, ranked) \in paid
      BY <3>2 DEF PrizeWinners, prizes
    <3>5. \A u \in Users : payout[u] = IF u \in winners THEN prizes[at[u]] ELSE 0
      BY DEF Payout, prizes
    <3>6. /\ at \in [winners -> paid]
          /\ \A u, v \in winners : at[u] = at[v] => u = v
          /\ \A pos \in paid : \E u \in winners : at[u] = pos
      BY <1>3, <3>3, <3>4, PositionsAssigned
    <3>7. payout \in [Users -> Nat]
      <4>1. payout = [u \in Users |-> payout[u]]
        BY DEF Payout
      <4> HIDE DEF payout, winners, at
      <4> QED
        BY <3>2, <3>5, <3>6, <4>1
    <3> HIDE DEF payout, winners, at
    <3>8. SumFunctionOnSet(payout, Users) = SumFunctionOnSet(payout, winners)
      <4>1. payout \in [Users -> Int] /\ \A u \in Users \ winners : payout[u] = 0
        BY <3>5, <3>7
      <4> QED
        BY <1>1, <1>3, <4>1, SumSupport
    <3>9. SumFunctionOnSet(payout, winners) = SumFunctionOnSet(prizes, paid)
      <4>1. IsFiniteSet(winners) /\ IsFiniteSet(paid) /\ \A pos \in paid : prizes[pos] \in Int
        BY <1>1, <1>3, <3>2, <3>3, FS_Subset
      <4>2. \A u \in winners : payout[u] = prizes[at[u]]
        BY <1>3, <3>5
      <4> QED
        BY <3>6, <4>1, <4>2, SumRenamed
    <3> QED
      BY <3>2, <3>7, <3>8, <3>9
  <2> QED
    BY <2>1, <2>2
<1>5. Commission(ranked, gross) = gross - pool
  <2>1. DOMAIN payout = Users
    BY DEF Payout
  <2> QED
    BY <1>4, <2>1 DEF Commission, SumFunction
<1> QED
  BY <1>4, <1>5

(* A settlement pays the pool of the fees then in escrow - those charged   *)
(* less those returned, one per ACTIVE entry while every entry paid for    *)
(* itself and never more - to the players, to the last unit, and keeps     *)
(* what the commission is of it; nobody pays.                              *)
PoolPaidOut ==
  [][~Posted(SettlementKey) /\ Posted(SettlementKey)' =>
       LET gross == Fee * (Cardinality(Charged) - Cardinality(Refunded))
           pool == PrizePool(gross, CommissionBps)
           lines == journal'[SettlementKey]
       IN  /\ gross <= Fee * Cardinality(Active)
           /\ Replayed = {} => gross = Fee * Cardinality(Active)
           /\ \A u \in Users : lines[u] >= 0
           /\ SumFunctionOnSet(lines, Users) = pool
           /\ lines[Platform] = gross - pool /\ lines[Platform] >= 0
           /\ lines[Escrow] = -gross /\ balance'[Escrow] = 0]_vars

(* distribute pays what the entries paid in and did not get back, less the *)
(* commission, whoever entered, cancelled or settled meanwhile, prompt or  *)
(* not, and whatever keys they entered on.                                 *)
THEOREM PoolIsPaidOut == Spec => PoolPaidOut
<1>1. ASSUME IInv, Next, ~Posted(SettlementKey), Posted(SettlementKey)'
      PROVE  LET gross == Fee * (Cardinality(Charged) - Cardinality(Refunded))
                 pool == PrizePool(gross, CommissionBps)
                 lines == journal'[SettlementKey]
             IN  /\ gross <= Fee * Cardinality(Active)
                 /\ Replayed = {} => gross = Fee * Cardinality(Active)
                 /\ \A u \in Users : lines[u] >= 0
                 /\ SumFunctionOnSet(lines, Users) = pool
                 /\ lines[Platform] = gross - pool /\ lines[Platform] >= 0
                 /\ lines[Escrow] = -gross /\ balance'[Escrow] = 0
  <2>1. PICK w \in Workers : DistributePay(w)
    <3>1. \/ UNCHANGED journal
          \/ \E u \in Users, t \in Tabs, key \in ClientKeys : SubmitCommit(u, t, key)
          \/ \E key \in ClientKeys : ChargeElsewhere(key)
          \/ \E a \in Admins : CancelCommit(a)
          \/ \E w \in Workers : DistributePay(w)
      BY <1>1 DEF Next, ledgerVars, KickOff, RunLockJob, ExhaustLockJob, ForceLock, Lock,
         PublishCheck, PublishCommit, ScheduleLock, LoseLockJob, CancelRead, CancelFails,
         SubmitCheck, SubmitFails, FinalizeResult, SelectContest, PassOverContest, ScoreMatch,
         CountPending, MarkScored, ResultJobFails, DistributeRead, DistributeOpen,
         DistributeNothing, DistributeFails
    <3>2. ~ UNCHANGED journal
      BY <1>1 DEF Posted, Books!Posted
    <3>3. ASSUME NEW u \in Users, NEW t \in Tabs, NEW key \in ClientKeys, SubmitCommit(u, t, key)
          PROVE  FALSE
      BY <1>1, <3>2, <3>3, KeysDistinct
      DEF SubmitCommit, ChargeFee, ledgerVars, Books!Post, Books!Record, Posted, Books!Posted
    <3>5. ASSUME NEW key \in ClientKeys, ChargeElsewhere(key) PROVE FALSE
      BY <1>1, <3>5, KeysDistinct DEF ChargeElsewhere, Books!Post, Books!Record, Posted, Books!Posted
    <3>4. ASSUME NEW a \in Admins, CancelCommit(a) PROVE FALSE
      <4>1. cancelling[a].seen \subseteq Users
        BY <1>1 DEF IInv, TypeOK
      <4> QED
        BY <1>1, <3>4, <4>1, KeysDistinct DEF CancelCommit, Refund, ToRefund, Posted, Books!Posted
    <3> QED
      BY <3>1, <3>2, <3>3, <3>4, <3>5
  <2> DEFINE ranked == settling[w].ranked
             gross == settling[w].gross
             lines == SettlementLines(ranked, gross)
             pool == PrizePool(gross, CommissionBps)
  <2>2. /\ ranked \in SUBSET Users /\ ranked # {} /\ gross \in Nat
        /\ balance[Escrow] = gross
        /\ balance' = Books!Apply(balance, lines)
        /\ journal' = Books!Record(journal, SettlementKey, lines)
    BY <1>1, <2>1 DEF DistributePay, Books!Post, IInv, TypeOK
  <2>3. /\ gross = Fee * (Cardinality(Charged) - Cardinality(Refunded))
        /\ gross <= Fee * Cardinality(Active)
        /\ Replayed = {} => gross = Fee * Cardinality(Active)
    BY <1>1, <2>2 DEF IInv, MoneyInv, EscrowBacksEntries
  <2>4. journal'[SettlementKey] = lines
    BY <2>2 DEF Books!Record
  <2>5. /\ Payout(ranked, gross) \in [Users -> Nat]
        /\ SumFunctionOnSet(Payout(ranked, gross), Users) = pool
        /\ Commission(ranked, gross) = gross - pool
    BY <2>2, PayoutInFull
  <2>6. pool \in 0 .. gross
    BY <2>2, PoolType
  <2>7. /\ lines[Escrow] = -gross /\ lines[Platform] = gross - pool
        /\ \A u \in Users : lines[u] = Payout(ranked, gross)[u]
    BY <2>5, AccountsDistinct DEF SettlementLines
  <2>8. SumFunctionOnSet(lines, Users) = pool
    <3> HIDE DEF lines
    <3> QED
      BY <2>5, <2>7, SumsEqual, ContestAssumption
  <2>9. balance'[Escrow] = 0
    <3> HIDE DEF lines, gross
    <3> QED
      BY <2>2, <2>7, AccountsDistinct DEF Books!Apply
  <2> HIDE DEF lines, gross, pool
  <2>10. (\A u \in Users : lines[u] >= 0) /\ gross - pool >= 0
    BY <2>2, <2>5, <2>6, <2>7
  <2> QED
    BY <2>3, <2>4, <2>7, <2>8, <2>9, <2>10 DEF pool
<1> DEFINE Paid ==
      ~Posted(SettlementKey) /\ Posted(SettlementKey)' =>
         LET gross == Fee * (Cardinality(Charged) - Cardinality(Refunded))
             pool == PrizePool(gross, CommissionBps)
             lines == journal'[SettlementKey]
         IN  /\ gross <= Fee * Cardinality(Active)
             /\ Replayed = {} => gross = Fee * Cardinality(Active)
             /\ \A u \in Users : lines[u] >= 0
             /\ SumFunctionOnSet(lines, Users) = pool
             /\ lines[Platform] = gross - pool /\ lines[Platform] >= 0
             /\ lines[Escrow] = -gross /\ balance'[Escrow] = 0
<1>2. IInv /\ [Next]_vars => [Paid]_vars
  BY <1>1
<1> QED
  BY <1>2, Invariance, PTL DEF Spec, PoolPaidOut

-----------------------------------------------------------------------------
(* The tie-break chain, which Rank stands for in a contest, orders any     *)
(* entries totally.                                                        *)

(* No entry ranks before itself or before one that ranks before it.        *)
THEOREM RankAsymmetric ==
  ASSUME NEW a \in RankableEntries, NEW b \in RankableEntries, RanksBefore(a, b)
  PROVE  ~RanksBefore(b, a)
<1>1. Draw[a.entryId] \in Nat /\ Draw[b.entryId] \in Nat
  BY RankingAssumption DEF RankableEntries
<1> QED BY <1>1 DEF RanksBefore, RankableEntries

(* Ranking is transitive, whatever breaks the ties.                        *)
THEOREM RankTransitive ==
  ASSUME NEW a \in RankableEntries, NEW b \in RankableEntries, NEW c \in RankableEntries,
         RanksBefore(a, b), RanksBefore(b, c)
  PROVE  RanksBefore(a, c)
<1>1. Draw[a.entryId] \in Nat /\ Draw[b.entryId] \in Nat /\ Draw[c.entryId] \in Nat
  BY RankingAssumption DEF RankableEntries
<1> QED BY <1>1 DEF RanksBefore, RankableEntries

(* Of two entries one ranks first (ranking.ts, "The chain yields a TOTAL   *)
(* order").                                                                *)
THEOREM RankTotal ==
  ASSUME NEW a \in RankableEntries, NEW b \in RankableEntries, a.entryId # b.entryId
  PROVE  RanksBefore(a, b) \/ RanksBefore(b, a)
<1>1. /\ Draw[a.entryId] \in Nat /\ Draw[b.entryId] \in Nat
      /\ Draw[a.entryId] # Draw[b.entryId]
  BY RankingAssumption DEF RankableEntries
<1> QED BY <1>1 DEF RanksBefore, RankableEntries

-----------------------------------------------------------------------------

(* Prizes and ranks.                                                       *)

(* Each position from first to last goes to one entry.                     *)
LEMMA RanksAssigned ==
  ASSUME NEW entries \in SUBSET RankableEntries, IsFiniteSet(entries),
         \A a, b \in entries : a.entryId = b.entryId => a = b
  PROVE  Range(RankEntries(entries)) = 1 .. Cardinality(entries)
<1> DEFINE n == Cardinality(entries)
           before(a) == {b \in entries : RanksBefore(b, a)}
           at == RankEntries(entries)
<1>1. n \in Nat /\ IsFiniteSet(1 .. n) /\ Cardinality(1 .. n) = n
  BY FS_CardinalityType, FS_Interval
<1>2. \A a \in entries : IsFiniteSet(before(a)) /\ Cardinality(before(a)) \in Nat
  <2> TAKE a \in entries
  <2>1. before(a) \subseteq entries
    OBVIOUS
  <2> QED
    BY <2>1, FS_Subset, FS_CardinalityType
<1>3. \A a \in entries : at[a] = 1 + Cardinality(before(a))
  BY DEF RankEntries
<1>4. \A a \in entries : at[a] \in 1 .. n
  <2> TAKE a \in entries
  <2>1. before(a) \subseteq entries /\ a \notin before(a)
    BY RankAsymmetric
  <2> HIDE DEF before, at
  <2>2. Cardinality(before(a)) < n
    <3>1. before(a) \in SUBSET (entries \ {a})
      BY <2>1
    <3>2. IsFiniteSet(entries \ {a}) /\ Cardinality(entries \ {a}) = n - 1
      BY FS_RemoveElement
    <3>3. Cardinality(before(a)) <= n - 1
      BY <3>1, <3>2, FS_Subset
    <3> QED
      BY <1>1, <1>2, <3>3
  <2> QED
    BY <1>1, <1>2, <1>3, <2>2
<1>5. ASSUME NEW a \in entries, NEW b \in entries, RanksBefore(a, b) PROVE at[a] < at[b]
  <2>1. a \notin before(a) /\ before(a) \cup {a} \subseteq before(b)
    BY <1>5, RankAsymmetric, RankTransitive
  <2>2. Cardinality(before(a) \cup {a}) = Cardinality(before(a)) + 1
    BY <1>2, <2>1, FS_AddElement
  <2>3. Cardinality(before(a) \cup {a}) <= Cardinality(before(b))
    BY <1>2, <2>1, FS_Subset
  <2> HIDE DEF before, at
  <2> QED
    BY <1>2, <1>3, <2>2, <2>3
<1>6. \A a, b \in entries : at[a] = at[b] => a = b
  <2> TAKE a, b \in entries
  <2>1. a # b => RanksBefore(a, b) \/ RanksBefore(b, a)
    BY RankTotal
  <2> QED
    BY <1>1, <1>4, <1>5, <2>1
<1>7. at \in [entries -> 1 .. n]
  BY <1>4 DEF RankEntries
<1> HIDE DEF at, before
<1>8. at \in Injection(entries, 1 .. n)
  BY <1>6, <1>7 DEF Injection, IsInjective
<1>9. at \in Surjection(entries, 1 .. n)
  BY <1>1, <1>8, FS_Injection
<1>10. DOMAIN at = entries
  BY <1>7
<1>11. \A k \in 1 .. n : \E a \in entries : at[a] = k
  BY <1>9 DEF Surjection
<1> QED
  BY <1>7, <1>10, <1>11 DEF Range, at

(* A contest and its entrants: a fee, a commission (at most the whole fee) *)
(* and a template, as admins may set them.                                 *)
PrizeRow ==
  /\ row.table = "prizes"
  /\ row = [table |-> "prizes", fee |-> row.fee, commissionBps |-> row.commissionBps,
            template |-> row.template, entrants |-> row.entrants]
  /\ row.fee \in Nat \ {0} /\ row.commissionBps \in Nat /\ row.commissionBps <= 10000
  /\ TemplatePays(row.template) /\ row.entrants \in Nat

(* The entries of a contest when it is settled, under distinct ids.        *)
RankRow ==
  /\ row.table = "rank"
  /\ row.entries \in SUBSET RankableEntries /\ IsFiniteSet(row.entries)
  /\ \A a, b \in row.entries : a.entryId = b.entryId => a = b

(* No fees, no pool.                                                       *)
LEMMA NetIsPool ==
  ASSUME NEW fees \in Nat, NEW bps \in Nat, bps <= 10000
  PROVE  PrizePool(fees, bps) \in Nat /\ PrizePool(0, bps) = 0
<1> DEFINE net == fees * (10000 - bps)
<1>1. net \in Nat /\ 0 * (10000 - bps) = 0
  OBVIOUS
<1> HIDE DEF net
<1>2. net \div 10000 \in Nat
  BY <1>1, Floored
<1> QED
  BY <1>1, <1>2 DEF PrizePool, net

(* Both cases of PoolFullyDistributed: the division, and the ranks.        *)
LEMMA RowDistributed == PrizeRow \/ RankRow => PoolFullyDistributed
<1>1. ASSUME RankRow PROVE PoolFullyDistributed
  BY <1>1, RanksAssigned DEF RankRow, PoolFullyDistributed
<1>2. ASSUME PrizeRow PROVE PoolFullyDistributed
  <2> DEFINE gross == row.fee * row.entrants
             pool == PrizePool(gross, row.commissionBps)
             prizes == ComputePrizes(pool, row.template, row.entrants)
             share == PerPosition(row.template)
             paid == PaidPositions(row.template, row.entrants)
             total == SumFunctionOnSet(share, paid)
             floor(pos) == (pool * share[pos]) \div total
  <2> SUFFICES ASSUME pool > 0
               PROVE  /\ SumFunction(prizes) = pool
                      /\ DOMAIN prizes = paid
                      /\ \A pos \in paid :
                           /\ prizes[pos] * total <= pool * share[pos] \/ pos = 1
                           /\ pool * share[pos] < (prizes[pos] + 1) * total
                      /\ prizes[1] * total <= pool * share[1] + total * (Cardinality(paid) - 1)
    BY <1>2 DEF PrizeRow, PoolFullyDistributed, EstimatedPool, PrizePool
  <2>1. gross \in Nat /\ pool \in Nat
    <3>1. gross \in Nat
      BY <1>2 DEF PrizeRow
    <3>2. row.commissionBps \in Nat /\ row.commissionBps <= 10000
      BY <1>2 DEF PrizeRow
    <3> HIDE DEF gross
    <3>3. PrizePool(gross, row.commissionBps) \in Nat
      BY <3>1, <3>2, NetIsPool
    <3> QED
      BY <3>1, <3>3
  <2>2. row.entrants \in Nat \ {0}
    <3>1. row.entrants = 0 => pool = 0
      <4>1. row.entrants = 0 => gross = 0
        BY <1>2 DEF PrizeRow
      <4>2. row.commissionBps \in Nat /\ row.commissionBps <= 10000
        BY <1>2 DEF PrizeRow
      <4>3. PrizePool(0, row.commissionBps) = 0
        BY <4>2, NetIsPool
      <4> QED
        BY <4>1, <4>3
    <3> QED
      BY <1>2, <3>1 DEF PrizeRow
  <2>3. /\ prizes \in [paid -> Nat] /\ SumFunction(prizes) = pool
        /\ \A pos \in paid \ {1} : prizes[pos] = floor(pos)
        /\ prizes[1] \in floor(1) .. (floor(1) + Cardinality(paid) - 1)
    <3> HIDE DEF pool
    <3> QED
      BY <1>2, <2>1, <2>2, PoolDivided DEF PrizeRow, DividesInFull
  <2>4. /\ IsFiniteSet(paid) /\ 1 \in paid /\ \A pos \in paid : share[pos] \in Nat
        /\ share[1] > 0 /\ Cardinality(paid) \in Nat
    BY <1>2, <2>2, PaidShares, FS_CardinalityType DEF PrizeRow
  <2> HIDE DEF pool, share, paid, prizes
  <2>5. total \in Nat \ {0}
    <3>1. total \in Nat /\ total >= share[1]
      BY <2>4, SumCovers
    <3> HIDE DEF total
    <3> QED
      BY <2>4, <3>1
  <2> HIDE DEF total
  <2>6. \A pos \in paid : /\ floor(pos) \in Nat /\ total * floor(pos) <= pool * share[pos]
                          /\ pool * share[pos] < total * (floor(pos) + 1)
    <3> TAKE pos \in paid
    <3>1. pool * share[pos] \in Nat
      BY <2>1, <2>4
    <3> QED
      BY <2>5, <3>1, Floored
  <2> HIDE DEF floor
  <2>7. ASSUME NEW pos \in paid
        PROVE  /\ prizes[pos] * total <= pool * share[pos] \/ pos = 1
               /\ pool * share[pos] < (prizes[pos] + 1) * total
    <3>1. floor(pos) <= prizes[pos] /\ prizes[pos] \in Nat /\ floor(pos) \in Nat
      BY <2>3, <2>4, <2>6
    <3>2. total * (floor(pos) + 1) <= total * (prizes[pos] + 1)
      BY <2>5, <3>1
    <3>3. pos # 1 => prizes[pos] = floor(pos)
      BY <2>3
    <3>4. pool * share[pos] \in Nat
      BY <2>1, <2>4
    <3> QED
      BY <2>5, <2>6, <3>1, <3>2, <3>3, <3>4
  <2>8. prizes[1] * total <= pool * share[1] + total * (Cardinality(paid) - 1)
    <3> DEFINE more == Cardinality(paid) - 1
    <3>1. /\ prizes[1] \in Nat /\ floor(1) \in Nat /\ more \in Int
          /\ prizes[1] <= floor(1) + more
      BY <2>3, <2>4, <2>6
    <3> HIDE DEF more
    <3>2. total * prizes[1] <= total * floor(1) + total * more
      BY <2>5, <3>1
    <3>3. pool * share[1] \in Nat /\ total * floor(1) <= pool * share[1]
      BY <2>1, <2>4, <2>6
    <3> QED
      BY <2>5, <3>1, <3>2, <3>3 DEF more
  <2> QED
    BY <2>3, <2>7, <2>8
<1> QED
  BY <1>1, <1>2

-----------------------------------------------------------------------------

(* Slips: what the API accepts, what the builder makes of them, what they  *)
(* can score.                                                              *)

(* As many predictions as slots and every slot among them: no slot twice.  *)
LEMMA OncePerSlot ==
  ASSUME NEW n \in Nat, NEW slot \in [1 .. n -> 1 .. n],
         \A k \in 1 .. n : \E i \in 1 .. n : slot[i] = k
  PROVE  \A i, j \in 1 .. n : slot[i] = slot[j] => i = j
<1>1. IsFiniteSet(1 .. n) /\ Cardinality(1 .. n) = n
  BY FS_Interval
<1>2. slot \in Surjection(1 .. n, 1 .. n)
  BY DEF Surjection
<1>3. slot \in Injection(1 .. n, 1 .. n)
  BY <1>1, <1>2, FS_Surjection
<1> QED
  BY <1>3 DEF Injection, IsInjective

(* validateSlip finds nothing wrong exactly when nothing is: with as many  *)
(* predictions as slots, a slot missing or named twice, an unknown slot, a *)
(* market of another tier or a strange selection each leaves a violation.  *)
LEMMA FullSlipsOnly ==
  ASSUME NEW S, NEW slots \in Seq(S), ~BadSlotConfig(slots), NEW P, NEW predictions \in Seq(P)
  PROVE  Violations(slots, predictions) = {} <=> FullSlip(slots, predictions)
<1> DEFINE known == {i \in DOMAIN predictions : predictions[i].slotId \in DOMAIN slots}
           first == {i \in known : \A j \in known : predictions[j].slotId = predictions[i].slotId
                                                    => i <= j}
           mismatched == {i \in first : MarketTier[predictions[i].marketType]
                                        # slots[predictions[i].slotId].tier}
           unknown == {i \in first : predictions[i].selection
                                     \notin Selections[predictions[i].marketType]}
           missing == DOMAIN slots \ {predictions[i].slotId : i \in first}
           n == Len(slots)
<1>1. /\ n \in Nat /\ DOMAIN slots = 1 .. n
      /\ Len(predictions) \in Nat /\ DOMAIN predictions = 1 .. Len(predictions)
  BY LenProperties
<1>2. Len(slots) = TotalSlots
  BY DEF BadSlotConfig
<1>3. Violations(slots, predictions) = {} <=>
        /\ Len(predictions) = n
        /\ DOMAIN predictions = known /\ known = first
        /\ mismatched = {} /\ unknown = {} /\ missing = {}
  <2> DEFINE codes == {"UNKNOWN_SLOT" : i \in DOMAIN predictions \ known}
                      \cup {"DUPLICATE_SLOT" : i \in known \ first}
                      \cup {"MARKET_TIER_MISMATCH" : i \in mismatched}
                      \cup {"INVALID_SELECTION" : i \in unknown}
                      \cup {"MISSING_SLOT" : i \in missing}
  <2>1. Violations(slots, predictions)
          = IF Len(predictions) # TotalSlots THEN {"WRONG_COUNT"} ELSE codes
    BY DEF Violations
  <2>2. first \subseteq known /\ known \subseteq DOMAIN predictions
    OBVIOUS
  <2> HIDE DEF known, first, mismatched, unknown, missing
  <2>3. codes = {} <=> /\ DOMAIN predictions = known /\ known = first
                       /\ mismatched = {} /\ unknown = {} /\ missing = {}
    BY <2>2
  <2> QED
    BY <1>2, <2>1, <2>3
<1>4. ASSUME Violations(slots, predictions) = {} PROVE FullSlip(slots, predictions)
  <2>1. {predictions[i].slotId : i \in DOMAIN predictions} = DOMAIN slots
    BY <1>3, <1>4
  <2> QED
    BY <1>3, <1>4, <2>1 DEF FullSlip
<1>5. ASSUME FullSlip(slots, predictions) PROVE Violations(slots, predictions) = {}
  <2> DEFINE slot == [i \in 1 .. n |-> predictions[i].slotId]
  <2>1. /\ Len(predictions) = n /\ DOMAIN predictions = 1 .. n
        /\ {predictions[i].slotId : i \in 1 .. n} = 1 .. n
        /\ \A i \in 1 .. n :
             /\ MarketTier[predictions[i].marketType] = slots[predictions[i].slotId].tier
             /\ predictions[i].selection \in Selections[predictions[i].marketType]
    BY <1>1, <1>5 DEF FullSlip
  <2>2. slot \in [1 .. n -> 1 .. n] /\ \A k \in 1 .. n : \E i \in 1 .. n : slot[i] = k
    BY <2>1
  <2> HIDE DEF slot
  <2>3. \A i, j \in 1 .. n : slot[i] = slot[j] => i = j
    BY <1>1, <2>2, OncePerSlot
  <2>4. \A i, j \in 1 .. n : predictions[i].slotId = predictions[j].slotId => i = j
    BY <2>3 DEF slot
  <2>5. known = 1 .. n /\ first = 1 .. n
    BY <1>1, <2>1, <2>4
  <2>6. mismatched = {} /\ unknown = {}
    BY <2>1, <2>5
  <2>7. missing = {}
    BY <1>1, <2>1, <2>5
  <2> QED
    BY <1>3, <2>1, <2>5, <2>6, <2>7
<1> QED
  BY <1>4, <1>5

(* A slip any client sends for the slots of a contest.                     *)
SentRow ==
  /\ row.table = "sent"
  /\ row.slots \in Seq([tier : Tiers]) /\ ~BadSlotConfig(row.slots)
  /\ row.predictions \in Seq([slotId : Nat, marketType : MarketTypes, selection : STRING])

LEMMA SentChecked == SentRow => OnlyFullSlipsAccepted
BY FullSlipsOnly DEF SentRow, OnlyFullSlipsAccepted

LEMMA TiersFinite == IsFiniteSet(Tiers)
<1>1. Tiers = {"EASY"} \cup {"MEDIUM"} \cup {"HARD"} \cup {"EXPERT"}
  BY DEF Tiers
<1>2. IsFiniteSet({"EASY"} \cup {"MEDIUM"})
  BY FS_Singleton, FS_AddElement
<1>3. IsFiniteSet({"EASY"} \cup {"MEDIUM"} \cup {"HARD"})
  BY <1>2, FS_AddElement
<1> QED
  BY <1>1, <1>3, FS_AddElement

(* A market has one tier and is offered for that tier only.                *)
LEMMA MarketsTyped ==
  /\ \A m \in MarketTypes : MarketTier[m] \in Tiers
  /\ \A tier \in Tiers :
       /\ MarketsByTier[tier][1] \in MarketTypes /\ MarketTier[MarketsByTier[tier][1]] = tier
       /\ \A k \in DOMAIN MarketsByTier[tier] :
            /\ MarketsByTier[tier][k] \in MarketTypes
            /\ MarketTier[MarketsByTier[tier][k]] = tier
BY DEF MarketTypes, MarketTier, Tiers, MarketsByTier

(* An admin gives every market some points, and not any number of them.    *)
LEMMA PointsBounded ==
  ASSUME NEW rules, AcceptableRules(rules)
  PROVE  \E top \in Nat : \A m \in MarketTypes : PointsOf(rules)[m] \in 1 .. top
<1> DEFINE top == MaxPointsX10
<1>1. top \in Nat
  BY DEF MaxPointsX10
<1>2. \A i \in DOMAIN rules : rules[i].pointsX10 \in 1 .. top
  BY DEF AcceptableRules
<1>3. {rules[i].marketType : i \in DOMAIN rules} = MarketTypes
  BY DEF AcceptableRules
<1> HIDE DEF top
<1>4. ASSUME NEW m \in MarketTypes PROVE PointsOf(rules)[m] \in 1 .. top
  <2> DEFINE all == {rules[i] : i \in DOMAIN rules}
             rule == CHOOSE r \in all : r.marketType = m
  <2>1. \E r \in all : r.marketType = m
    BY <1>3
  <2>2. rule \in all
    BY <2>1
  <2>3. PointsOf(rules)[m] = rule.pointsX10
    BY DEF PointsOf
  <2> HIDE DEF rule
  <2>4. rule.pointsX10 \in 1 .. top
    BY <1>2, <2>2
  <2> QED
    BY <2>3, <2>4
<1> QED
  BY <1>1, <1>4

(* The slots of a contest have as many of each tier as the distribution.   *)
LEMMA SlotsByTier ==
  ASSUME NEW slots \in Seq([tier : Tiers]), ~BadSlotConfig(slots), NEW best \in [Tiers -> Int],
         NEW bests, \A i \in DOMAIN slots : bests[i] = best[slots[i].tier]
  PROVE  /\ IsFiniteSet(DOMAIN slots) /\ \A i \in DOMAIN slots : slots[i].tier \in Tiers
         /\ SumFunctionOnSet(bests, DOMAIN slots)
              = SumFunction([tier \in Tiers |-> SlotDistribution[tier] * best[tier]])
<1> DEFINE S == DOMAIN slots
           group == [i \in S |-> slots[i].tier]
           totals == [tier \in Tiers |-> SlotDistribution[tier] * best[tier]]
<1>1. IsFiniteSet(S) /\ \A i \in S : slots[i].tier \in Tiers
  <2>1. Len(slots) \in Nat /\ S = 1 .. Len(slots) /\ \A i \in S : slots[i] \in [tier : Tiers]
    BY LenProperties, ElementOfSeq
  <2> QED
    BY <2>1, FS_Interval
<1>2. group \in [S -> Tiers] /\ \A i \in S : bests[i] = best[group[i]]
  BY <1>1
<1>3. \A tier \in Tiers : totals[tier] = Cardinality(InGroup(group, S, tier)) * best[tier]
  <2> TAKE tier \in Tiers
  <2>1. InGroup(group, S, tier) = {i \in S : slots[i].tier = tier}
    BY DEF InGroup
  <2>2. Cardinality({i \in S : slots[i].tier = tier}) = SlotDistribution[tier]
    BY DEF BadSlotConfig
  <2> QED
    BY <2>1, <2>2
<1>4. SumFunction(totals) = SumFunctionOnSet(totals, Tiers)
  BY DEF SumFunction
<1>5. Grouped(bests, S, group, best, totals, Tiers)
  BY <1>2, <1>3 DEF Grouped
<1> HIDE DEF group, totals, S
<1>6. SumFunctionOnSet(bests, S) = SumFunctionOnSet(totals, Tiers)
  BY <1>1, <1>5, TiersFinite, SumByGroup
<1> QED
  BY <1>1, <1>4, <1>6 DEF S, totals

(* A slip with the right tiers scores at most the best market of each.     *)
LEMMA ScoreBounded ==
  ASSUME NEW top \in Nat, NEW points, \A m \in MarketTypes : points[m] \in 1 .. top,
         NEW slots \in Seq([tier : Tiers]), ~BadSlotConfig(slots),
         NEW market \in [DOMAIN slots -> MarketTypes],
         \A i \in DOMAIN slots : MarketTier[market[i]] = slots[i].tier
  PROVE  SumFunction([i \in DOMAIN slots |-> points[market[i]]]) <= MaxSlipScore(points)
<1> DEFINE S == DOMAIN slots
           Of(tier) == {points[m] : m \in {x \in MarketTypes : MarketTier[x] = tier}}
           earned == [i \in S |-> points[market[i]]]
           best == [tier \in Tiers |-> Max(Of(tier))]
           bests == [i \in S |-> best[slots[i].tier]]
<1>1. ASSUME NEW tier \in Tiers
      PROVE  best[tier] \in Int /\ \A p \in Of(tier) : p <= best[tier]
  <2>1. Of(tier) \in SUBSET (1 .. top)
    OBVIOUS
  <2>2. Of(tier) # {}
    BY MarketsTyped
  <2> HIDE DEF Of
  <2>3. \E p \in Of(tier) : \A q \in Of(tier) : p >= q
    BY <2>1, <2>2, HasLargest
  <2>4. Max(Of(tier)) \in Of(tier) /\ \A q \in Of(tier) : Max(Of(tier)) >= q
    BY <2>3 DEF Max
  <2> QED
    BY <2>1, <2>4
<1>2. best \in [Tiers -> Int]
  <2>1. \A tier \in Tiers : best[tier] \in Int
    BY <1>1
  <2> QED
    BY <2>1
<1>3. /\ IsFiniteSet(S) /\ \A i \in S : slots[i].tier \in Tiers
      /\ SumFunctionOnSet(bests, S)
           = SumFunction([tier \in Tiers |-> SlotDistribution[tier] * best[tier]])
  <2>1. \A i \in S : bests[i] = best[slots[i].tier]
    OBVIOUS
  <2> HIDE DEF best, bests
  <2> QED
    BY <1>2, <2>1, SlotsByTier
<1>4. earned \in [S -> Int] /\ bests \in [S -> Int] /\ \A i \in S : earned[i] <= bests[i]
  <2> SUFFICES ASSUME NEW i \in S
               PROVE  earned[i] \in Int /\ bests[i] \in Int /\ earned[i] <= bests[i]
    OBVIOUS
  <2>1. /\ market[i] \in MarketTypes /\ slots[i].tier \in Tiers
        /\ MarketTier[market[i]] = slots[i].tier
    BY <1>3
  <2>2. points[market[i]] \in Of(slots[i].tier) /\ points[market[i]] \in Int
    BY <2>1
  <2> HIDE DEF Of, best
  <2> QED
    BY <1>1, <2>1, <2>2
<1>5. SumFunctionOnSet(earned, S) <= SumFunctionOnSet(bests, S)
  <2> HIDE DEF earned, bests
  <2> QED
    BY <1>3, <1>4, SumMonotone
<1>6. SumFunction(earned) = SumFunctionOnSet(earned, S)
  BY DEF SumFunction
<1>7. MaxSlipScore(points) = SumFunction([tier \in Tiers |-> SlotDistribution[tier] * best[tier]])
  <2>1. MaxSlipScore(points)
          = SumFunction([tier \in Tiers |-> SlotDistribution[tier] * Max(Of(tier))])
    BY DEF MaxSlipScore
  <2>2. [tier \in Tiers |-> SlotDistribution[tier] * Max(Of(tier))]
          = [tier \in Tiers |-> SlotDistribution[tier] * best[tier]]
    <3> HIDE DEF Of
    <3> QED
      OBVIOUS
  <2> QED
    BY <2>1, <2>2
<1> HIDE DEF earned, bests, best
<1> QED
  BY <1>3, <1>5, <1>6, <1>7 DEF earned

LEMMA MarketsFit ==
  ASSUME NEW slot \in [tier : Tiers], NEW market \in MarketsOffered(slot)
  PROVE  market \in MarketTypes /\ MarketTier[market] = slot.tier
BY MarketsTyped DEF MarketsOffered

(* Whatever the builder offers for a market is a selection of that market. *)
LEMMA SelectionsFit ==
  ASSUME NEW market \in MarketTypes, NEW typed
  PROVE  SelectionsOffered(market, typed) \subseteq Selections[market]
<1>1. CASE market = "CORRECT_SCORE"
  <2> DEFINE grid == {<<1, 0>>, <<2, 0>>, <<2, 1>>, <<3, 1>>, <<0, 0>>, <<1, 1>>, <<2, 2>>,
                      <<0, 1>>, <<0, 2>>, <<1, 2>>, <<1, 3>>, <<3, 0>>}
  <2>1. \A goals \in grid : goals[1] \in 0 .. 9 /\ goals[2] \in 0 .. 9
    OBVIOUS
  <2>2. CorrectScoreGrid = {Scoreline(goals[1], goals[2]) : goals \in grid}
    BY DEF CorrectScoreGrid
  <2>3. Selections[market] = {Scoreline(h, a) : h \in 0 .. 9, a \in 0 .. 9}
    BY <1>1 DEF Selections
  <2> HIDE DEF grid
  <2>4. CorrectScoreGrid \subseteq Selections[market]
    BY <2>1, <2>2, <2>3
  <2> QED
    BY <1>1, <2>4 DEF SelectionsOffered
<1>2. CASE market # "CORRECT_SCORE"
  <2>1. SelectionsOffered(market, typed) = SelectionOptions[market]
    BY <1>2 DEF SelectionsOffered
  <2>2. CASE market = "WINNING_MARGIN"
    BY <2>1, <2>2 DEF SelectionOptions, Selections, MarginOf
  <2>3. CASE market = "EXACT_GOALS"
    <3>1. Selections[market] = Range(GoalCounts)
      BY <2>3 DEF Selections
    <3>2. /\ \A k \in 1 .. 6 : k \in DOMAIN GoalCounts
          /\ GoalCounts[1] = "0" /\ GoalCounts[2] = "1" /\ GoalCounts[3] = "2"
          /\ GoalCounts[4] = "3" /\ GoalCounts[5] = "4" /\ GoalCounts[6] = "5_PLUS"
      BY DEF GoalCounts
    <3>3. SelectionOptions[market] = {"0", "1", "2", "3", "4", "5_PLUS"}
      BY <2>3 DEF SelectionOptions
    <3> QED
      BY <2>1, <3>1, <3>2, <3>3 DEF Range
  <2>4. CASE market \in {"MATCH_WINNER", "DOUBLE_CHANCE", "OVER_UNDER_25", "BTTS",
                         "FIRST_HALF_WINNER", "FIRST_TEAM_TO_SCORE", "CLEAN_SHEET"}
    BY <2>1, <2>4 DEF SelectionOptions, Selections
  <2> QED
    BY <1>2, <2>2, <2>3, <2>4 DEF MarketTypes, MarketTier
<1> QED
  BY <1>1, <1>2

(* The selections of all markets, and none yet.                            *)
Picks == {Unpicked} \cup UNION {Selections[m] : m \in MarketTypes}

(* Each slot has a market of its tier and no pick yet or one of the        *)
(* market's.                                                               *)
ChoicesFit(slots, choices) ==
  /\ choices \in [DOMAIN slots -> [marketType : MarketTypes, selection : Picks]]
  /\ \A i \in DOMAIN slots :
       /\ MarketTier[choices[i].marketType] = slots[i].tier
       /\ choices[i].selection # Unpicked =>
            choices[i].selection \in Selections[choices[i].marketType]

LEMMA FirstChoicesFit ==
  ASSUME NEW slots \in Seq([tier : Tiers])
  PROVE  ChoicesFit(slots, InitialChoices(slots))
<1>1. \A i \in DOMAIN slots : slots[i].tier \in Tiers
  <2>1. DOMAIN slots = 1 .. Len(slots) /\ \A i \in DOMAIN slots : slots[i] \in [tier : Tiers]
    BY LenProperties, ElementOfSeq
  <2> QED
    BY <2>1
<1>2. Unpicked \in Picks
  BY DEF Picks
<1> DEFINE choices == InitialChoices(slots)
<1>3. \A i \in DOMAIN slots :
        choices[i] = [marketType |-> MarketsByTier[slots[i].tier][1], selection |-> Unpicked]
  BY DEF InitialChoices, Choice
<1>4. DOMAIN choices = DOMAIN slots /\ choices = [i \in DOMAIN slots |-> choices[i]]
  BY DEF InitialChoices
<1> HIDE DEF choices
<1>5. \A i \in DOMAIN slots :
        /\ choices[i] \in [marketType : MarketTypes, selection : Picks]
        /\ MarketTier[choices[i].marketType] = slots[i].tier
        /\ choices[i].selection = Unpicked
  <2> TAKE i \in DOMAIN slots
  <2> DEFINE market == MarketsByTier[slots[i].tier][1]
  <2>1. market \in MarketTypes /\ MarketTier[market] = slots[i].tier
    BY <1>1, MarketsTyped
  <2>2. choices[i] = [marketType |-> market, selection |-> Unpicked]
    BY <1>3
  <2> HIDE DEF market
  <2> QED
    BY <1>2, <2>1, <2>2
<1> QED
  BY <1>4, <1>5 DEF ChoicesFit, choices

LEMMA ChangesFit ==
  ASSUME NEW slots \in Seq([tier : Tiers]), NEW choices, ChoicesFit(slots, choices),
         NEW i \in DOMAIN slots
  PROVE  /\ \A market \in MarketsOffered(slots[i]) :
              ChoicesFit(slots, SetMarket(choices, i, market))
         /\ \A typed : \A selection \in SelectionsOffered(choices[i].marketType, typed) :
              ChoicesFit(slots, SetSelection(choices, i, selection))
<1>1. slots[i] \in [tier : Tiers]
  BY LenProperties, ElementOfSeq
<1>2. /\ choices \in [DOMAIN slots -> [marketType : MarketTypes, selection : Picks]]
      /\ \A j \in DOMAIN slots :
           /\ MarketTier[choices[j].marketType] = slots[j].tier
           /\ choices[j].selection # Unpicked =>
                choices[j].selection \in Selections[choices[j].marketType]
  BY DEF ChoicesFit
<1>3. ASSUME NEW market \in MarketsOffered(slots[i])
      PROVE  ChoicesFit(slots, SetMarket(choices, i, market))
  <2> DEFINE choice == [marketType |-> market, selection |-> Unpicked]
  <2>1. /\ choice \in [marketType : MarketTypes, selection : Picks]
        /\ MarketTier[choice.marketType] = slots[i].tier /\ choice.selection = Unpicked
    BY <1>1, <1>3, MarketsFit DEF Picks
  <2>2. SetMarket(choices, i, market) = [choices EXCEPT ![i] = choice]
    BY DEF SetMarket, Choice
  <2> HIDE DEF choice
  <2> QED
    BY <1>2, <2>1, <2>2 DEF ChoicesFit
<1>4. ASSUME NEW typed, NEW selection \in SelectionsOffered(choices[i].marketType, typed)
      PROVE  ChoicesFit(slots, SetSelection(choices, i, selection))
  <2> DEFINE choice == [choices[i] EXCEPT !.selection = selection]
  <2>1. choices[i].marketType \in MarketTypes
    BY <1>2
  <2>2. selection \in Selections[choices[i].marketType] /\ selection \in Picks
    BY <1>4, <2>1, SelectionsFit DEF Picks
  <2>3. /\ choice \in [marketType : MarketTypes, selection : Picks]
        /\ choice.marketType = choices[i].marketType /\ choice.selection = selection
    BY <1>2, <2>2
  <2>4. SetSelection(choices, i, selection) = [choices EXCEPT ![i] = choice]
    BY DEF SetSelection
  <2> HIDE DEF choice
  <2> QED
    BY <1>2, <2>2, <2>3, <2>4 DEF ChoicesFit
<1> QED
  BY <1>3, <1>4

(* A slip in the builder: the slots of a contest and fitting choices.      *)
SlipRow ==
  /\ row.table = "slip"
  /\ row = [table |-> "slip", slots |-> row.slots, choices |-> row.choices]
  /\ row.slots \in Seq([tier : Tiers]) /\ ~BadSlotConfig(row.slots)
  /\ ChoicesFit(row.slots, row.choices)

(* What the builder sends of fitting choices, all of them made: a full     *)
(* slip, with the risk that was shown and a score within the maximum.      *)
LEMMA SlipShown ==
  ASSUME NEW slots \in Seq([tier : Tiers]), ~BadSlotConfig(slots),
         NEW choices, ChoicesFit(slots, choices), SubmitEnabled(choices)
  PROVE  LET sent == Predictions(choices) IN
         /\ FullSlip(slots, sent)
         /\ Violations(slots, sent) = {}
         /\ \A difficulty \in [DOMAIN slots -> Difficulties] :
              StoredRisk(sent, DefaultMarketPointsX10, difficulty)
                = ShownRisk(choices, [i \in DOMAIN difficulty |-> StarsSent(difficulty[i])])
         /\ \A rules \in RuleSets :
              LET points == PointsOf(rules) IN
              AcceptableRules(rules) =>
                SumFunction([i \in DOMAIN sent |-> points[sent[i].marketType]])
                  <= MaxSlipScore(points)
<1> DEFINE sent == Predictions(choices)
           Row == [slotId : DOMAIN slots, marketType : MarketTypes, selection : Picks]
<1>1. Len(slots) \in Nat /\ DOMAIN slots = 1 .. Len(slots)
  BY LenProperties
<1>2. /\ choices \in [DOMAIN slots -> [marketType : MarketTypes, selection : Picks]]
      /\ DOMAIN choices = DOMAIN slots
      /\ \A i \in DOMAIN slots : /\ MarketTier[choices[i].marketType] = slots[i].tier
                                 /\ choices[i].selection \in Selections[choices[i].marketType]
  BY DEF ChoicesFit, SubmitEnabled
<1>3. /\ sent = [i \in DOMAIN slots |-> [slotId |-> i, marketType |-> choices[i].marketType,
                                         selection |-> choices[i].selection]]
  BY <1>2 DEF Predictions
<1>4. sent \in Seq(Row) /\ DOMAIN sent = DOMAIN slots /\ Len(sent) = Len(slots)
  <2>1. sent \in [1 .. Len(slots) -> Row]
    BY <1>1, <1>2, <1>3
  <2> HIDE DEF sent, Row
  <2>2. sent \in Seq(Row)
    BY <1>1, <2>1, SeqDef
  <2> QED
    BY <1>1, <2>1, <2>2, LenProperties
<1>5. \A i \in DOMAIN slots : /\ sent[i].slotId = i /\ sent[i].marketType = choices[i].marketType
                              /\ sent[i].selection = choices[i].selection
  BY <1>3
<1> HIDE DEF sent
<1>6. FullSlip(slots, sent)
  <2>1. {sent[i].slotId : i \in DOMAIN sent} = DOMAIN slots
    BY <1>4, <1>5
  <2>2. \A i \in DOMAIN sent : /\ MarketTier[sent[i].marketType] = slots[sent[i].slotId].tier
                               /\ sent[i].selection \in Selections[sent[i].marketType]
    BY <1>2, <1>4, <1>5
  <2> QED
    BY <1>4, <2>1, <2>2 DEF FullSlip
<1>7. Violations(slots, sent) = {}
  BY <1>4, <1>6, FullSlipsOnly
<1>8. ASSUME NEW difficulty \in [DOMAIN slots -> Difficulties]
      PROVE  StoredRisk(sent, DefaultMarketPointsX10, difficulty)
               = ShownRisk(choices, [i \in DOMAIN difficulty |-> StarsSent(difficulty[i])])
  <2> DEFINE stars == [i \in DOMAIN difficulty |-> StarsSent(difficulty[i])]
             points(i) == DefaultMarketPointsX10[choices[i].marketType]
  <2>1. \A i \in DOMAIN slots :
          StarsCounted(difficulty[i]) = IF stars[i] = NoStars THEN 3 ELSE stars[i]
    BY DEF StarsCounted, StarsSent
  <2>2. [i \in DOMAIN sent |-> [marketType |-> sent[i].marketType,
                                stars |-> StarsCounted(difficulty[i]),
                                pointsX10 |-> DefaultMarketPointsX10[sent[i].marketType]]]
          = [i \in DOMAIN choices |-> [marketType |-> choices[i].marketType,
                                       stars |-> IF stars[i] = NoStars THEN 3 ELSE stars[i],
                                       pointsX10 |-> points(i)]]
    BY <1>2, <1>4, <1>5, <2>1
  <2> QED
    BY <2>2 DEF StoredRisk, ShownRisk
<1>9. ASSUME NEW rules \in RuleSets, AcceptableRules(rules)
      PROVE  SumFunction([i \in DOMAIN sent |-> PointsOf(rules)[sent[i].marketType]])
               <= MaxSlipScore(PointsOf(rules))
  <2> DEFINE points == PointsOf(rules)
             market == [i \in DOMAIN slots |-> choices[i].marketType]
  <2>1. PICK top \in Nat : \A m \in MarketTypes : points[m] \in 1 .. top
    BY <1>9, PointsBounded
  <2>2. /\ market \in [DOMAIN slots -> MarketTypes]
        /\ \A i \in DOMAIN slots : MarketTier[market[i]] = slots[i].tier
    BY <1>2
  <2>3. [i \in DOMAIN sent |-> points[sent[i].marketType]]
          = [i \in DOMAIN slots |-> points[market[i]]]
    BY <1>4, <1>5
  <2> HIDE DEF points, market
  <2>4. SumFunction([i \in DOMAIN slots |-> points[market[i]]]) <= MaxSlipScore(points)
    BY <2>1, <2>2, ScoreBounded
  <2> QED
    BY <2>3, <2>4 DEF points
<1> QED
  BY <1>6, <1>7, <1>8, <1>9 DEF sent

-----------------------------------------------------------------------------

(* Results and what they make right.                                       *)

(* A side's goals in a result an admin may enter.                          *)
Goals == 0 .. 99

(* Ten thousand scorelines, as many as there are pairs of goals: no two    *)
(* pairs share one.                                                        *)
LEMMA ScorelinesDiffer ==
  ASSUME NEW h \in Goals, NEW a \in Goals, NEW i \in Goals, NEW j \in Goals,
         Scoreline(h, a) = Scoreline(i, j)
  PROVE  h = i /\ a = j
<1> DEFINE Pairs == Goals \X Goals
           lines == {Scoreline(x, y) : x \in Goals, y \in Goals}
           line == [p \in Pairs |-> Scoreline(p[1], p[2])]
<1>1. IsFiniteSet(Goals) /\ Cardinality(Goals) = 100
  <2> DEFINE last == 99
  <2>1. last \in Int /\ 0 \in Int /\ ~(0 > last) /\ last - 0 + 1 = 100 /\ Goals = 0 .. last
    BY DEF Goals
  <2> HIDE DEF last
  <2>2. IsFiniteSet(0 .. last) /\ Cardinality(0 .. last) = last - 0 + 1
    BY <2>1, FS_Interval
  <2> QED
    BY <2>1, <2>2
<1>2. Cardinality(lines) = 100 * 100
  BY ScorelinesAssumption DEF Goals
<1>3. <<h, a>> \in Pairs /\ <<i, j>> \in Pairs
  OBVIOUS
<1>4. IsFiniteSet(Pairs) /\ Cardinality(Pairs) = 100 * 100
  BY <1>1, FS_Product
<1>5. line \in Surjection(Pairs, lines)
  <2>1. line \in [Pairs -> lines]
    OBVIOUS
  <2>2. \A l \in lines : \E p \in Pairs : line[p] = l
    <3> SUFFICES ASSUME NEW x \in Goals, NEW y \in Goals
                 PROVE  \E p \in Pairs : line[p] = Scoreline(x, y)
      OBVIOUS
    <3>1. <<x, y>> \in Pairs /\ line[<<x, y>>] = Scoreline(x, y)
      OBVIOUS
    <3> QED
      BY <3>1
  <2> HIDE DEF Pairs, lines, line
  <2> QED
    BY <2>1, <2>2 DEF Surjection
<1>6. line[<<h, a>>] = Scoreline(h, a) /\ line[<<i, j>>] = Scoreline(i, j)
  BY <1>3
<1> HIDE DEF Pairs, lines, line
<1>7. Cardinality(lines) = Cardinality(Pairs)
  BY <1>2, <1>4
<1>8. line \in Injection(Pairs, lines)
  BY <1>4, <1>5, <1>7, FS_Surjection
<1>9. <<h, a>> = <<i, j>>
  BY <1>3, <1>6, <1>8 DEF Injection, IsInjective
<1> QED
  BY <1>9

(* A result an admin may enter.                                            *)
ResultRow ==
  /\ row.table = "result"
  /\ AcceptableResult(row.result) /\ row.result.firstToScore \in {"HOME", "AWAY", "NONE"}

(* Every market is worth points: a pick scores them only if it is right.   *)
LEMMA ScoresIfRight ==
  ASSUME NEW m \in MarketTypes, NEW selection, NEW r
  PROVE  ScorePrediction([marketType |-> m, selection |-> selection], r, DefaultMarketPointsX10)
           = DefaultMarketPointsX10[m]  <=>  selection \in Winners(r)[m]
<1>1. DefaultMarketPointsX10[m] # 0
  BY MarketsTyped DEF DefaultMarketPointsX10, DefaultTierPointsX10, Tiers
<1> QED
  BY <1>1 DEF ScorePrediction

LEMMA OneMargin ==
  ASSUME NEW full \in {"HOME", "AWAY"}, NEW margin \in {1, 2, 3}
  PROVE  \E pick \in DOMAIN MarginOf :
           {p \in DOMAIN MarginOf : MarginOf[p] = <<full, margin>>} = {pick}
<1>1. CASE full = "HOME" /\ margin = 1
  <2>1. {p \in DOMAIN MarginOf : MarginOf[p] = <<full, margin>>} = {"HOME_BY_1"}
    BY <1>1 DEF MarginOf
  <2> QED
    BY <2>1 DEF MarginOf
<1>2. CASE full = "HOME" /\ margin = 2
  <2>1. {p \in DOMAIN MarginOf : MarginOf[p] = <<full, margin>>} = {"HOME_BY_2"}
    BY <1>2 DEF MarginOf
  <2> QED
    BY <2>1 DEF MarginOf
<1>3. CASE full = "HOME" /\ margin = 3
  <2>1. {p \in DOMAIN MarginOf : MarginOf[p] = <<full, margin>>} = {"HOME_BY_3_PLUS"}
    BY <1>3 DEF MarginOf
  <2> QED
    BY <2>1 DEF MarginOf
<1>4. CASE full = "AWAY" /\ margin = 1
  <2>1. {p \in DOMAIN MarginOf : MarginOf[p] = <<full, margin>>} = {"AWAY_BY_1"}
    BY <1>4 DEF MarginOf
  <2> QED
    BY <2>1 DEF MarginOf
<1>5. CASE full = "AWAY" /\ margin = 2
  <2>1. {p \in DOMAIN MarginOf : MarginOf[p] = <<full, margin>>} = {"AWAY_BY_2"}
    BY <1>5 DEF MarginOf
  <2> QED
    BY <2>1 DEF MarginOf
<1>6. CASE full = "AWAY" /\ margin = 3
  <2>1. {p \in DOMAIN MarginOf : MarginOf[p] = <<full, margin>>} = {"AWAY_BY_3_PLUS"}
    BY <1>6 DEF MarginOf
  <2> QED
    BY <2>1 DEF MarginOf
<1> QED
  BY <1>1, <1>2, <1>3, <1>4, <1>5, <1>6

(* Of each market but double chance and correct score one selection wins.  *)
LEMMA OneWinner ==
  ASSUME NEW r, AcceptableResult(r), r.firstToScore \in {"HOME", "AWAY", "NONE"},
         NEW m \in MarketTypes \ {"DOUBLE_CHANCE", "CORRECT_SCORE"}
  PROVE  \E pick \in Selections[m] : Winners(r)[m] = {pick}
<1> DEFINE full == Outcome(r.homeGoals, r.awayGoals)
           half == Outcome(r.htHomeGoals, r.htAwayGoals)
           total == r.homeGoals + r.awayGoals
           diff == r.homeGoals - r.awayGoals
<1>1. r.homeGoals \in Nat /\ r.awayGoals \in Nat
  BY DEF AcceptableResult
<1>2. {full, half} \subseteq {"HOME", "DRAW", "AWAY"}
  BY DEF Outcome
<1>3. CASE m = "MATCH_WINNER"
  <2>1. Winners(r)[m] = {full}
    BY <1>3 DEF Winners
  <2> QED
    BY <1>2, <1>3, <2>1 DEF Selections
<1>4. CASE m = "FIRST_HALF_WINNER"
  <2>1. Winners(r)[m] = {half}
    BY <1>4 DEF Winners
  <2> QED
    BY <1>2, <1>4, <2>1 DEF Selections
<1>5. CASE m \in {"OVER_UNDER_25", "BTTS", "FIRST_TEAM_TO_SCORE", "CLEAN_SHEET"}
  <2>1. CASE m = "OVER_UNDER_25"
    BY <2>1 DEF Winners, Selections
  <2>2. CASE m = "BTTS"
    BY <2>2 DEF Winners, Selections
  <2>3. CASE m = "FIRST_TEAM_TO_SCORE"
    BY <2>3 DEF Winners, Selections
  <2>4. CASE m = "CLEAN_SHEET"
    <3> DEFINE clean == <<r.awayGoals = 0, r.homeGoals = 0>>
               pick == CASE clean = <<TRUE, TRUE>> -> "BOTH"
                         [] clean = <<TRUE, FALSE>> -> "HOME"
                         [] clean = <<FALSE, TRUE>> -> "AWAY"
                         [] OTHER -> "NONE"
    <3>1. Winners(r)[m] = {pick}
      BY <2>4 DEF Winners
    <3>2. pick \in {"HOME", "AWAY", "BOTH", "NONE"}
      OBVIOUS
    <3>3. Selections[m] = {"HOME", "AWAY", "BOTH", "NONE"}
      BY <2>4 DEF Selections
    <3> HIDE DEF pick
    <3> QED
      BY <3>1, <3>2, <3>3
  <2> QED
    BY <1>5, <2>1, <2>2, <2>3, <2>4
<1>6. CASE m = "EXACT_GOALS"
  <2> DEFINE n == 1 + (IF total >= 5 THEN 5 ELSE total)
  <2>1. Winners(r)[m] = {GoalCounts[n]}
    BY <1>6 DEF Winners
  <2>2. n \in 1 .. 6
    BY <1>1
  <2>3. DOMAIN GoalCounts = 1 .. 6
    BY DEF GoalCounts
  <2>4. Selections[m] = Range(GoalCounts)
    BY <1>6 DEF Selections
  <2> HIDE DEF n
  <2> QED
    BY <2>1, <2>2, <2>3, <2>4 DEF Range
<1>7. CASE m = "WINNING_MARGIN"
  <2> DEFINE margin == Margin(IF diff > 0 THEN diff ELSE -diff)
  <2>1. Winners(r)[m] = IF diff = 0 THEN {"DRAW"}
                        ELSE {p \in DOMAIN MarginOf : MarginOf[p] = <<full, margin>>}
    BY <1>7 DEF Winners
  <2>2. Selections[m] = DOMAIN MarginOf \cup {"DRAW"}
    BY <1>7 DEF Selections
  <2>3. CASE diff = 0
    BY <2>1, <2>2, <2>3
  <2>4. CASE diff # 0
    <3>1. full \in {"HOME", "AWAY"} /\ margin \in {1, 2, 3}
      BY <1>1, <2>4 DEF Outcome, Margin
    <3> HIDE DEF full, margin
    <3>2. PICK pick \in DOMAIN MarginOf :
            {p \in DOMAIN MarginOf : MarginOf[p] = <<full, margin>>} = {pick}
      BY <3>1, OneMargin
    <3> QED
      BY <2>1, <2>2, <2>4, <3>2
  <2> QED
    BY <2>3, <2>4
<1> QED
  BY <1>3, <1>4, <1>5, <1>6, <1>7 DEF MarketTypes, MarketTier

LEMMA WinnersCounted ==
  ASSUME NEW r, AcceptableResult(r), r.firstToScore \in {"HOME", "AWAY", "NONE"},
         NEW m \in MarketTypes
  PROVE  Cardinality(Selections[m] \cap Winners(r)[m]) =
           CASE m = "DOUBLE_CHANCE" -> 2
             [] m = "CORRECT_SCORE" /\ (r.homeGoals > 9 \/ r.awayGoals > 9) -> 0
             [] OTHER -> 1
<1>1. CASE m \notin {"DOUBLE_CHANCE", "CORRECT_SCORE"}
  <2>1. PICK pick \in Selections[m] : Winners(r)[m] = {pick}
    BY <1>1, OneWinner
  <2>2. Selections[m] \cap Winners(r)[m] = {pick}
    BY <2>1
  <2> QED
    BY <1>1, <2>2, FS_Singleton
<1>2. CASE m = "DOUBLE_CHANCE"
  <2> DEFINE full == Outcome(r.homeGoals, r.awayGoals)
             won == {pair \in DOMAIN LeftOut : LeftOut[pair] # full}
  <2>1. Selections[m] \cap Winners(r)[m] = won
    BY <1>2 DEF Selections, Winners, LeftOut
  <2>2. ASSUME NEW x, NEW y, x # y PROVE Cardinality({x, y}) = 2
    <3>1. Cardinality({x}) = 1 /\ IsFiniteSet({x}) /\ y \notin {x} /\ {x, y} = {x} \cup {y}
      BY <2>2, FS_Singleton
    <3>2. Cardinality({x} \cup {y}) = Cardinality({x}) + 1
      BY <3>1, FS_AddElement
    <3> QED
      BY <3>1, <3>2
  <2>3. won \in {{"HOME_OR_DRAW", "AWAY_OR_DRAW"}, {"HOME_OR_DRAW", "HOME_OR_AWAY"},
                 {"AWAY_OR_DRAW", "HOME_OR_AWAY"}}
    <3>1. full \in {"HOME", "DRAW", "AWAY"}
      BY DEF Outcome
    <3> HIDE DEF full
    <3>2. full = "HOME" => won = {"HOME_OR_DRAW", "HOME_OR_AWAY"}
      BY DEF LeftOut
    <3>3. full = "AWAY" => won = {"AWAY_OR_DRAW", "HOME_OR_AWAY"}
      BY DEF LeftOut
    <3>4. full = "DRAW" => won = {"HOME_OR_DRAW", "AWAY_OR_DRAW"}
      BY DEF LeftOut
    <3> QED
      BY <3>1, <3>2, <3>3, <3>4
  <2>4. Cardinality(won) = 2
    <3> HIDE DEF won
    <3>1. /\ Cardinality({"HOME_OR_DRAW", "AWAY_OR_DRAW"}) = 2
          /\ Cardinality({"HOME_OR_DRAW", "HOME_OR_AWAY"}) = 2
          /\ Cardinality({"AWAY_OR_DRAW", "HOME_OR_AWAY"}) = 2
      <4>1. "HOME_OR_DRAW" # "AWAY_OR_DRAW" /\ "HOME_OR_DRAW" # "HOME_OR_AWAY"
            /\ "AWAY_OR_DRAW" # "HOME_OR_AWAY"
        OBVIOUS
      <4> QED
        BY <2>2, <4>1, Zenon
    <3> QED
      BY <2>3, <3>1
  <2> QED
    BY <1>2, <2>1, <2>4
<1>3. CASE m = "CORRECT_SCORE"
  <2> DEFINE h == r.homeGoals
             a == r.awayGoals
             score == Scoreline(h, a)
  <2>1. h \in Goals /\ a \in Goals
    BY DEF AcceptableResult, Goals
  <2>2. /\ Selections[m] = {Scoreline(i, j) : i \in 0 .. 9, j \in 0 .. 9}
        /\ Winners(r)[m] = {score}
    BY <1>3 DEF Selections, Winners
  <2>3. CASE h > 9 \/ a > 9
    <3>1. ASSUME NEW i \in 0 .. 9, NEW j \in 0 .. 9, Scoreline(i, j) = score PROVE FALSE
      <4>1. i \in Goals /\ j \in Goals
        BY DEF Goals
      <4> HIDE DEF h, a
      <4>2. i = h /\ j = a
        <5>1. Scoreline(i, j) = Scoreline(h, a)
          BY <3>1
        <5> HIDE DEF score
        <5> QED
          BY <2>1, <4>1, <5>1, ScorelinesDiffer
      <4> QED
        BY <2>3, <4>2
    <3>2. score \notin Selections[m]
      BY <2>2, <3>1
    <3>3. Selections[m] \cap Winners(r)[m] = {}
      BY <2>2, <3>2
    <3> QED
      BY <1>3, <2>3, <3>3, FS_EmptySet
  <2>4. CASE ~(h > 9 \/ a > 9)
    <3>1. h \in 0 .. 9 /\ a \in 0 .. 9
      BY <2>1, <2>4 DEF Goals
    <3>2. score \in Selections[m]
      BY <2>2, <3>1
    <3>3. Selections[m] \cap Winners(r)[m] = {score}
      BY <2>2, <3>2
    <3>4. Cardinality({score}) = 1
      BY FS_Singleton
    <3> QED
      BY <1>3, <2>4, <3>3, <3>4
  <2> QED
    BY <2>3, <2>4
<1> QED
  BY <1>1, <1>2, <1>3

-----------------------------------------------------------------------------

(* Difficulty stars.                                                       *)

LEMMA UnitPositive == Unit \in Nat \ {0}
BY DEF Unit

LEMMA Clamped ==
  ASSUME NEW n \in Int
  PROVE  Clamp01(n) \in Nat
BY UnitPositive DEF Clamp01

LEMMA PartIs ==
  ASSUME NEW n \in Int, NEW d \in Nat \ {0}
  PROVE  Part(n, d) \in Int
<1> DEFINE scaled == Unit * n
<1>1. scaled \in Int
  BY UnitPositive
<1> HIDE DEF scaled
<1>2. scaled \div d \in Int
  BY <1>1
<1> QED
  BY <1>2 DEF Part, scaled

LEMMA EvennessIs ==
  ASSUME NEW a \in Int, NEW b \in Int, NEW d \in Nat \ {0}
  PROVE  Evenness(a, b, d) \in Nat
<1>1. Gap(a, b) \in Int
  BY DEF Gap
<1>2. Unit - Part(Gap(a, b), d) \in Int
  BY <1>1, PartIs, UnitPositive
<1> QED
  BY <1>2, Clamped DEF Evenness

(* Forms, head-to-head and rates are numbers, where they are known.        *)
FormTyped(form) ==
  /\ "last5" \in DOMAIN form => form.last5 \in Seq(STRING)
  /\ \A field \in DOMAIN form \ {"last5"} : form[field] \in Int

InputTyped(input) ==
  /\ FormTyped(input.home) /\ FormTyped(input.away)
  /\ "matches" \in DOMAIN input.headToHead =>
       {input.headToHead.homeWins, input.headToHead.awayWins, input.headToHead.matches}
         \subseteq Int
  /\ "homeWinRate" \in DOMAIN input => input.homeWinRate \in Int
  /\ "tableSize" \in DOMAIN input => input.tableSize \in Int

LEMMA FormPointsAre ==
  ASSUME NEW last5 \in Seq(STRING)
  PROVE  FormPoints(last5) \in Int
<1> DEFINE points == [i \in DOMAIN last5 |->
                        IF last5[i] = "W" THEN 3 ELSE IF last5[i] = "D" THEN 1 ELSE 0]
<1>1. IsFiniteSet(DOMAIN last5)
  <2>1. Len(last5) \in Nat /\ DOMAIN last5 = 1 .. Len(last5)
    BY LenProperties
  <2> QED
    BY <2>1, FS_Interval
<1>2. DOMAIN points = DOMAIN last5 /\ \A i \in DOMAIN last5 : points[i] \in Int
  OBVIOUS
<1>3. FormPoints(last5) = SumFunctionOnSet(points, DOMAIN last5)
  BY <1>2 DEF FormPoints, SumFunction
<1> HIDE DEF points
<1> QED
  BY <1>1, <1>2, <1>3, SumType

LEMMA LargerOfTwo ==
  ASSUME NEW n \in Int
  PROVE  Max({2, n}) \in Nat \ {0}
<1>1. \E x \in {2, n} : \A y \in {2, n} : x >= y
  OBVIOUS
<1>2. Max({2, n}) \in {2, n} /\ \A y \in {2, n} : Max({2, n}) >= y
  BY <1>1 DEF Max
<1> QED
  BY <1>2

LEMMA SignalIs ==
  ASSUME NEW input, InputTyped(input), NEW k \in SignalNames, Present(input, k)
  PROVE  Signal(input, k) \in Nat
<1> DEFINE even(d) == Evenness(input.home[FieldOf[k]], input.away[FieldOf[k]], d)
           missing(d) == Clamp01(Part(input.home[FieldOf[k]] + input.away[FieldOf[k]], d))
           tableSize == IF "tableSize" \in DOMAIN input THEN input.tableSize ELSE 20
<1>1. CASE k = "form"
  <2>1. input.home.last5 \in Seq(STRING) /\ input.away.last5 \in Seq(STRING)
    BY <1>1 DEF Present, InputTyped, FormTyped
  <2>2. Evenness(FormPoints(input.home.last5), FormPoints(input.away.last5), 15) \in Nat
    <3>1. /\ FormPoints(input.home.last5) \in Int /\ FormPoints(input.away.last5) \in Int
          /\ 15 \in Nat \ {0}
      BY <2>1, FormPointsAre
    <3> HIDE DEF even, missing, tableSize
    <3> QED
      BY <3>1, EvennessIs
  <2> QED
    BY <1>1, <2>2 DEF Signal
<1>2. CASE k = "homeAdvantage"
  <2>1. input.homeWinRate \in Int
    BY <1>2 DEF Present, InputTyped
  <2>2. Evenness(input.homeWinRate, 50, 50) \in Nat
    BY <2>1, EvennessIs
  <2> QED
    BY <1>2, <2>2 DEF Signal
<1>3. CASE k = "headToHead"
  <2>1. /\ input.headToHead.homeWins \in Int /\ input.headToHead.awayWins \in Int
        /\ input.headToHead.matches \in Nat \ {0}
    BY <1>3 DEF Present, InputTyped
  <2>2. Evenness(input.headToHead.homeWins, input.headToHead.awayWins, input.headToHead.matches)
          \in Nat
    BY <2>1, EvennessIs
  <2> QED
    BY <1>3, <2>2 DEF Signal
<1>4. CASE k \in {"leaguePosition", "goalDifference", "recentGoals", "defensiveRecord",
                  "injuries", "suspensions"}
  <2>1. FieldOf[k] # "last5" /\ FieldOf[k] \in DOMAIN input.home \cap DOMAIN input.away
    BY <1>4 DEF Present, FieldOf
  <2>2. input.home[FieldOf[k]] \in Int /\ input.away[FieldOf[k]] \in Int
    BY <2>1 DEF InputTyped, FormTyped
  <2>3. ASSUME NEW d \in Nat \ {0} PROVE even(d) \in Nat /\ missing(d) \in Nat
    <3>1. input.home[FieldOf[k]] + input.away[FieldOf[k]] \in Int
      BY <2>2
    <3>2. Part(input.home[FieldOf[k]] + input.away[FieldOf[k]], d) \in Int
      BY <3>1, PartIs
    <3> QED
      BY <2>2, <3>2, EvennessIs, Clamped
  <2>4. Max({2, tableSize - 1}) \in Nat \ {0}
    <3>1. tableSize - 1 \in Int
      BY DEF InputTyped
    <3> QED
      BY <3>1, LargerOfTwo
  <2>5. Signal(input, k) \in
          {even(Max({2, tableSize - 1})), even(30), even(10), missing(10), missing(6)}
    BY <1>4 DEF Signal
  <2>6. \A d \in {Max({2, tableSize - 1}), 30, 10, 6} : d \in Nat \ {0}
    BY <2>4
  <2> HIDE DEF even, missing, tableSize
  <2> QED
    BY <2>3, <2>5, <2>6
<1>5. k # "historical"
  BY DEF Present
<1> QED
  BY <1>1, <1>2, <1>3, <1>4, <1>5 DEF SignalNames

LEMMA SmallerOfTwo ==
  ASSUME NEW n \in Int
  PROVE  Min({5, n}) = IF n < 5 THEN n ELSE 5
<1>1. \E x \in {5, n} : \A y \in {5, n} : x =< y
  OBVIOUS
<1>2. Min({5, n}) \in {5, n} /\ \A y \in {5, n} : Min({5, n}) =< y
  BY <1>1 DEF Min
<1> QED
  BY <1>2

(* A score is worth n stars at least when it reaches n - 1 fifths.         *)
LEMMA StarsReached ==
  ASSUME NEW score \in Nat, NEW by \in Nat \ {0}
  PROVE  /\ ScoreToStars(score, by) \in 1 .. 5
         /\ \A n \in 1 .. 5 : n <= ScoreToStars(score, by) <=> (Unit * by) * (n - 1) <= 5 * score
<1> DEFINE whole == Unit * by
           fifths == (5 * score) \div whole
<1>1. whole \in Nat \ {0} /\ 5 * score \in Nat
  BY UnitPositive
<1> HIDE DEF whole
<1>2. fifths \in Nat /\ whole * fifths <= 5 * score /\ 5 * score < whole * (fifths + 1)
  BY <1>1, Floored
<1>3. ScoreToStars(score, by) = IF fifths + 1 < 5 THEN fifths + 1 ELSE 5
  BY <1>2, SmallerOfTwo DEF ScoreToStars, whole
<1> HIDE DEF fifths
<1>4. ASSUME NEW n \in 1 .. 5 PROVE n - 1 <= fifths <=> whole * (n - 1) <= 5 * score
  <2>1. n - 1 <= fifths => whole * (n - 1) <= whole * fifths
    BY <1>1, <1>2
  <2>2. fifths + 1 <= n - 1 => whole * (fifths + 1) <= whole * (n - 1)
    BY <1>1, <1>2
  <2>3. whole * (n - 1) \in Int /\ whole * fifths \in Int /\ whole * (fifths + 1) \in Int
    BY <1>1, <1>2
  <2> QED
    BY <1>1, <1>2, <2>1, <2>2, <2>3
<1> QED
  BY <1>2, <1>3, <1>4 DEF whole

(* Numbers that are all at least a bound have a weighted average that is,  *)
(* and one below it when they all are.                                     *)
LEMMA AverageBetween ==
  ASSUME NEW S, IsFiniteSet(S), S # {}, NEW s \in [S -> Nat], NEW w \in [S -> Nat \ {0}],
         NEW bound \in Nat
  PROVE  LET weightSum == SumFunctionOnSet(w, S)
             score == SumFunctionOnSet([k \in S |-> s[k] * w[k]], S)
         IN  /\ weightSum \in Nat \ {0} /\ score \in Nat
             /\ (\A k \in S : bound <= 5 * s[k]) => bound * weightSum <= 5 * score
             /\ (\A k \in S : 5 * s[k] < bound) => 5 * score < bound * weightSum
<1> DEFINE product == [k \in S |-> s[k] * w[k]]
           five == [k \in S |-> 5 * product[k]]
           bounds == [k \in S |-> bound * w[k]]
           both == [k \in S |-> five[k] + w[k]]
           weightSum == SumFunctionOnSet(w, S)
           score == SumFunctionOnSet(product, S)
<1>1. /\ w \in [S -> Int] /\ \A k \in S : w[k] \in Nat
      /\ product \in [S -> Int] /\ \A k \in S : product[k] \in Nat
      /\ five \in [S -> Int] /\ \A k \in S : five[k] = 5 * product[k]
      /\ bounds \in [S -> Int] /\ \A k \in S : bounds[k] = bound * w[k]
      /\ both \in [S -> Int]
  <2>1. \A k \in S : s[k] \in Nat /\ w[k] \in Nat
    OBVIOUS
  <2>2. \A a, b \in Nat : a * b \in Nat
    OBVIOUS
  <2>3. \A k \in S : product[k] \in Nat /\ bound * w[k] \in Nat
    BY <2>1, <2>2
  <2> HIDE DEF product
  <2> QED
    BY <2>1, <2>3 DEF product
<1>2. weightSum \in Nat \ {0} /\ score \in Nat
  <2>1. PICK k \in S : TRUE
    OBVIOUS
  <2>2. w[k] \in Nat \ {0}
    OBVIOUS
  <2> HIDE DEF product
  <2>3. weightSum \in Nat /\ weightSum >= w[k] /\ score \in Nat
    BY <1>1, SumCovers
  <2> QED
    BY <2>2, <2>3
<1> HIDE DEF product
<1>3. SumFunctionOnSet(five, S) = 5 * score
  <2> HIDE DEF five
  <2> QED
    BY <1>1, SumScaled
<1>4. SumFunctionOnSet(bounds, S) = bound * weightSum
  <2> HIDE DEF bounds
  <2> QED
    BY <1>1, SumScaled
<1>5. SumFunctionOnSet(both, S) = 5 * score + weightSum
  <2> HIDE DEF five
  <2>1. SumFunctionOnSet(both, S) = SumFunctionOnSet(five, S) + SumFunctionOnSet(w, S)
    BY <1>1, SumOfSums
  <2> QED
    BY <1>3, <2>1
<1>6. \A k \in S : s[k] \in Nat /\ w[k] \in Nat /\ five[k] = (5 * s[k]) * w[k]
                   /\ bounds[k] = bound * w[k] /\ both[k] = (5 * s[k] + 1) * w[k]
  BY DEF product
<1> HIDE DEF five, bounds, both
<1>7. ASSUME \A k \in S : bound <= 5 * s[k] PROVE bound * weightSum <= 5 * score
  <2>1. ASSUME NEW k \in S PROVE bounds[k] <= five[k]
    BY <1>6, <1>7
  <2>2. SumFunctionOnSet(bounds, S) <= SumFunctionOnSet(five, S)
    BY <1>1, <2>1, SumMonotone
  <2> QED
    BY <1>3, <1>4, <2>2
<1>8. ASSUME \A k \in S : 5 * s[k] < bound PROVE 5 * score < bound * weightSum
  <2>1. ASSUME NEW k \in S PROVE both[k] <= bounds[k]
    <3>1. 5 * s[k] + 1 <= bound
      BY <1>6, <1>8
    <3> QED
      BY <1>6, <3>1
  <2>2. SumFunctionOnSet(both, S) <= SumFunctionOnSet(bounds, S)
    BY <1>1, <2>1, SumMonotone
  <2>3. 5 * score + weightSum <= bound * weightSum
    BY <1>4, <1>5, <2>2
  <2>4. bound * weightSum \in Int
    BY <1>2
  <2> HIDE DEF weightSum, score
  <2> QED
    BY <1>2, <2>3, <2>4
<1> QED
  BY <1>2, <1>7, <1>8 DEF product

(* A set of stars has a least and a greatest element.                      *)
LEMMA LeastAndGreatest ==
  ASSUME NEW stars \in SUBSET (1 .. 5), stars # {}
  PROVE  /\ Min(stars) \in stars /\ \A n \in stars : Min(stars) <= n
         /\ Max(stars) \in stars /\ \A n \in stars : n <= Max(stars)
<1>0. \E n \in stars : \A m \in stars : n >= m
  BY HasLargest, 5 \in Nat
<1>1. \E n \in stars : \A m \in stars : n =< m
  <2> DEFINE opposite == {6 - n : n \in stars}
  <2>1. opposite \in SUBSET (1 .. 5) /\ opposite # {}
    <3>1. \A n \in 1 .. 5 : 6 - n \in 1 .. 5
      OBVIOUS
    <3> QED
      BY <3>1
  <2>2. \E i \in opposite : \A j \in opposite : j <= i
    <3> HIDE DEF opposite
    <3> QED
      BY <2>1, HasLargest, 5 \in Nat
  <2>3. PICK n \in stars : \A m \in stars : 6 - m <= 6 - n
    BY <2>2
  <2> QED
    BY <2>3
<1>2. Min(stars) \in stars /\ \A n \in stars : Min(stars) =< n
  BY <1>1 DEF Min
<1>3. Max(stars) \in stars /\ \A n \in stars : Max(stars) >= n
  BY <1>0 DEF Max
<1> QED
  BY <1>2, <1>3

(* What the service can ask of the difficulty engine.                      *)
StarsRow ==
  /\ row.table = "stars"
  /\ InputTyped(row.input) /\ AcceptableWeights(row.weights)

LEMMA StarsBetween == StarsRow => StarsFollowSignals
<1> SUFFICES ASSUME StarsRow PROVE StarsFollowSignals
  OBVIOUS
<1> DEFINE s == ComputeSignals(row.input)
           w == row.weights
           used == Weighing(s, w)
           alone == {ScoreToStars(s[k], 1) : k \in used}
           weightSum == SumFunctionOnSet(w, used)
           product == [k \in used |-> s[k] * w[k]]
           score == SumFunctionOnSet(product, used)
           stars == ComputeStars(row.input, w)
<1>1. IsFiniteSet(used)
  <2>1. used \subseteq SignalNames
    BY DEF Weighing, ComputeSignals
  <2>2. IsFiniteSet(SignalNames)
    <3> DEFINE sides == {"form"} \cup {"homeAdvantage"} \cup {"leaguePosition"}
                       \cup {"goalDifference"} \cup {"headToHead"}
               others == {"recentGoals"} \cup {"defensiveRecord"} \cup {"injuries"}
                         \cup {"suspensions"} \cup {"historical"}
    <3>1. SignalNames = sides \cup others
      BY DEF SignalNames
    <3>2. ASSUME NEW a, NEW b, NEW c, NEW d, NEW e
          PROVE  IsFiniteSet({a} \cup {b} \cup {c} \cup {d} \cup {e})
      <4>1. IsFiniteSet({a} \cup {b})
        BY FS_Singleton, FS_AddElement
      <4>2. IsFiniteSet({a} \cup {b} \cup {c})
        BY <4>1, FS_AddElement
      <4>3. IsFiniteSet({a} \cup {b} \cup {c} \cup {d})
        BY <4>2, FS_AddElement
      <4> QED
        BY <4>3, FS_AddElement
    <3>3. IsFiniteSet(sides)
      BY <3>2
    <3>4. IsFiniteSet(others)
      BY <3>2
    <3> HIDE DEF sides, others
    <3> QED
      BY <3>1, <3>3, <3>4, FS_Union
  <2> QED
    BY <2>1, <2>2, FS_Subset
<1>2. \A k \in used : s[k] \in Nat /\ w[k] \in Nat \ {0}
  <2> TAKE k \in used
  <2>1. k \in SignalNames /\ Present(row.input, k) /\ s[k] = Signal(row.input, k)
    BY DEF Weighing, ComputeSignals
  <2>2. s[k] \in Nat
    BY <2>1, SignalIs DEF StarsRow
  <2>3. k \in DOMAIN w /\ w[k] > 0
    BY DEF Weighing
  <2> QED
    BY <2>2, <2>3 DEF StarsRow, AcceptableWeights
<1>3. stars = IF weightSum = 0 THEN 3 ELSE ScoreToStars(score, weightSum)
  BY DEF ComputeStars, SumFunction
<1>4. StarsFollowSignals <=>
        IF alone = {} THEN stars = 3 ELSE Min(alone) <= stars /\ stars <= Max(alone)
  BY DEF StarsFollowSignals, StarsRow
<1>5. \A k \in used : /\ ScoreToStars(s[k], 1) \in 1 .. 5
                      /\ \A n \in 1 .. 5 : n <= ScoreToStars(s[k], 1)
                                           <=> Unit * (n - 1) <= 5 * s[k]
  <2> TAKE k \in used
  <2>1. s[k] \in Nat /\ Unit * 1 = Unit
    BY <1>2, UnitPositive
  <2> HIDE DEF s
  <2> QED
    BY <2>1, StarsReached
<1> HIDE DEF s, w, used, stars
<1>6. CASE used = {}
  BY <1>3, <1>4, <1>6, SumEmpty
<1>7. CASE used # {}
  <2> DEFINE ws == [k \in used |-> w[k]]
             ss == [k \in used |-> s[k]]
  <2>1. weightSum = SumFunctionOnSet(ws, used) /\ product = [k \in used |-> ss[k] * ws[k]]
    BY <1>1, SumsEqual
  <2>2. ws \in [used -> Nat \ {0}] /\ ss \in [used -> Nat] /\ \A k \in used : ss[k] = s[k]
    BY <1>2
  <2> HIDE DEF ws, ss
  <2>3. \A bound \in Nat :
          /\ weightSum \in Nat \ {0} /\ score \in Nat
          /\ (\A k \in used : bound <= 5 * s[k]) => bound * weightSum <= 5 * score
          /\ (\A k \in used : 5 * s[k] < bound) => 5 * score < bound * weightSum
    <3> TAKE bound \in Nat
    <3> DEFINE weighed == SumFunctionOnSet([k \in used |-> ss[k] * ws[k]], used)
               weighing == SumFunctionOnSet(ws, used)
    <3>1. /\ weighing \in Nat \ {0} /\ weighed \in Nat
          /\ (\A k \in used : bound <= 5 * ss[k]) => bound * weighing <= 5 * weighed
          /\ (\A k \in used : 5 * ss[k] < bound) => 5 * weighed < bound * weighing
      BY <1>1, <1>7, <2>2, AverageBetween
    <3>2. weighing = weightSum /\ weighed = score
      BY <2>1
    <3> HIDE DEF weighed, weighing, weightSum, score
    <3> QED
      BY <2>2, <3>1, <3>2
  <2>4. weightSum \in Nat \ {0} /\ score \in Nat
    BY <2>3, 0 \in Nat
  <2>5. stars = ScoreToStars(score, weightSum)
    BY <1>3, <2>4
  <2>6. alone \in SUBSET (1 .. 5) /\ alone # {}
    BY <1>5, <1>7
  <2> DEFINE least == Min(alone)
             most == Max(alone)
  <2>7. /\ least \in 1 .. 5 /\ \A k \in used : least <= ScoreToStars(s[k], 1)
        /\ most \in 1 .. 5 /\ \A k \in used : ScoreToStars(s[k], 1) <= most
    <3>1. /\ least \in alone /\ \A n \in alone : least <= n
          /\ most \in alone /\ \A n \in alone : n <= most
      <4> HIDE DEF alone
      <4> QED
        BY <2>6, LeastAndGreatest
    <3> HIDE DEF least, most
    <3> QED
      BY <2>6, <3>1
  <2> HIDE DEF weightSum, product, least, most
  <2>8. /\ stars \in 1 .. 5
        /\ \A n \in 1 .. 5 : n <= stars <=> (Unit * weightSum) * (n - 1) <= 5 * score
    BY <2>4, <2>5, StarsReached
  <2>9. \A n \in 1 .. 5 : /\ Unit * (n - 1) \in Nat
                          /\ (Unit * (n - 1)) * weightSum = (Unit * weightSum) * (n - 1)
    BY <2>4, UnitPositive
  <2>10. least <= stars
    <3>1. \A k \in used : Unit * (least - 1) <= 5 * s[k]
      BY <1>5, <2>7
    <3> QED
      BY <2>3, <2>7, <2>8, <2>9, <3>1
  <2>11. stars <= most
    <3>1. CASE most = 5
      BY <2>8, <3>1
    <3>2. CASE most < 5
      <4> DEFINE next == most + 1
      <4>1. next \in 1 .. 5 /\ \A n \in 1 .. 5 : ~(next <= n) <=> n <= most
        BY <2>7, <3>2
      <4> HIDE DEF next
      <4>2. Unit * (next - 1) \in Nat
        BY <2>9, <4>1
      <4>3. \A k \in used : 5 * s[k] < Unit * (next - 1)
        <5> TAKE k \in used
        <5>1. ~(Unit * (next - 1) <= 5 * s[k])
          BY <1>5, <2>7, <4>1
        <5>2. 5 * s[k] \in Nat
          BY <1>2
        <5> QED
          BY <4>2, <5>1, <5>2
      <4>4. 5 * score < (Unit * (next - 1)) * weightSum
        BY <2>3, <4>2, <4>3
      <4>5. ~((Unit * weightSum) * (next - 1) <= 5 * score)
        <5>1. (Unit * (next - 1)) * weightSum \in Nat /\ 5 * score \in Nat
          BY <2>4, <4>2
        <5> QED
          BY <2>9, <4>1, <4>4, <5>1
      <4> QED
        BY <2>8, <4>1, <4>5
    <3> QED
      BY <2>7, <3>1, <3>2
  <2> QED
    BY <1>4, <2>6, <2>10, <2>11 DEF least, most
<1> QED
  BY <1>6, <1>7

-----------------------------------------------------------------------------

(* Rows as the program has them, and as entrants join and slips are built. *)

(* The builder opens with each slot's first market and no pick.            *)
SlipStart ==
  /\ row.table = "slip"
  /\ row = [table |-> "slip", slots |-> row.slots, choices |-> InitialChoices(row.slots)]
  /\ row.slots \in Seq([tier : Tiers]) /\ ~BadSlotConfig(row.slots)

TablesInit == PrizeRow \/ RankRow \/ ResultRow \/ SlipStart \/ SentRow \/ StarsRow

TablesSpec == TablesInit /\ [][Join \/ Choose]_row

(* Of the rows only slips need more than their type: choices that fit the  *)
(* slots, whatever was changed in what order (ChoicesFit).                 *)
TablesInv == PrizeRow \/ RankRow \/ ResultRow \/ SlipRow \/ SentRow \/ StarsRow

LEMMA JoinKept == TablesInv /\ Join => TablesInv'
<1> SUFFICES ASSUME PrizeRow, Join PROVE PrizeRow'
  BY DEF TablesInv, Join, RankRow, ResultRow, SlipRow, SentRow, StarsRow
<1> DEFINE fee == row.fee
           bps == row.commissionBps
           template == row.template
           entrants == row.entrants
<1>1. row = [table |-> "prizes", fee |-> fee, commissionBps |-> bps, template |-> template,
             entrants |-> entrants]
  BY DEF PrizeRow
<1>2. row' = [row EXCEPT !.entrants = entrants + 1]
  BY DEF Join
<1>3. fee \in Nat \ {0} /\ bps \in Nat /\ bps <= 10000 /\ TemplatePays(template) /\ entrants \in Nat
  BY DEF PrizeRow
<1> HIDE DEF fee, bps, template, entrants
<1>4. row' = [table |-> "prizes", fee |-> fee, commissionBps |-> bps, template |-> template,
              entrants |-> entrants + 1]
  BY <1>1, <1>2
<1> QED
  BY <1>3, <1>4 DEF PrizeRow

LEMMA ChooseKept == TablesInv /\ Choose => TablesInv'
<1> SUFFICES ASSUME SlipRow, Choose PROVE SlipRow'
  BY DEF TablesInv, Choose, PrizeRow, RankRow, ResultRow, SentRow, StarsRow
<1> DEFINE slots == row.slots
           choices == row.choices
<1>1. /\ row = [table |-> "slip", slots |-> slots, choices |-> choices]
      /\ slots \in Seq([tier : Tiers]) /\ ~BadSlotConfig(slots) /\ ChoicesFit(slots, choices)
  BY DEF SlipRow
<1>2. PICK new : row' = [row EXCEPT !.choices = new] /\ ChoicesFit(slots, new)
  <2>1. PICK i \in DOMAIN slots :
          \/ \E market \in MarketsOffered(slots[i]) :
               row' = [row EXCEPT !.choices = SetMarket(choices, i, market)]
          \/ \E typed \in Typed : \E selection \in SelectionsOffered(choices[i].marketType, typed) :
               row' = [row EXCEPT !.choices = SetSelection(choices, i, selection)]
    BY DEF Choose
  <2> HIDE DEF slots, choices
  <2>2. CASE \E market \in MarketsOffered(slots[i]) :
               row' = [row EXCEPT !.choices = SetMarket(choices, i, market)]
    <3>1. PICK market \in MarketsOffered(slots[i]) :
            row' = [row EXCEPT !.choices = SetMarket(choices, i, market)]
      BY <2>2
    <3>2. ChoicesFit(slots, SetMarket(choices, i, market))
      BY <1>1, ChangesFit
    <3> QED
      BY <3>1, <3>2
  <2>3. CASE \E typed \in Typed : \E selection \in SelectionsOffered(choices[i].marketType, typed) :
               row' = [row EXCEPT !.choices = SetSelection(choices, i, selection)]
    <3>1. PICK typed \in Typed : \E selection \in SelectionsOffered(choices[i].marketType, typed) :
            row' = [row EXCEPT !.choices = SetSelection(choices, i, selection)]
      BY <2>3
    <3>2. PICK selection \in SelectionsOffered(choices[i].marketType, typed) :
            row' = [row EXCEPT !.choices = SetSelection(choices, i, selection)]
      BY <3>1
    <3>3. ChoicesFit(slots, SetSelection(choices, i, selection))
      BY <1>1, ChangesFit
    <3> QED
      BY <3>2, <3>3
  <2> QED
    BY <2>1, <2>2, <2>3
<1> HIDE DEF slots, choices
<1>3. row' = [table |-> "slip", slots |-> slots, choices |-> new]
  BY <1>1, <1>2
<1> QED
  BY <1>1, <1>2, <1>3 DEF SlipRow

LEMMA TablesTyped == TablesSpec => []TablesInv
<1>1. TablesInit => TablesInv
  <2>1. SlipStart => SlipRow
    <3> SUFFICES ASSUME SlipStart PROVE SlipRow
      OBVIOUS
    <3> DEFINE slots == row.slots
    <3>1. /\ row = [table |-> "slip", slots |-> slots, choices |-> InitialChoices(slots)]
          /\ slots \in Seq([tier : Tiers]) /\ ~BadSlotConfig(slots)
      BY DEF SlipStart
    <3> HIDE DEF slots
    <3>2. ChoicesFit(slots, InitialChoices(slots))
      BY <3>1, FirstChoicesFit
    <3>3. row.slots = slots /\ row.choices = InitialChoices(slots)
      BY <3>1
    <3> QED
      BY <3>1, <3>2, <3>3 DEF SlipRow
  <2> QED
    BY <2>1 DEF TablesInit, TablesInv
<1>2. TablesInv /\ [Join \/ Choose]_row => TablesInv'
  <2>1. TablesInv /\ UNCHANGED row => TablesInv'
    BY DEF TablesInv, PrizeRow, RankRow, ResultRow, SlipRow, SentRow, StarsRow
  <2> QED
    BY <2>1, JoinKept, ChooseKept
<1> QED
  BY <1>1, <1>2, PTL DEF TablesSpec

(* For every result an admin may enter, up to 99 goals a side, each market *)
(* has one selection that scores, double chance has two, and correct score *)
(* none beyond nine goals a side (scoreMarket in market-scorers.ts against *)
(* the selections of markets.ts).                                          *)
THEOREM OneAlwaysWins == TablesSpec => []OneSelectionWins
<1>1. TablesInv => OneSelectionWins
  <2> SUFFICES ASSUME TablesInv, row.table = "result", NEW m \in MarketTypes
               PROVE  Cardinality({selection \in Selections[m] :
                        ScorePrediction([marketType |-> m, selection |-> selection], row.result,
                                        DefaultMarketPointsX10) = DefaultMarketPointsX10[m]}) =
                        CASE m = "DOUBLE_CHANCE" -> 2
                          [] m = "CORRECT_SCORE"
                               /\ (row.result.homeGoals > 9 \/ row.result.awayGoals > 9) -> 0
                          [] OTHER -> 1
    BY DEF OneSelectionWins
  <2>1. ResultRow
    BY DEF TablesInv, PrizeRow, RankRow, SlipRow, SentRow, StarsRow
  <2>2. {selection \in Selections[m] :
           ScorePrediction([marketType |-> m, selection |-> selection], row.result,
                           DefaultMarketPointsX10) = DefaultMarketPointsX10[m]}
          = Selections[m] \cap Winners(row.result)[m]
    BY ScoresIfRight
  <2> DEFINE r == row.result
             won == Cardinality(Selections[m] \cap Winners(r)[m])
  <2>3. AcceptableResult(r) /\ r.firstToScore \in {"HOME", "AWAY", "NONE"}
    BY <2>1 DEF ResultRow
  <2> HIDE DEF r
  <2>4. won = CASE m = "DOUBLE_CHANCE" -> 2
                [] m = "CORRECT_SCORE" /\ (r.homeGoals > 9 \/ r.awayGoals > 9) -> 0
                [] OTHER -> 1
    BY <2>3, WinnersCounted
  <2> QED
    BY <2>2, <2>4 DEF r
<1> QED
  BY <1>1, TablesTyped, PTL

(* Whatever the order in which a player changes markets and picks in the   *)
(* builder (prediction-builder.tsx), a slip it lets through is full, the   *)
(* API accepts it (slip-validator.ts), its stored risk is the one that was *)
(* shown (risk.ts), and under any rules an admin may publish it scores at  *)
(* most the maximum shown for them: for any distribution of slots.         *)
THEOREM SlipsSubmittedAsShown == TablesSpec => []SubmittedAsShown
<1>1. TablesInv => SubmittedAsShown
  <2> SUFFICES ASSUME TablesInv, row.table = "slip", SubmitEnabled(row.choices)
               PROVE  SubmittedAsShown
    BY DEF SubmittedAsShown
  <2>1. SlipRow
    BY DEF TablesInv, PrizeRow, RankRow, ResultRow, SentRow, StarsRow
  <2> DEFINE slots == row.slots
             choices == row.choices
  <2>2. /\ slots \in Seq([tier : Tiers]) /\ ~BadSlotConfig(slots)
        /\ ChoicesFit(slots, choices) /\ SubmitEnabled(choices)
    BY <2>1 DEF SlipRow
  <2> QED
    BY <2>2, SlipShown DEF SubmittedAsShown
<1> QED
  BY <1>1, TablesTyped, PTL

(* validateSlip (slip-validator.ts) accepts full slips and no other, of    *)
(* whatever length and contents, for any distribution of slots.            *)
THEOREM FullSlipsAccepted == TablesSpec => []OnlyFullSlipsAccepted
<1>1. TablesInv => OnlyFullSlipsAccepted
  BY SentChecked DEF TablesInv, PrizeRow, RankRow, ResultRow, SlipRow, StarsRow,
                     OnlyFullSlipsAccepted
<1> QED
  BY <1>1, TablesTyped, PTL

(* computePrizes pays out the pool the list of contests showed to the last *)
(* minor unit, by the template's shares up to rounding, and rankEntries    *)
(* gives every position to one entry (ranking.ts): for any fee, commission *)
(* and template, any number of entrants, and however entries tie.          *)
THEOREM PoolAlwaysDistributed == TablesSpec => []PoolFullyDistributed
<1>1. TablesInv => PoolFullyDistributed
  BY RowDistributed DEF TablesInv, ResultRow, SlipRow, SentRow, StarsRow,
                         PoolFullyDistributed
<1> QED
  BY <1>1, TablesTyped, PTL

(* computeStars (difficulty-engine.ts) averages: a fixture's stars lie     *)
(* between those its extreme weighted signals have alone, for any form and *)
(* head-to-head and any weights an admin may set.                          *)
THEOREM StarsBetweenSignals == TablesSpec => []StarsFollowSignals
<1>1. TablesInv => StarsFollowSignals
  BY StarsBetween DEF TablesInv, PrizeRow, RankRow, ResultRow, SlipRow, SentRow,
                      StarsFollowSignals
<1> QED
  BY <1>1, TablesTyped, PTL
=============================================================================
