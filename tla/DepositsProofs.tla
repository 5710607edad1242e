--------------------------- MODULE DepositsProofs ---------------------------
(***************************************************************************)
(* The wallet holds what the provider was paid, proved for any number of   *)
(* intents, callbacks and webhooks in any interleaving, with failures      *)
(* anywhere.  A settlement acts on a verdict the provider gave earlier;    *)
(* that one is safe because a charge once paid stays paid, and only an     *)
(* opened checkout can be paid at all.                                     *)
(***************************************************************************)
EXTENDS Deposits, DataLemmas

Typed ==
  /\ balance \in [Accounts -> Int]
  /\ intent \in [Intents -> {"none", "INITIATED", "PENDING", "SUCCEEDED", "FAILED"}]
  /\ initiate \in [Intents -> {"idle", "refused", "created", "open", "failed"}]
  /\ charge \in [Intents -> {"unpaid", "failed", "paid"}]
  /\ call \in [Callers -> [at : {"idle", "read", "asking", "failing", "crediting"}, of : Intents]]

(* Only an opened checkout has a charge, so the two writes of initiate can *)
(* not hit the intent of a deposit already settled.                        *)
ChargedOpen == \A i \in Intents : charge[i] # "unpaid" => initiate[i] = "open"

CreditingPaid == \A c \in Callers : At(c, "crediting") => charge[call[c].of] = "paid"

IInv == Typed /\ ChargedOpen /\ CreditingPaid /\ WalletHoldsPayments /\ SucceededIsCredited

-----------------------------------------------------------------------------

LEMMA IdleType == Idle \in [at : {"idle", "read", "asking", "failing", "crediting"}, of : Intents]
BY DepositsAssumption DEF Idle

LEMMA InitIInv == Init => IInv
<1> SUFFICES ASSUME Init PROVE IInv
  OBVIOUS
<1>1. \A i \in Intents : ~Credited(i)
  BY DEF Init, Books!Init, Books!NoJournal, Credited, Books!Posted
<1>2. Typed
  BY IdleType DEF Init, Books!Init, Typed, Accounts
<1>3. ChargedOpen /\ SucceededIsCredited
  BY <1>1 DEF Init, ChargedOpen, SucceededIsCredited
<1>4. CreditingPaid
  BY DEF Init, CreditingPaid, At, Idle
<1>5. WalletHoldsPayments
  <2>1. {i \in Intents : Credited(i)} = {}
    BY <1>1
  <2>2. balance["wallet"] = 0
    BY DEF Init, Books!Init, Accounts
  <2> QED
    BY <1>1, <2>1, <2>2, SumEmpty DEF WalletHoldsPayments
<1> QED
  BY <1>2, <1>3, <1>4, <1>5 DEF IInv

(* A step of Ends or Goes only moves its own call, and never to "crediting". *)
LEMMA EndsEffect ==
  ASSUME NEW c \in Callers, Typed, CreditingPaid, UNCHANGED charge,
         call' = [call EXCEPT ![c] = Idle]
  PROVE  CreditingPaid' /\ call' \in [Callers -> [at : {"idle", "read", "asking", "failing", "crediting"},
                                                  of : Intents]]
<1>1. Idle.at = "idle"
  BY DEF Idle
<1> QED
  BY <1>1, IdleType DEF Typed, CreditingPaid, At

LEMMA NextIInv == IInv /\ [Next]_vars => IInv'
<1> SUFFICES ASSUME IInv, [Next]_vars PROVE IInv'
  OBVIOUS
<1>a. Typed /\ ChargedOpen /\ CreditingPaid /\ WalletHoldsPayments /\ SucceededIsCredited
  BY DEF IInv
<1>b. Clients \subseteq Callers /\ Hooks \subseteq Callers
  BY DEF Callers
<1>1. ASSUME UNCHANGED ledgerVars,
             Typed', ChargedOpen', CreditingPaid',
             \A i \in Intents : charge[i] = "paid" => charge'[i] = "paid",
             \A i \in Intents : \/ intent'[i] = intent[i]
                                \/ intent'[i] # "SUCCEEDED" /\ ~Credited(i)
                                \/ intent'[i] = "FAILED"
      PROVE  IInv'
  <2>1. \A i \in Intents : Credited(i)' <=> Credited(i)
    BY <1>1 DEF ledgerVars, Credited, Books!Posted
  <2>2. {i \in Intents : Credited(i)}' = {i \in Intents : Credited(i)}
    BY <2>1
  <2>3. WalletHoldsPayments'
    BY <1>a, <1>1, <2>1, <2>2 DEF WalletHoldsPayments, ledgerVars
  <2>4. SucceededIsCredited'
    BY <1>a, <1>1, <2>1 DEF SucceededIsCredited
  <2> QED
    BY <1>1, <2>3, <2>4 DEF IInv
<1>2. ASSUME NEW i \in Intents, InitiateCreate(i) \/ InitiateOpen(i) \/ InitiateFails(i)
      PROVE  IInv'
  <2>1. initiate[i] # "open" /\ ~Credited(i)
    BY <1>a, <1>2
    DEF InitiateCreate, InitiateOpen, InitiateFails, ChargedOpen, WalletHoldsPayments, Typed
  <2>2. UNCHANGED <<ledgerVars, charge, call>>
    BY <1>2 DEF InitiateCreate, InitiateOpen, InitiateFails
  <2>3. \E s \in {"INITIATED", "PENDING"}, t \in {"refused", "created", "open", "failed"} :
          /\ intent' \in {intent, [intent EXCEPT ![i] = s]}
          /\ initiate' = [initiate EXCEPT ![i] = t]
    BY <1>2 DEF InitiateCreate, InitiateOpen, InitiateFails
  <2>4. Typed'
    BY <1>a, <2>2, <2>3 DEF Typed, ledgerVars
  <2>5. ChargedOpen' /\ CreditingPaid'
    BY <1>a, <2>1, <2>2, <2>3 DEF ChargedOpen, CreditingPaid, At, Typed
  <2> QED
    BY <1>1, <1>a, <2>1, <2>2, <2>3, <2>4, <2>5 DEF Typed
<1>3. ASSUME NEW i \in Intents, Decline(i) \/ Pay(i) PROVE IInv'
  <2>1. /\ UNCHANGED <<ledgerVars, intent, initiate, call>> /\ initiate[i] = "open"
        /\ \E s \in {"failed", "paid"} : charge' = [charge EXCEPT ![i] = s]
        /\ charge[i] # "paid"
    BY <1>3 DEF Decline, Pay
  <2>2. Typed' /\ ChargedOpen' /\ CreditingPaid'
    BY <1>a, <2>1 DEF Typed, ChargedOpen, CreditingPaid, At, ledgerVars
  <2> QED
    BY <1>1, <1>a, <2>1, <2>2 DEF Typed
<1>4. ASSUME NEW c \in Callers, NEW i \in Intents, Verify(c, i) \/ ReceiveWebhook(c, i)
      PROVE  IInv'
  <2>1. /\ UNCHANGED <<ledgerVars, intent, initiate, charge>>
        /\ call' \in {call, [call EXCEPT ![c] = [at |-> "read", of |-> i]]}
    BY <1>4 DEF Verify, ReceiveWebhook
  <2>2. Typed' /\ ChargedOpen' /\ CreditingPaid'
    BY <1>a, <2>1 DEF Typed, ChargedOpen, CreditingPaid, At, ledgerVars
  <2> QED
    BY <1>1, <2>1, <2>2
<1>5. ASSUME NEW c \in Callers, SettleRead(c) \/ AskProvider(c) PROVE IInv'
  <2>1. /\ UNCHANGED <<ledgerVars, intent, initiate, charge>>
        /\ \/ call' = [call EXCEPT ![c] = Idle]
           \/ \E s \in {"asking", "failing"} : call' = [call EXCEPT ![c].at = s]
           \/ call' = [call EXCEPT ![c].at = "crediting"] /\ charge[call[c].of] \notin {"unpaid", "failed"}
    BY <1>5 DEF SettleRead, AskProvider, Ends, Goes
  <2>2. CreditingPaid' /\ call' \in [Callers -> [at : {"idle", "read", "asking", "failing", "crediting"},
                                                of : Intents]]
    <3>1. CASE call' = [call EXCEPT ![c] = Idle]
      BY <1>a, <2>1, <3>1, EndsEffect
    <3>2. CASE call' # [call EXCEPT ![c] = Idle]
      BY <1>a, <2>1, <3>2 DEF Typed, CreditingPaid, At
    <3> QED
      BY <3>1, <3>2
  <2>3. Typed' /\ ChargedOpen'
    BY <1>a, <2>1, <2>2 DEF Typed, ChargedOpen, ledgerVars
  <2> QED
    BY <1>1, <2>1, <2>2, <2>3
<1>6. ASSUME NEW c \in Callers, RecordFailure(c) \/ CallFails(c) PROVE IInv'
  <2>1. /\ UNCHANGED <<ledgerVars, initiate, charge>>
        /\ call' = [call EXCEPT ![c] = Idle]
        /\ intent' \in {intent, [intent EXCEPT ![call[c].of] = "FAILED"]}
    BY <1>6 DEF RecordFailure, CallFails, Ends
  <2>2. CreditingPaid' /\ call' \in [Callers -> [at : {"idle", "read", "asking", "failing", "crediting"},
                                                of : Intents]]
    BY <1>a, <2>1, EndsEffect
  <2>3. Typed' /\ ChargedOpen'
    BY <1>a, <2>1, <2>2 DEF Typed, ChargedOpen, ledgerVars
  <2> QED
    BY <1>1, <1>a, <2>1, <2>2, <2>3 DEF Typed
<1>7. ASSUME NEW c \in Callers, Credit(c) PROVE IInv'
  <2> DEFINE i == call[c].of
             Paid == {j \in Intents : Credited(j)}
  <2>1. /\ i \in Intents /\ charge[i] = "paid" /\ UNCHANGED <<initiate, charge>>
        /\ call' = [call EXCEPT ![c] = Idle]
        /\ intent' = [intent EXCEPT ![i] = "SUCCEEDED"]
        /\ IF Credited(i) THEN UNCHANGED ledgerVars
                          ELSE Books!Post(DepositKey(i), DepositLines(Given[i]))
    BY <1>a, <1>7 DEF Credit, Ends, CreditingPaid, Typed, At
  <2>2. \A j \in Intents : Credited(j)' <=> Credited(j) \/ j = i
    <3>1. \A j \in Intents : DepositKey(j) = DepositKey(i) <=> j = i
      BY DEF DepositKey
    <3>2. CASE Credited(i)
      BY <2>1, <3>2 DEF ledgerVars, Credited, Books!Posted
    <3>3. CASE ~Credited(i)
      BY <2>1, <3>1, <3>3 DEF Books!Post, Books!Record, Credited, Books!Posted
    <3> QED
      BY <3>2, <3>3
  <2>3. Paid' = Paid \cup {i}
    BY <2>1, <2>2
  <2>4. /\ IsFiniteSet(Paid) /\ Given[i] \in Int /\ (\A j \in Paid \cup {i} : Given[j] \in Int)
        /\ "wallet" \in Accounts
    BY <2>1, DepositsAssumption, FS_Subset DEF Accounts
  <2>5. balance' \in [Accounts -> Int]
        /\ balance'["wallet"] = balance["wallet"] + (IF Credited(i) THEN 0 ELSE Given[i])
    <3>1. CASE Credited(i)
      BY <1>a, <2>1, <2>4, <3>1 DEF ledgerVars, Typed
    <3>2. CASE ~Credited(i)
      <4>1. balance' = [a \in Accounts |-> balance[a] + DepositLines(Given[i])[a]]
        BY <2>1, <3>2 DEF Books!Post, Books!Apply
      <4>2. DepositLines(Given[i])["wallet"] = Given[i]
            /\ \A a \in Accounts : DepositLines(Given[i])[a] \in Int
        BY <2>4 DEF DepositLines
      <4> QED
        BY <1>a, <2>4, <3>2, <4>1, <4>2 DEF Typed
    <3> QED
      BY <3>1, <3>2
  <2>6. WalletHoldsPayments'
    <3>1. balance["wallet"] = SumFunctionOnSet(Given, Paid) /\ balance["wallet"] \in Int
      BY <1>a, <2>4 DEF WalletHoldsPayments, Typed
    <3>2. balance'["wallet"] = SumFunctionOnSet(Given, Paid \cup {i})
      <4>1. CASE Credited(i)
        <5>1. Paid \cup {i} = Paid
          BY <2>1, <4>1
        <5>2. balance'["wallet"] = balance["wallet"]
          BY <2>5, <3>1, <4>1
        <5> QED
          BY <3>1, <5>1, <5>2
      <4>2. CASE ~Credited(i)
        <5>1. i \notin Paid
          BY <4>2
        <5> HIDE DEF Paid, i
        <5>2. SumFunctionOnSet(Given, Paid \cup {i}) = Given[i] + SumFunctionOnSet(Given, Paid)
          BY <2>4, <5>1, SumAdd
        <5> QED
          BY <2>4, <2>5, <3>1, <4>2, <5>2
      <4> QED
        BY <4>1, <4>2
    <3>3. \A j \in Intents : Credited(j)' => charge'[j] = "paid"
      BY <1>a, <2>1, <2>2 DEF WalletHoldsPayments
    <3> QED
      BY <2>3, <3>2, <3>3 DEF WalletHoldsPayments
  <2>7. SucceededIsCredited'
    BY <1>a, <2>1, <2>2 DEF SucceededIsCredited, Typed
  <2>8. CreditingPaid' /\ call' \in [Callers -> [at : {"idle", "read", "asking", "failing", "crediting"},
                                                of : Intents]]
    BY <1>a, <2>1, EndsEffect
  <2>9. Typed' /\ ChargedOpen'
    BY <1>a, <2>1, <2>5, <2>8 DEF Typed, ChargedOpen
  <2> QED
    BY <2>6, <2>7, <2>8, <2>9 DEF IInv
<1>8. CASE UNCHANGED vars
  <2>1. Typed' /\ ChargedOpen' /\ CreditingPaid'
    BY <1>a, <1>8 DEF vars, ledgerVars, Typed, ChargedOpen, CreditingPaid, At
  <2> QED
    BY <1>1, <1>8, <2>1 DEF vars
<1> QED
  BY <1>b, <1>2, <1>3, <1>4, <1>5, <1>6, <1>7, <1>8 DEF Next, Proceed

LEMMA Invariance == Spec => []IInv
  BY InitIInv, NextIInv, PTL DEF Spec

(* What TLC checks on two intents, for all: the wallet holds exactly what  *)
(* the provider was paid for the credited intents, each once, and nothing  *)
(* is credited unpaid (DepositsService.settle, LedgerService.post).        *)
THEOREM WalletIsPaid == Spec => []WalletHoldsPayments
<1>1. IInv => WalletHoldsPayments
  BY DEF IInv
<1> QED
  BY <1>1, Invariance, PTL

(* SUCCEEDED is never said of a deposit the wallet was not credited with,  *)
(* and a credited one can only be mislabelled by a stale FAILED.           *)
THEOREM SucceededBacked == Spec => []SucceededIsCredited
<1>1. IInv => SucceededIsCredited
  BY DEF IInv
<1> QED
  BY <1>1, Invariance, PTL

(* No write ever takes money back out of the wallet or unsays a credit.    *)
CreditsStand ==
  [][ /\ balance'["wallet"] >= balance["wallet"]
      /\ \A i \in Intents : Credited(i) => Credited(i)' ]_vars

THEOREM CreditsAreFinal == Spec => CreditsStand
<1> DEFINE Stands == /\ balance'["wallet"] >= balance["wallet"]
                     /\ \A i \in Intents : Credited(i) => Credited(i)'
<1>1. IInv /\ [Next]_vars => [Stands]_vars
  <2> SUFFICES ASSUME IInv, Next PROVE Stands
    BY DEF vars, ledgerVars, Credited, Books!Posted, IInv, Typed, Accounts
  <2>1. CASE UNCHANGED ledgerVars
    BY <2>1 DEF ledgerVars, Credited, Books!Posted, IInv, Typed, Accounts
  <2>2. ASSUME NEW c \in Callers, Credit(c), ~UNCHANGED ledgerVars PROVE Stands
    <3> DEFINE i == call[c].of
    <3>1. Books!Post(DepositKey(i), DepositLines(Given[i])) /\ i \in Intents
      BY <2>2 DEF Credit, IInv, Typed
    <3>2. "wallet" \in Accounts /\ Given[i] \in Nat
      BY <3>1, DepositsAssumption DEF Accounts
    <3>3. balance'["wallet"] = balance["wallet"] + Given[i]
      BY <3>1, <3>2 DEF Books!Post, Books!Apply, DepositLines
    <3>4. \A j \in Intents : Credited(j) => Credited(j)'
      BY <3>1 DEF Books!Post, Books!Record, Credited, Books!Posted
    <3> QED
      BY <3>2, <3>3, <3>4 DEF IInv, Typed
  <2>3. UNCHANGED ledgerVars \/ \E c \in Callers : Credit(c)
    BY DEF Next, Proceed, InitiateCreate, InitiateOpen, InitiateFails, Decline, Pay, Verify,
       ReceiveWebhook, SettleRead, AskProvider, RecordFailure, CallFails
  <2> QED
    BY <2>1, <2>2, <2>3
<1> QED
  BY <1>1, Invariance, PTL DEF Spec, CreditsStand
=============================================================================
