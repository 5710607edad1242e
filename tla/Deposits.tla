------------------------------ MODULE Deposits ------------------------------
(***************************************************************************)
(* Wallet deposits of one user: the payment intent, the hosted checkout    *)
(* the customer pays at, and settlement, which the client's callback and   *)
(* the provider's webhook both trigger.  settle reads the intent, asks the *)
(* provider, and writes the intent by id in a later transaction; a webhook *)
(* is recorded before it is processed, and a recorded one is never         *)
(* processed again.                                                        *)
(***************************************************************************)
EXTENDS Integers, FiniteSets, Functions

CONSTANTS
  Intents,    \* payment intents, one per initiate call
  Given,      \* what the provider says was paid for each; when it is not
              \* amountMinor, the code only logs that
  Clients,    \* concurrent callback verifications
  Hooks,      \* concurrent webhook requests
  Faults      \* TRUE: processes stop and provider calls fail

ASSUME DepositsAssumption ==
  /\ Intents # {} /\ IsFiniteSet(Intents)
  /\ Given \in [Intents -> Nat \ {0}]
  /\ Clients \cap Hooks = {}
  /\ Faults \in BOOLEAN

VARIABLES
  balance, journal,   \* the ledger
  intent,             \* PaymentIntent.status, "none" before it is created
  initiate,           \* the initiate call of each intent
  charge,             \* the provider's transaction under the intent's id
  notices,            \* charge.success webhooks the provider (re)sends
  seen,               \* WebhookEvent rows
  call,               \* per caller of settle: the step it is at, the intent
  dropped             \* history: intents whose webhook was not processed to the end

ledgerVars == <<balance, journal>>
vars == <<ledgerVars, intent, initiate, charge, notices, seen, call, dropped>>

Accounts == {"wallet", "clearing"}
Callers == Clients \cup Hooks

DepositKey(i) == <<"deposit", i>>

Books == INSTANCE Ledger WITH
  Guarded <- {"wallet"},
  Opening <- [a \in Accounts |-> 0],
  Keys <- {DepositKey(i) : i \in Intents},
  Movements <- [Accounts -> Int]

Credited(i) == Books!Posted(DepositKey(i))

DepositLines(amount) == [a \in Accounts |-> IF a = "wallet" THEN amount ELSE -amount]

Idle == [at |-> "idle", of |-> CHOOSE i \in Intents : TRUE]

At(c, step) == call[c].at = step
Goes(c, step) == call' = [call EXCEPT ![c].at = step]

(* A webhook request is answered 200 however its processing went, and the  *)
(* provider stops sending.                                                 *)
Ends(c) ==
  /\ call' = [call EXCEPT ![c] = Idle]
  /\ notices' = IF c \in Hooks THEN notices \ {call[c].of} ELSE notices

-----------------------------------------------------------------------------

Init ==
  /\ Books!Init
  /\ intent = [i \in Intents |-> "none"]
  /\ initiate = [i \in Intents |-> "idle"]
  /\ charge = [i \in Intents |-> "unpaid"]
  /\ notices = {} /\ seen = {}
  /\ call = [c \in Callers |-> Idle]
  /\ dropped = {}

(* An INITIATED intent still has the empty providerRef it was created      *)
(* with, and (provider, providerRef) is unique.                            *)
BlankRefTaken == \E j \in Intents : intent[j] = "INITIATED"

InitiateCreate(i) ==
  /\ initiate[i] = "idle"
  /\ IF BlankRefTaken
       THEN initiate' = [initiate EXCEPT ![i] = "refused"] /\ UNCHANGED intent
       ELSE /\ initiate' = [initiate EXCEPT ![i] = "created"]
            /\ intent' = [intent EXCEPT ![i] = "INITIATED"]
  /\ UNCHANGED <<ledgerVars, charge, notices, seen, call, dropped>>

(* The provider has opened the checkout; the intent gets its reference.    *)
InitiateOpen(i) ==
  /\ initiate[i] = "created"
  /\ initiate' = [initiate EXCEPT ![i] = "open"]
  /\ intent' = [intent EXCEPT ![i] = "PENDING"]
  /\ UNCHANGED <<ledgerVars, charge, notices, seen, call, dropped>>

InitiateFails(i) ==
  /\ Faults
  /\ initiate[i] = "created"
  /\ initiate' = [initiate EXCEPT ![i] = "failed"]
  /\ UNCHANGED <<ledgerVars, intent, charge, notices, seen, call, dropped>>

-----------------------------------------------------------------------------
(* External: the customer pays, or is declined and may try again.          *)

Decline(i) ==
  /\ initiate[i] = "open" /\ charge[i] = "unpaid"
  /\ charge' = [charge EXCEPT ![i] = "failed"]
  /\ UNCHANGED <<ledgerVars, intent, initiate, notices, seen, call, dropped>>

Pay(i) ==
  /\ initiate[i] = "open" /\ charge[i] # "paid"
  /\ charge' = [charge EXCEPT ![i] = "paid"]
  /\ notices' = notices \cup {i}
  /\ UNCHANGED <<ledgerVars, intent, initiate, seen, call, dropped>>

-----------------------------------------------------------------------------
(* Settlement.                                                             *)

Verify(c, i) ==
  /\ At(c, "idle") /\ initiate[i] = "open"
  /\ call' = [call EXCEPT ![c] = [at |-> "read", of |-> i]]
  /\ UNCHANGED <<ledgerVars, intent, initiate, charge, notices, seen, dropped>>

(* Mutant: a webhook counts as processed before settlement is attempted.   *)
ReceiveUnprocessed(c, i) ==
  /\ At(c, "idle") /\ i \in notices
  /\ seen' = seen \cup {i}
  /\ notices' = notices \ {i}
  /\ UNCHANGED <<ledgerVars, intent, initiate, charge, call, dropped>>

(* The unique row first: what was recorded before is answered 200 as is.   *)
ReceiveWebhook(c, i) ==
  /\ At(c, "idle") /\ i \in notices
  /\ IF i \in seen
       THEN notices' = notices \ {i} /\ UNCHANGED <<seen, call>>
       ELSE /\ seen' = seen \cup {i}
            /\ call' = [call EXCEPT ![c] = [at |-> "read", of |-> i]]
            /\ UNCHANGED notices
  /\ UNCHANGED <<ledgerVars, intent, initiate, charge, dropped>>

SettleRead(c) ==
  /\ At(c, "read")
  /\ IF intent[call[c].of] = "SUCCEEDED"
       THEN Ends(c)
       ELSE Goes(c, "asking") /\ UNCHANGED notices
  /\ UNCHANGED <<ledgerVars, intent, initiate, charge, seen, dropped>>

AskProvider(c) ==
  LET verdict == charge[call[c].of] IN
  /\ At(c, "asking")
  /\ IF verdict = "unpaid"
       THEN Ends(c)
       ELSE /\ Goes(c, IF verdict = "failed" THEN "failing" ELSE "crediting")
            /\ UNCHANGED notices
  /\ UNCHANGED <<ledgerVars, intent, initiate, charge, seen, dropped>>

RecordFailure(c) ==
  /\ At(c, "failing")
  /\ intent' = [intent EXCEPT ![call[c].of] = "FAILED"]
  /\ Ends(c)
  /\ UNCHANGED <<ledgerVars, initiate, charge, seen, dropped>>

(* Mutant: the second of two settlements is not recognised.                *)
CreditTwice(c) ==
  LET i == call[c].of IN
  /\ At(c, "crediting")
  /\ balance' = Books!Apply(balance, DepositLines(Given[i]))
  /\ journal' = Books!Record(journal, DepositKey(i), DepositLines(Given[i]))
  /\ intent' = [intent EXCEPT ![i] = "SUCCEEDED"]
  /\ Ends(c)
  /\ UNCHANGED <<initiate, charge, seen, dropped>>

(* Mutant: the intent is not marked.                                       *)
CreditUnmarked(c) ==
  LET i == call[c].of IN
  /\ At(c, "crediting")
  /\ IF Credited(i) THEN UNCHANGED ledgerVars
                    ELSE Books!Post(DepositKey(i), DepositLines(Given[i]))
  /\ Ends(c)
  /\ UNCHANGED <<intent, initiate, charge, seen, dropped>>

(* One transaction: the provider's amount, once per intent.                *)
Credit(c) ==
  LET i == call[c].of IN
  /\ At(c, "crediting")
  /\ IF Credited(i) THEN UNCHANGED ledgerVars
                    ELSE Books!Post(DepositKey(i), DepositLines(Given[i]))
  /\ intent' = [intent EXCEPT ![i] = "SUCCEEDED"]
  /\ Ends(c)
  /\ UNCHANGED <<initiate, charge, seen, dropped>>

(* The provider cannot be asked or the write fails, which a webhook        *)
(* request answers 200 all the same; or the process stops.                 *)
CallFails(c) ==
  /\ Faults
  /\ ~At(c, "idle")
  /\ dropped' = IF c \in Hooks THEN dropped \cup {call[c].of} ELSE dropped
  /\ Ends(c) \/ (call' = [call EXCEPT ![c] = Idle] /\ UNCHANGED notices)
  /\ UNCHANGED <<ledgerVars, intent, initiate, charge, seen>>

-----------------------------------------------------------------------------

Proceed(c) == SettleRead(c) \/ AskProvider(c) \/ RecordFailure(c) \/ Credit(c)

Next ==
  \/ \E i \in Intents :
       InitiateCreate(i) \/ InitiateOpen(i) \/ InitiateFails(i) \/ Decline(i) \/ Pay(i)
  \/ \E c \in Clients, i \in Intents : Verify(c, i)
  \/ \E c \in Hooks, i \in Intents : ReceiveWebhook(c, i)
  \/ \E c \in Callers : Proceed(c) \/ CallFails(c)

Spec == Init /\ [][Next]_vars

(* Requests in progress go on, and the provider gets its webhooks through; *)
(* no client need ever come back to verify.                                *)
Fairness ==
  /\ \A c \in Callers : WF_vars(Proceed(c))
  /\ \A i \in Intents : SF_vars(\E c \in Hooks : ReceiveWebhook(c, i))

FairSpec == Spec /\ Fairness

-----------------------------------------------------------------------------

(* The wallet holds exactly what the provider was paid for the intents     *)
(* credited, each once, webhook and callback racing or not, and no intent  *)
(* is credited unpaid.                                                     *)
WalletHoldsPayments ==
  /\ balance["wallet"] = SumFunctionOnSet(Given, {i \in Intents : Credited(i)})
  /\ \A i \in Intents : Credited(i) => charge[i] = "paid"

(* An intent says SUCCEEDED only of a credited deposit, and says it of     *)
(* every credited one unless a verdict older than the credit, FAILED, was  *)
(* written over it.                                                        *)
SucceededIsCredited ==
  \A i \in Intents : /\ intent[i] = "SUCCEEDED" => Credited(i)
                     /\ Credited(i) => intent[i] \in {"SUCCEEDED", "FAILED"}

(* Who has paid is credited, with nobody coming back to the site, unless   *)
(* the processing of the webhook fails at its one attempt.                 *)
PaidIsCredited ==
  \A i \in Intents : charge[i] = "paid" ~> Credited(i) \/ i \in dropped
=============================================================================
