---------------------------- MODULE Withdrawals ----------------------------
(***************************************************************************)
(* The withdrawals of one user: a hold on request, an admin's decision, a  *)
(* bank transfer, and its confirmation by the gateway's synchronous answer *)
(* or by a webhook routed through the outbox.  Every operation reads the   *)
(* status first and writes it in a later transaction, by id, whatever it   *)
(* has become; only the ledger's idempotency keys and the balance of the   *)
(* pending account stand between two operations on one withdrawal.         *)
(* REQUESTED stands for UNDER_REVIEW too: every operation treats them      *)
(* alike.  Nothing keeps two admins from deciding one withdrawal at once,  *)
(* nor the bank from taking a payment back after it reported a success.    *)
(***************************************************************************)
EXTENDS Integers, FiniteSets, Functions

CONSTANTS
  Ids,        \* withdrawals
  Amount,     \* amountMinor of each
  Funds,      \* the user's available balance at first
  Admins,     \* concurrent admin requests
  Workers,    \* concurrent deliveries of PaymentWebhookReceived
  MaxInterrupted  \* bound: after so many withdrawals were interrupted, no
                  \* process stops, no gateway errs and no webhook gets lost

ASSUME WithdrawalsAssumption ==
  /\ Ids # {} /\ IsFiniteSet(Ids)
  /\ Amount \in [Ids -> Nat \ {0}]
  /\ Funds \in Nat
  /\ Admins \cap Workers = {}
  /\ MaxInterrupted \in Nat

VARIABLES
  balance, journal,   \* the ledger
  status,             \* Withdrawal.status, "none" before the request
  transfer,           \* the bank transfer under the withdrawal's reference
  events,             \* transfer.<kind> events still to be (re)delivered
  call,               \* per caller: the step it is at, and the withdrawal
  interrupted,        \* history: withdrawals a call or an event of which failed
  contested           \* history: withdrawals two admins were deciding at once

ledgerVars == <<balance, journal>>
vars == <<ledgerVars, status, transfer, events, call, interrupted, contested>>

Accounts == {"available", "pending", "external"}
Callers == Admins \cup Workers

HoldKey(w) == <<"withdrawal-hold", w>>
SettleKey(w) == <<"withdrawal-settle", w>>
ReverseKey(w) == <<"withdrawal-reverse", w>>

Books == INSTANCE Ledger WITH
  Guarded <- {"available", "pending"},
  Opening <- [a \in Accounts |-> IF a = "available" THEN Funds ELSE 0],
  Keys <- UNION {{HoldKey(w), SettleKey(w), ReverseKey(w)} : w \in Ids},
  Movements <- [Accounts -> Int]

Posted(key) == Books!Posted(key)

Transfer(from, to, amount) ==
  [a \in Accounts |-> CASE a = from -> -amount [] a = to -> amount [] OTHER -> 0]

(* LedgerService.post inside a caller's transaction: a used key posts      *)
(* nothing, an overdraft fails the transaction.                            *)
PostOnce(key, lines) ==
  IF Posted(key) THEN UNCHANGED ledgerVars ELSE Books!Post(key, lines)

Steps == {"idle", "approving", "approved", "refused", "accepted", "paid",
          "rejecting", "confirm", "deny", "capturing", "failing"}

Idle == [at |-> "idle", w |-> CHOOSE w \in Ids : TRUE]

MayFail == Cardinality(interrupted) < MaxInterrupted

At(c, step) == call[c].at = step
Ends(c) == call' = [call EXCEPT ![c] = Idle]
Goes(c, step) == call' = [call EXCEPT ![c].at = step]
SetStatus(w, s) == status' = [status EXCEPT ![w] = s]

-----------------------------------------------------------------------------

Init ==
  /\ Books!Init
  /\ status = [w \in Ids |-> "none"]
  /\ transfer = [w \in Ids |-> "none"]
  /\ events = {}
  /\ call = [c \in Callers |-> Idle]
  /\ interrupted = {}
  /\ contested = {}

(* Mutant: the withdrawal is recorded without a hold.                      *)
RequestUnheld(w) ==
  /\ status[w] = "none"
  /\ SetStatus(w, "REQUESTED")
  /\ UNCHANGED <<ledgerVars, transfer, events, call, interrupted, contested>>

(* The row and its hold are one transaction.                               *)
Request(w) ==
  /\ status[w] = "none"
  /\ Books!Post(HoldKey(w), Transfer("available", "pending", Amount[w]))
  /\ SetStatus(w, "REQUESTED")
  /\ UNCHANGED <<transfer, events, call, interrupted, contested>>

-----------------------------------------------------------------------------
(* approve and reject.                                                     *)

Deciding(c) == At(c, "approving") \/ At(c, "rejecting")

(* The status is read, and written by id later: whoever reads it before    *)
(* then decides too.                                                       *)
Decides(c, w, step) ==
  /\ At(c, "idle")
  /\ status[w] = "REQUESTED"
  /\ call' = [call EXCEPT ![c] = [at |-> step, w |-> w]]
  /\ contested' = IF \E d \in Admins : Deciding(d) /\ call[d].w = w
                    THEN contested \cup {w} ELSE contested
  /\ UNCHANGED <<ledgerVars, status, transfer, events, interrupted>>

ApproveRead(c, w) == Decides(c, w, "approving")

RejectRead(c, w) == Decides(c, w, "rejecting")

ApproveCommit(c) ==
  /\ At(c, "approving")
  /\ SetStatus(call[c].w, "APPROVED")
  /\ Goes(c, "approved")
  /\ UNCHANGED <<ledgerVars, transfer, events, interrupted, contested>>

(* The gateway takes a reference once and answers at once or later; a      *)
(* repeated reference is an HTTP error, which ends the call.               *)
InitiatePayout(c) ==
  LET w == call[c].w IN
  /\ At(c, "approved")
  /\ IF transfer[w] # "none"
       THEN Ends(c) /\ UNCHANGED <<transfer, events>>
       ELSE \E answer \in {"refused", "accepted", "paid"} :
              /\ Goes(c, answer)
              /\ transfer' = [transfer EXCEPT ![w] = answer]
              /\ events' = IF answer = "paid" THEN events \cup {<<w, "success">>} ELSE events
  /\ UNCHANGED <<ledgerVars, status, interrupted, contested>>

(* The gateway takes the transfer, but its answer is lost.                 *)
LoseAnswer(c) ==
  LET w == call[c].w IN
  /\ MayFail
  /\ At(c, "approved") /\ transfer[w] = "none"
  /\ transfer' = [transfer EXCEPT ![w] = "accepted"]
  /\ Ends(c)
  /\ interrupted' = interrupted \cup {w}
  /\ UNCHANGED <<ledgerVars, status, events, contested>>

(* Mutant: an immediate payment is recorded as PAID before it is settled.  *)
RecordPayoutPaid(c) ==
  /\ At(c, "accepted") \/ At(c, "paid")
  /\ SetStatus(call[c].w, IF At(c, "paid") THEN "PAID" ELSE "PROCESSING")
  /\ IF At(c, "paid") THEN Goes(c, "confirm") ELSE Ends(c)
  /\ UNCHANGED <<ledgerVars, transfer, events, interrupted, contested>>

(* PROCESSING, whatever a webhook has made of it meanwhile.                *)
RecordPayout(c) ==
  /\ At(c, "accepted") \/ At(c, "paid")
  /\ SetStatus(call[c].w, "PROCESSING")
  /\ IF At(c, "paid") THEN Goes(c, "confirm") ELSE Ends(c)
  /\ UNCHANGED <<ledgerVars, transfer, events, interrupted, contested>>

-----------------------------------------------------------------------------
(* The gateway's confirmation, and settle.                                 *)

(* External: an accepted transfer is paid or fails, and a webhook says so. *)
ResolveTransfer(w) ==
  /\ transfer[w] = "accepted"
  /\ \/ transfer' = [transfer EXCEPT ![w] = "paid"] /\ events' = events \cup {<<w, "success">>}
     \/ transfer' = [transfer EXCEPT ![w] = "failed"] /\ events' = events \cup {<<w, "failed">>}
  /\ UNCHANGED <<ledgerVars, status, call, interrupted, contested>>

(* External: the bank takes back what it paid.  The event has a name, and  *)
(* so a dedupe key, of its own.                                            *)
ReverseTransfer(w) ==
  /\ transfer[w] = "paid"
  /\ transfer' = [transfer EXCEPT ![w] = "reversed"]
  /\ events' = events \cup {<<w, "reversed">>}
  /\ UNCHANGED <<ledgerVars, status, call, interrupted, contested>>

(* A webhook whose processing throws is recorded as seen and never again.  *)
LoseEvent(e) ==
  /\ MayFail
  /\ e \in events
  /\ events' = events \ {e}
  /\ interrupted' = interrupted \cup {e[1]}
  /\ UNCHANGED <<ledgerVars, status, transfer, call, contested>>

(* Mutant: every transfer event is taken for a success.                    *)
TakeAnyAsSuccess(c, e) ==
  /\ At(c, "idle") /\ e \in events
  /\ call' = [call EXCEPT ![c] = [at |-> "confirm", w |-> e[1]]]
  /\ UNCHANGED <<ledgerVars, status, transfer, events, interrupted, contested>>

(* The queue delivers an event at least once, and events in any order.     *)
TakeEvent(c, e) ==
  /\ At(c, "idle") /\ e \in events
  /\ call' = [call EXCEPT ![c] =
                [at |-> IF e[2] = "success" THEN "confirm" ELSE "deny", w |-> e[1]]]
  /\ UNCHANGED <<ledgerVars, status, transfer, events, interrupted, contested>>

(* The job a worker ends need not have been its event's last.  A transfer  *)
(* fails or is reversed, so a denial has one event.                        *)
Acknowledge(c) ==
  LET kinds == IF At(c, "confirm") \/ At(c, "capturing") THEN {"success"}
               ELSE {"failed", "reversed"}
  IN IF c \in Workers THEN events' \in {events, events \ ({call[c].w} \X kinds)}
     ELSE UNCHANGED events

(* Mutant: PROCESSING is taken for a resolution.                           *)
SettleReadEarly(c) ==
  LET w == call[c].w IN
  /\ At(c, "confirm") \/ At(c, "deny")
  /\ IF status[w] \in {"PROCESSING", "PAID", "FAILED"}
       THEN Ends(c) /\ Acknowledge(c)
       ELSE /\ Goes(c, IF At(c, "confirm") THEN "capturing" ELSE "failing")
            /\ UNCHANGED events
  /\ UNCHANGED <<ledgerVars, status, transfer, interrupted, contested>>

SettleRead(c) ==
  LET w == call[c].w IN
  /\ At(c, "confirm") \/ At(c, "deny")
  /\ IF status[w] \in {"PAID", "FAILED"}
       THEN Ends(c) /\ Acknowledge(c)
       ELSE /\ Goes(c, IF At(c, "confirm") THEN "capturing" ELSE "failing")
            /\ UNCHANGED events
  /\ UNCHANGED <<ledgerVars, status, transfer, interrupted, contested>>

Capture(c) ==
  LET w == call[c].w IN
  /\ At(c, "capturing")
  /\ PostOnce(SettleKey(w), Transfer("pending", "external", Amount[w]))
  /\ SetStatus(w, "PAID")
  /\ Ends(c) /\ Acknowledge(c)
  /\ UNCHANGED <<transfer, interrupted, contested>>

(* reverseHold, for a rejection, a refused transfer or a failed one.       *)
ReverseHold(c) ==
  LET w == call[c].w IN
  /\ At(c, "rejecting") \/ At(c, "refused") \/ At(c, "failing")
  /\ PostOnce(ReverseKey(w), Transfer("pending", "available", Amount[w]))
  /\ SetStatus(w, IF At(c, "rejecting") THEN "REJECTED" ELSE "FAILED")
  /\ Ends(c) /\ Acknowledge(c)
  /\ UNCHANGED <<transfer, interrupted, contested>>

(* The pending account is short: the ledger throws, the call ends.         *)
Overdraws(c) ==
  LET w == call[c].w IN
  /\ \/ At(c, "capturing") /\ ~Posted(SettleKey(w))
     \/ (At(c, "rejecting") \/ At(c, "refused") \/ At(c, "failing")) /\ ~Posted(ReverseKey(w))
  /\ balance["pending"] < Amount[w]

Overdraft(c) ==
  /\ Overdraws(c)
  /\ Ends(c)
  /\ interrupted' = interrupted \cup {call[c].w}
  /\ UNCHANGED <<ledgerVars, status, transfer, events, contested>>

(* A bank account removed before the payout, an unreachable gateway, a     *)
(* process that stops.  A job will be redelivered.                         *)
CallFails(c) ==
  /\ MayFail
  /\ ~At(c, "idle")
  /\ Ends(c)
  /\ interrupted' = interrupted \cup {call[c].w}
  /\ UNCHANGED <<ledgerVars, status, transfer, events, contested>>

-----------------------------------------------------------------------------

Kinds == {"success", "failed", "reversed"}

Proceed(c) ==
  \/ ApproveCommit(c) \/ InitiatePayout(c) \/ RecordPayout(c)
  \/ SettleRead(c) \/ Capture(c) \/ ReverseHold(c) \/ Overdraft(c)

TakeEventOf(w) == \E c \in Workers, kind \in Kinds : TakeEvent(c, <<w, kind>>)

Next ==
  \/ \E w \in Ids : Request(w) \/ ResolveTransfer(w) \/ ReverseTransfer(w) \/ TakeEventOf(w)
  \/ \E e \in Ids \X Kinds : LoseEvent(e)
  \/ \E c \in Admins, w \in Ids : ApproveRead(c, w) \/ RejectRead(c, w)
  \/ \E c \in Callers : Proceed(c) \/ LoseAnswer(c) \/ CallFails(c)

Spec == Init /\ [][Next]_vars

-----------------------------------------------------------------------------

Captured(w) == Posted(SettleKey(w))
Reversed(w) == Posted(ReverseKey(w))

Doubled == {w \in Ids : Captured(w) /\ Reversed(w)}
Open == {w \in Ids : status[w] # "none" /\ ~Captured(w) /\ ~Reversed(w)}

(* A hold leaves the pending account the way the bank says: captured only  *)
(* for a transfer it paid, even if it took it back later, and returned     *)
(* only when there was none, it came to nothing or was taken back.  Two    *)
(* admins at once are the exception: approve and reject (:152-188) both    *)
(* read REQUESTED, and one returns what the other pays.                    *)
MoneyFollowsBank ==
  \A w \in Ids :
    /\ Captured(w) => transfer[w] \in {"paid", "reversed"}
    /\ Reversed(w) => transfer[w] \in {"none", "refused", "failed", "reversed"} \/ w \in contested

(* The pending account backs the withdrawals still open, except for what   *)
(* was captured and returned both, which came out of the others' holds.    *)
PendingBacksOpen ==
  balance["pending"] + SumFunctionOnSet(Amount, Doubled) = SumFunctionOnSet(Amount, Open)

(* A final status is backed by its journal, whoever decided, and a         *)
(* journaled outcome shows in the status, with three exceptions: the       *)
(* approving call, slower than the webhook, puts it back to PROCESSING     *)
(* (:222); two admins decided at once (:164); the bank took a payment      *)
(* back, which settle does not record over PAID (:233).                    *)
StatusTellsMoney ==
  \A w \in Ids :
    /\ status[w] = "PAID" => Captured(w)
    /\ status[w] \in {"FAILED", "REJECTED"} => Reversed(w)
    /\ w \notin contested /\ transfer[w] # "reversed" =>
         /\ Captured(w) => status[w] \in {"PAID", "PROCESSING"}
         /\ Reversed(w) => status[w] \in {"FAILED", "REJECTED", "PROCESSING"}

(* An approved withdrawal is never stranded: while its hold is neither     *)
(* captured nor returned, a call, the bank or an event that is not lost    *)
(* yet will still bring that about.  Only after a call or an event of its  *)
(* own failed does nothing pick it up again (approve accepts REQUESTED     *)
(* only, :156); no failure leaves another withdrawal behind.               *)
NoneStranded ==
  \A w \in Ids :
    status[w] \in {"APPROVED", "PROCESSING"} /\ w \in Open /\ w \notin interrupted =>
      \/ transfer[w] = "accepted"
      \/ \E kind \in Kinds : <<w, kind>> \in events
      \/ \E c \in Callers : call[c].w = w /\ (At(c, "approved") \/ At(c, "refused"))

-----------------------------------------------------------------------------
(* The service's header (:32) says the funds are "never double-spendable": *)
(* no withdrawal is both in the user's bank and back in the wallet.  Two   *)
(* admins who approve and reject at once make it so.                       *)
NeverDoubleSpent == \A w \in Ids : ~(transfer[w] = "paid" /\ Reversed(w))
=============================================================================
