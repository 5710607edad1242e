------------------------- MODULE WithdrawalsProofs -------------------------
(***************************************************************************)
(* Where a withdrawal's money goes, proved for any number of withdrawals,  *)
(* admins and workers, any amounts, faults anywhere, and admins who decide *)
(* one withdrawal at once.  A call acts on a status it read long ago; what *)
(* makes the properties inductive is what each step of a call still knows  *)
(* of the bank transfer, which only moves on, and that two calls decide    *)
(* one withdrawal only if it is contested.                                 *)
(***************************************************************************)
EXTENDS Withdrawals, DataLemmas

Typed ==
  /\ balance \in [Accounts -> Int]
  /\ status \in [Ids -> {"none", "REQUESTED", "APPROVED", "PROCESSING", "PAID",
                         "FAILED", "REJECTED"}]
  /\ transfer \in [Ids -> {"none", "refused", "accepted", "paid", "failed", "reversed"}]
  /\ events \subseteq Ids \X Kinds
  /\ call \in [Callers -> [at : Steps, w : Ids]]
  /\ interrupted \subseteq Ids /\ contested \subseteq Ids

(* Before the request there is nothing, before a decision only the hold.   *)
Unsent ==
  \A w \in Ids :
    /\ status[w] \in {"none", "REQUESTED"} => transfer[w] = "none" /\ ~Captured(w)
    /\ status[w] = "none" => ~Reversed(w)
    /\ status[w] = "REJECTED" => transfer[w] = "none" \/ w \in contested

Started == \A c \in Callers : At(c, "idle") \/ status[call[c].w] # "none"

EventsTold ==
  \A w \in Ids : /\ <<w, "success">> \in events => transfer[w] \in {"paid", "reversed"}
                 /\ <<w, "failed">> \in events => transfer[w] = "failed"
                 /\ <<w, "reversed">> \in events => transfer[w] = "reversed"

Decided(c) == Deciding(c) \/ At(c, "approved")

AdminsApart ==
  \A c, d \in Callers :
    c # d /\ Decided(c) /\ Decided(d) /\ call[c].w = call[d].w => call[c].w \in contested

(* What each step of a call knows, however old what it read.               *)
Knows(c) ==
  LET w == call[c].w IN
  /\ Deciding(c) => c \in Admins /\ (status[w] = "REQUESTED" \/ w \in contested)
  /\ At(c, "approved") => c \in Admins /\ status[w] # "REQUESTED"
  /\ At(c, "approved") => w \in contested \/ (status[w] = "APPROVED" /\ transfer[w] = "none")
  /\ At(c, "refused") => transfer[w] = "refused"
  /\ At(c, "accepted") => transfer[w] \in {"accepted", "paid", "failed", "reversed"}
  /\ At(c, "paid") \/ At(c, "confirm") \/ At(c, "capturing") => transfer[w] \in {"paid", "reversed"}
  /\ At(c, "deny") \/ At(c, "failing") => transfer[w] \in {"failed", "reversed"}

CallsKnow == \A c \in Callers : Knows(c)

(* A hold returned with nothing sent to the bank is a rejection's.         *)
ReturnedUnsent ==
  \A w \in Ids : Reversed(w) /\ transfer[w] = "none" => status[w] = "REJECTED" \/ w \in contested

(* What will still resolve an open withdrawal, by where its transfer is.   *)
WorkLeft(w) ==
  /\ transfer[w] = "none" /\ status[w] \in {"APPROVED", "PROCESSING"} =>
       \E c \in Callers : call[c].w = w /\ At(c, "approved")
  /\ transfer[w] = "refused" => \E c \in Callers : call[c].w = w /\ At(c, "refused")
  /\ transfer[w] = "paid" => <<w, "success">> \in events
  /\ transfer[w] = "failed" => <<w, "failed">> \in events
  /\ transfer[w] = "reversed" => \E kind \in Kinds : <<w, kind>> \in events

Resolved(w) == Captured(w) \/ Reversed(w) \/ w \in interrupted

WorkIsLeft == \A w \in Ids : Resolved(w) \/ WorkLeft(w)

CallInv ==
  /\ Unsent /\ Started
  /\ EventsTold
  /\ AdminsApart
  /\ CallsKnow
  /\ ReturnedUnsent
  /\ MoneyFollowsBank
  /\ StatusTellsMoney

IInv == Typed /\ CallInv /\ WorkIsLeft /\ PendingBacksOpen

-----------------------------------------------------------------------------

LEMMA KeysDistinct ==
  \A v, w : /\ HoldKey(v) # SettleKey(w) /\ HoldKey(v) # ReverseKey(w)
            /\ SettleKey(v) # ReverseKey(w)
            /\ SettleKey(v) = SettleKey(w) => v = w
            /\ ReverseKey(v) = ReverseKey(w) => v = w
BY DEF HoldKey, SettleKey, ReverseKey

LEMMA IdleType == Idle \in [at : Steps, w : Ids]
BY WithdrawalsAssumption DEF Idle, Steps

(* A posting between two accounts.                                         *)
LEMMA PostEffect ==
  ASSUME Typed, NEW key, NEW from \in Accounts, NEW to \in Accounts, from # to, NEW n \in Int,
         Books!Post(key, Transfer(from, to, n))
  PROVE  /\ balance' \in [Accounts -> Int]
         /\ balance'["pending"] = balance["pending"] + (IF from = "pending" THEN -n
                                                        ELSE IF to = "pending" THEN n ELSE 0)
         /\ \A k : Posted(k)' <=> Posted(k) \/ k = key
<1>1. balance' = [a \in Accounts |-> balance[a] + Transfer(from, to, n)[a]]
  BY DEF Books!Post, Books!Apply
<1>2. \A a \in Accounts : Transfer(from, to, n)[a] \in Int
  BY DEF Transfer
<1>3. "pending" \in Accounts
  BY DEF Accounts
<1>4. Transfer(from, to, n)["pending"] = IF from = "pending" THEN -n
                                         ELSE IF to = "pending" THEN n ELSE 0
  BY <1>3 DEF Transfer
<1>5. \A k : Posted(k)' <=> Posted(k) \/ k = key
  BY DEF Books!Post, Books!Record, Posted, Books!Posted
<1> QED
  BY <1>1, <1>2, <1>3, <1>4, <1>5 DEF Typed

LEMMA PostOnceEffect ==
  ASSUME Typed, NEW key, NEW to \in Accounts, to # "pending", NEW n \in Int,
         PostOnce(key, Transfer("pending", to, n))
  PROVE  /\ balance' \in [Accounts -> Int]
         /\ balance'["pending"] = balance["pending"] - (IF Posted(key) THEN 0 ELSE n)
         /\ \A k : Posted(k)' <=> Posted(k) \/ k = key
<1>1. CASE Posted(key)
  BY <1>1 DEF PostOnce, ledgerVars, Typed, Posted, Books!Posted, Accounts
<1>2. CASE ~Posted(key)
  <2>1. Books!Post(key, Transfer("pending", to, n)) /\ "pending" \in Accounts
    BY <1>2 DEF PostOnce, Accounts
  <2> QED
    BY <1>2, <2>1, PostEffect DEF Typed, Accounts
<1> QED
  BY <1>1, <1>2

-----------------------------------------------------------------------------

LEMMA InitIInv == Init => IInv
<1> SUFFICES ASSUME Init PROVE IInv
  OBVIOUS
<1>1. \A k : ~Posted(k)
  BY DEF Init, Books!Init, Books!NoJournal, Posted, Books!Posted
<1>2. Typed
  BY IdleType, WithdrawalsAssumption DEF Init, Books!Init, Typed, Accounts
<1>3. CallInv
  <2>1. \A c \in Callers : At(c, "idle") /\ call[c].at = "idle"
    BY DEF Init, At, Idle
  <2>2. Started /\ AdminsApart /\ CallsKnow
    BY <2>1 DEF Started, AdminsApart, CallsKnow, Knows, Decided, Deciding, At
  <2>3. Unsent /\ EventsTold /\ ReturnedUnsent /\ MoneyFollowsBank /\ StatusTellsMoney
    BY <1>1 DEF Init, Unsent, EventsTold, ReturnedUnsent, MoneyFollowsBank, StatusTellsMoney,
       Captured, Reversed
  <2> QED
    BY <2>2, <2>3 DEF CallInv
<1>4. PendingBacksOpen
  <2>1. Open = {} /\ Doubled = {}
    BY <1>1 DEF Init, Open, Doubled, Captured
  <2>2. balance["pending"] = 0
    BY DEF Init, Books!Init, Accounts
  <2> QED
    BY <2>1, <2>2, SumEmpty DEF PendingBacksOpen
<1>5. WorkIsLeft
  BY DEF Init, WorkIsLeft, WorkLeft
<1> QED
  BY <1>2, <1>3, <1>4, <1>5 DEF IInv

LEMMA NextTyped == Typed /\ [Next]_vars => Typed'
<1> SUFFICES ASSUME Typed, [Next]_vars PROVE Typed'
  OBVIOUS
<1> USE DEF Typed, ledgerVars, At, Ends, Goes, SetStatus, Steps
<1>1. ASSUME NEW w \in Ids, Request(w) PROVE Typed'
  <2>1. balance' \in [Accounts -> Int]
    <3>1. "available" \in Accounts /\ "pending" \in Accounts /\ Amount[w] \in Int
      BY WithdrawalsAssumption DEF Accounts
    <3>2. Books!Post(HoldKey(w), Transfer("available", "pending", Amount[w]))
      BY <1>1 DEF Request
    <3> HIDE DEF Typed
    <3> QED
      BY <3>1, <3>2, PostEffect
  <2> QED
    BY <1>1, <2>1 DEF Request
<1>2. ASSUME NEW w \in Ids, ResolveTransfer(w) \/ ReverseTransfer(w) PROVE Typed'
  BY <1>2 DEF ResolveTransfer, ReverseTransfer, Kinds
<1>11. ASSUME NEW e \in Ids \X Kinds, LoseEvent(e) PROVE Typed'
  BY <1>11 DEF LoseEvent
<1>3. ASSUME NEW c \in Admins, NEW w \in Ids, ApproveRead(c, w) \/ RejectRead(c, w) PROVE Typed'
  BY <1>3 DEF ApproveRead, RejectRead, Decides, Callers
<1>4. ASSUME NEW w \in Ids, TakeEventOf(w) PROVE Typed'
  BY <1>4 DEF TakeEventOf, TakeEvent, Callers
<1>5. ASSUME NEW c \in Callers PROVE call[c].w \in Ids
  OBVIOUS
<1>6. ASSUME NEW c \in Callers, ApproveCommit(c) \/ RecordPayout(c) PROVE Typed'
  BY <1>5, <1>6, IdleType DEF ApproveCommit, RecordPayout
<1>7. ASSUME NEW c \in Callers, InitiatePayout(c) \/ LoseAnswer(c) PROVE Typed'
  BY <1>5, <1>7, IdleType DEF InitiatePayout, LoseAnswer, Kinds
<1>8. ASSUME NEW c \in Callers, SettleRead(c) \/ CallFails(c) \/ Overdraft(c) PROVE Typed'
  BY <1>5, <1>8, IdleType DEF SettleRead, CallFails, Overdraft, Acknowledge
<1>9. ASSUME NEW c \in Callers, Capture(c) \/ ReverseHold(c) PROVE Typed'
  <2>1. balance' \in [Accounts -> Int]
    <3>1. /\ "available" \in Accounts /\ "external" \in Accounts
          /\ Amount[call[c].w] \in Int
      BY <1>5, WithdrawalsAssumption DEF Accounts
    <3>2. \/ PostOnce(SettleKey(call[c].w), Transfer("pending", "external", Amount[call[c].w]))
          \/ PostOnce(ReverseKey(call[c].w), Transfer("pending", "available", Amount[call[c].w]))
      BY <1>9 DEF Capture, ReverseHold
    <3> HIDE DEF Typed
    <3> QED
      BY <3>1, <3>2, PostOnceEffect
  <2> QED
    BY <1>5, <1>9, <2>1, IdleType DEF Capture, ReverseHold, Acknowledge
<1>10. CASE UNCHANGED vars
  BY <1>10 DEF vars
<1> QED
  BY <1>1, <1>2, <1>3, <1>4, <1>6, <1>7, <1>8, <1>9, <1>10, <1>11 DEF Next, Proceed

-----------------------------------------------------------------------------
(* One step of one call changes only its own withdrawal; what the others   *)
(* know of theirs stands, unless two admins decide the same one.           *)

LEMMA NextCallInv ==
  ASSUME Typed, CallInv, [Next]_vars
  PROVE  CallInv'
<1> USE DEF ledgerVars, At, Ends, Goes, SetStatus, Deciding, Decided
<1>0. \A c \in Callers : call[c].w \in Ids /\ call[c].at \in Steps
  BY DEF Typed
<1>i. Idle.at = "idle" /\ Idle.w \in Ids
  BY IdleType DEF Idle
<1>a. Admins \subseteq Callers /\ Workers \subseteq Callers /\ Admins \cap Workers = {}
  BY WithdrawalsAssumption DEF Callers
<1>k. /\ Unsent /\ Started /\ EventsTold /\ AdminsApart /\ CallsKnow
      /\ ReturnedUnsent /\ MoneyFollowsBank /\ StatusTellsMoney
  BY DEF CallInv
<1>1. ASSUME NEW w \in Ids, Request(w) PROVE CallInv'
  <2>0. \A k : Posted(k)' <=> Posted(k) \/ k = HoldKey(w)
    BY <1>1 DEF Request, Books!Post, Books!Record, Posted, Books!Posted
  <2>1. \A v \in Ids : (Captured(v)' <=> Captured(v)) /\ (Reversed(v)' <=> Reversed(v))
    BY <2>0, KeysDistinct DEF Captured, Reversed
  <2>2. status' = [status EXCEPT ![w] = "REQUESTED"] /\ status[w] = "none"
        /\ UNCHANGED <<transfer, events, call, contested>>
    BY <1>1 DEF Request
  <2>3. Unsent' /\ Started' /\ EventsTold' /\ AdminsApart'
    BY <1>k, <1>0, <2>1, <2>2 DEF Unsent, Started, EventsTold, AdminsApart, Typed
  <2>4. CallsKnow'
    BY <1>k, <1>0, <2>2 DEF CallsKnow, Knows, Started, Typed
  <2>5. ReturnedUnsent' /\ MoneyFollowsBank' /\ StatusTellsMoney'
    BY <1>k, <2>1, <2>2 DEF ReturnedUnsent, MoneyFollowsBank, StatusTellsMoney, Unsent, Typed
  <2> QED
    BY <2>3, <2>4, <2>5 DEF CallInv
<1>2. ASSUME NEW w \in Ids, ResolveTransfer(w) \/ ReverseTransfer(w) PROVE CallInv'
  <2>1. \A v \in Ids : (Captured(v)' <=> Captured(v)) /\ (Reversed(v)' <=> Reversed(v))
    BY <1>2 DEF ResolveTransfer, ReverseTransfer, Captured, Reversed, Posted, Books!Posted
  <2>2. PICK outcome \in {"paid", "failed", "reversed"}, kind \in Kinds :
          /\ transfer' = [transfer EXCEPT ![w] = outcome]
          /\ outcome = "reversed" => transfer[w] = "paid"
          /\ outcome # "reversed" => transfer[w] = "accepted"
          /\ kind = IF outcome = "paid" THEN "success" ELSE outcome
          /\ events' = events \cup {<<w, kind>>}
          /\ UNCHANGED <<status, call, contested>>
    BY <1>2 DEF ResolveTransfer, ReverseTransfer, Kinds
  <2>3. Unsent' /\ Started' /\ AdminsApart'
    BY <1>k, <2>1, <2>2 DEF Unsent, Started, AdminsApart, Typed
  <2>6. EventsTold'
    BY <1>k, <2>2 DEF EventsTold, Typed
  <2>4. CallsKnow'
    BY <1>k, <1>0, <2>2 DEF CallsKnow, Knows, Typed
  <2>5. ReturnedUnsent' /\ MoneyFollowsBank' /\ StatusTellsMoney'
    BY <1>k, <2>1, <2>2 DEF ReturnedUnsent, MoneyFollowsBank, StatusTellsMoney, Typed
  <2> QED
    BY <2>3, <2>4, <2>5, <2>6 DEF CallInv
<1>3. ASSUME UNCHANGED <<ledgerVars, status, transfer>>, contested \subseteq contested',
             Started', EventsTold', AdminsApart', CallsKnow'
      PROVE  CallInv'
  <2>1. \A v \in Ids : (Captured(v)' <=> Captured(v)) /\ (Reversed(v)' <=> Reversed(v))
    BY <1>3 DEF Captured, Reversed, Posted, Books!Posted
  <2>2. Unsent' /\ ReturnedUnsent' /\ MoneyFollowsBank' /\ StatusTellsMoney'
    BY <1>k, <1>3, <2>1 DEF Unsent, ReturnedUnsent, MoneyFollowsBank, StatusTellsMoney
  <2> QED
    BY <1>3, <2>2 DEF CallInv
<1>4. ASSUME NEW e \in Ids \X Kinds, LoseEvent(e) PROVE CallInv'
  <2>1. Started' /\ EventsTold' /\ AdminsApart' /\ CallsKnow'
    BY <1>k, <1>4 DEF LoseEvent, Started, EventsTold, AdminsApart, CallsKnow, Knows
  <2> QED
    BY <1>3, <1>4, <2>1 DEF LoseEvent
<1>5. ASSUME NEW c \in Admins, NEW w \in Ids, ApproveRead(c, w) \/ RejectRead(c, w)
      PROVE  CallInv'
  <2>1. PICK step \in {"approving", "rejecting"} :
          /\ call' = [call EXCEPT ![c] = [at |-> step, w |-> w]]
          /\ call[c].at = "idle" /\ status[w] = "REQUESTED"
          /\ UNCHANGED <<ledgerVars, status, transfer, events>>
    BY <1>5 DEF ApproveRead, RejectRead, Decides
  <2>2. /\ contested \subseteq contested'
        /\ \A d \in Admins : Deciding(d) /\ call[d].w = w => w \in contested'
    BY <1>5 DEF ApproveRead, RejectRead, Decides
  <2>3. \A d \in Callers : Decided(d) /\ call[d].w = w => w \in contested'
    BY <1>k, <2>1, <2>2 DEF CallsKnow, Knows
  <2>4. AdminsApart'
    BY <1>a, <1>k, <2>1, <2>2, <2>3 DEF AdminsApart, Typed
  <2>5. CallsKnow'
    BY <1>a, <1>k, <2>1, <2>2 DEF CallsKnow, Knows, Typed
  <2>6. EventsTold' /\ Started'
    BY <1>a, <1>k, <2>1 DEF EventsTold, Started, Typed
  <2> QED
    BY <1>3, <2>1, <2>2, <2>4, <2>5, <2>6
<1>6. ASSUME NEW w \in Ids, TakeEventOf(w) PROVE CallInv'
  <2>1. PICK c \in Workers, kind \in Kinds :
          /\ call[c].at = "idle" /\ <<w, kind>> \in events
          /\ call' = [call EXCEPT ![c] =
                        [at |-> IF kind = "success" THEN "confirm" ELSE "deny", w |-> w]]
          /\ UNCHANGED <<ledgerVars, status, transfer, events, contested>>
    BY <1>6 DEF TakeEventOf, TakeEvent
  <2>2. IF kind = "success" THEN transfer[w] \in {"paid", "reversed"}
                            ELSE transfer[w] \in {"failed", "reversed"}
    BY <1>k, <2>1 DEF EventsTold, Kinds
  <2>3. AdminsApart' /\ EventsTold'
    BY <1>a, <1>k, <2>1 DEF AdminsApart, EventsTold, Typed
  <2>4. Started'
    BY <1>a, <1>k, <2>1, <2>2 DEF Started, Unsent, Typed
  <2>5. CallsKnow'
    BY <1>a, <1>k, <2>1, <2>2 DEF CallsKnow, Knows, Typed
  <2> QED
    BY <1>3, <2>1, <2>3, <2>4, <2>5
<1>7. ASSUME NEW c \in Callers, SettleRead(c) \/ CallFails(c) \/ Overdraft(c) PROVE CallInv'
  <2>1. /\ UNCHANGED <<ledgerVars, status, transfer, contested>>
        /\ events' \subseteq events
        /\ \/ call' = [call EXCEPT ![c] = Idle]
           \/ At(c, "confirm") /\ call' = [call EXCEPT ![c].at = "capturing"]
           \/ At(c, "deny") /\ call' = [call EXCEPT ![c].at = "failing"]
    BY <1>7 DEF SettleRead, CallFails, Overdraft, Acknowledge
  <2>2. AdminsApart' /\ EventsTold' /\ Started'
    BY <1>a, <1>i, <1>k, <2>1 DEF AdminsApart, EventsTold, Started, Typed
  <2>3. CallsKnow'
    BY <1>i, <1>k, <2>1 DEF CallsKnow, Knows, Typed
  <2> QED
    BY <1>3, <2>1, <2>2, <2>3
<1>8. ASSUME NEW c \in Callers, ApproveCommit(c) \/ RecordPayout(c) PROVE CallInv'
  <2> DEFINE w == call[c].w
  <2>0. w \in Ids
    BY <1>0
  <2>1. \A v \in Ids : (Captured(v)' <=> Captured(v)) /\ (Reversed(v)' <=> Reversed(v))
    BY <1>8 DEF ApproveCommit, RecordPayout, Captured, Reversed, Posted, Books!Posted
  <2>2. /\ UNCHANGED <<transfer, events, contested>>
        /\ \/ /\ call[c].at = "approving" /\ call' = [call EXCEPT ![c].at = "approved"]
              /\ status' = [status EXCEPT ![w] = "APPROVED"]
           \/ /\ call[c].at = "accepted" /\ call' = [call EXCEPT ![c] = Idle]
              /\ status' = [status EXCEPT ![w] = "PROCESSING"]
           \/ /\ call[c].at = "paid" /\ call' = [call EXCEPT ![c].at = "confirm"]
              /\ status' = [status EXCEPT ![w] = "PROCESSING"]
    BY <1>8 DEF ApproveCommit, RecordPayout
  <2>3. Unsent' /\ Started' /\ EventsTold' /\ AdminsApart'
    BY <1>a, <1>i, <1>k, <1>0, <2>0, <2>1, <2>2
    DEF Unsent, Started, EventsTold, AdminsApart, CallsKnow, Knows, Typed
  <2>4. CallsKnow'
    BY <1>a, <1>i, <1>k, <1>0, <2>2 DEF CallsKnow, Knows, Unsent, AdminsApart, Typed
  <2>5. ReturnedUnsent' /\ MoneyFollowsBank' /\ StatusTellsMoney'
    BY <1>k, <2>0, <2>1, <2>2
    DEF ReturnedUnsent, MoneyFollowsBank, StatusTellsMoney, CallsKnow, Knows, Unsent, Typed
  <2> QED
    BY <2>3, <2>4, <2>5 DEF CallInv
<1>9. ASSUME NEW c \in Callers, InitiatePayout(c) \/ LoseAnswer(c) PROVE CallInv'
  <2> DEFINE w == call[c].w
  <2>0. w \in Ids /\ call[c].at = "approved"
    BY <1>0, <1>9 DEF InitiatePayout, LoseAnswer
  <2>1. \A v \in Ids : (Captured(v)' <=> Captured(v)) /\ (Reversed(v)' <=> Reversed(v))
    BY <1>9 DEF InitiatePayout, LoseAnswer, Captured, Reversed, Posted, Books!Posted
  <2>2. CASE transfer[w] # "none"
    <3>1. UNCHANGED <<ledgerVars, status, transfer, events, contested>>
          /\ call' = [call EXCEPT ![c] = Idle]
      BY <1>9, <2>2 DEF InitiatePayout, LoseAnswer
    <3>2. Started' /\ EventsTold' /\ AdminsApart' /\ CallsKnow'
      BY <1>i, <1>k, <3>1 DEF Started, EventsTold, AdminsApart, CallsKnow, Knows, Typed
    <3> QED
      BY <1>3, <3>1, <3>2
  <2>3. CASE transfer[w] = "none"
    <3>1. /\ UNCHANGED <<status, contested>>
          /\ \E answer \in {"refused", "accepted", "paid"} :
               /\ transfer' = [transfer EXCEPT ![w] = answer]
               /\ events' = IF answer = "paid" THEN events \cup {<<w, "success">>} ELSE events
               /\ call' \in {[call EXCEPT ![c].at = answer], [call EXCEPT ![c] = Idle]}
      BY <1>9, <2>3 DEF InitiatePayout, LoseAnswer
    <3>2. \A d \in Callers \ {c} : Decided(d) /\ call[d].w = w => w \in contested
      BY <1>k, <2>0 DEF AdminsApart
    <3>3. status[w] \notin {"none", "REQUESTED"} /\ (w \in contested \/ status[w] = "APPROVED")
      BY <1>k, <2>0 DEF Started, CallsKnow, Knows
    <3>4. Unsent' /\ Started' /\ AdminsApart'
      BY <1>i, <1>k, <2>0, <2>1, <3>1, <3>3 DEF Unsent, Started, AdminsApart, Typed
    <3>5. EventsTold'
      BY <1>k, <2>0, <2>3, <3>1 DEF EventsTold, Typed
    <3>6. CallsKnow'
      BY <1>a, <1>i, <1>k, <1>0, <2>0, <2>3, <3>1, <3>2 DEF CallsKnow, Knows, Typed
    <3>7. ReturnedUnsent' /\ MoneyFollowsBank' /\ StatusTellsMoney'
      BY <1>k, <2>0, <2>1, <2>3, <3>1, <3>3
      DEF ReturnedUnsent, MoneyFollowsBank, StatusTellsMoney, Typed
    <3> QED
      BY <3>4, <3>5, <3>6, <3>7 DEF CallInv
  <2> QED
    BY <2>2, <2>3
<1>10. ASSUME NEW c \in Callers, Capture(c) PROVE CallInv'
  <2> DEFINE w == call[c].w
  <2>0. w \in Ids /\ call[c].at = "capturing" /\ transfer[w] \in {"paid", "reversed"}
    BY <1>0, <1>10, <1>k DEF Capture, CallsKnow, Knows
  <2>1. \A k : Posted(k)' <=> Posted(k) \/ k = SettleKey(w)
    BY <1>10 DEF Capture, PostOnce, Books!Post, Books!Record, Posted, Books!Posted
  <2>2. \A v \in Ids : (Captured(v)' <=> Captured(v) \/ v = w) /\ (Reversed(v)' <=> Reversed(v))
    BY <2>1, KeysDistinct DEF Captured, Reversed
  <2>3. /\ status' = [status EXCEPT ![w] = "PAID"] /\ call' = [call EXCEPT ![c] = Idle]
        /\ events' \subseteq events /\ UNCHANGED <<transfer, contested>>
    BY <1>10 DEF Capture, Acknowledge
  <2>4. Unsent' /\ Started' /\ EventsTold' /\ AdminsApart'
    BY <1>a, <1>i, <1>k, <2>0, <2>2, <2>3 DEF Unsent, Started, EventsTold, AdminsApart, Typed
  <2>5. CallsKnow'
    BY <1>a, <1>i, <1>k, <1>0, <2>0, <2>3 DEF CallsKnow, Knows, Unsent, Typed
  <2>6. ReturnedUnsent' /\ MoneyFollowsBank' /\ StatusTellsMoney'
    BY <1>k, <2>0, <2>2, <2>3 DEF ReturnedUnsent, MoneyFollowsBank, StatusTellsMoney, Typed
  <2> QED
    BY <2>4, <2>5, <2>6 DEF CallInv
<1>11. ASSUME NEW c \in Callers, ReverseHold(c) PROVE CallInv'
  <2> DEFINE w == call[c].w
  <2>0. /\ w \in Ids
        /\ \/ /\ call[c].at = "rejecting" /\ c \in Admins
              /\ w \in contested \/ (status[w] = "REQUESTED" /\ transfer[w] = "none" /\ ~Captured(w))
           \/ call[c].at \in {"refused", "failing"} /\ transfer[w] \in {"refused", "failed", "reversed"}
    BY <1>0, <1>11, <1>k DEF ReverseHold, CallsKnow, Knows, Unsent
  <2>1. \A k : Posted(k)' <=> Posted(k) \/ k = ReverseKey(w)
    BY <1>11 DEF ReverseHold, PostOnce, Books!Post, Books!Record, Posted, Books!Posted
  <2>2. \A v \in Ids : (Captured(v)' <=> Captured(v)) /\ (Reversed(v)' <=> Reversed(v) \/ v = w)
    BY <2>1, KeysDistinct DEF Captured, Reversed
  <2>3. /\ status' = [status EXCEPT ![w] = IF call[c].at = "rejecting" THEN "REJECTED" ELSE "FAILED"]
        /\ call' = [call EXCEPT ![c] = Idle]
        /\ events' \subseteq events /\ UNCHANGED <<transfer, contested>>
    BY <1>11 DEF ReverseHold, Acknowledge
  <2>4. Unsent' /\ Started' /\ EventsTold' /\ AdminsApart'
    BY <1>a, <1>i, <1>k, <2>0, <2>2, <2>3 DEF Unsent, Started, EventsTold, AdminsApart, Typed
  <2>5. CallsKnow'
    BY <1>a, <1>i, <1>k, <1>0, <2>0, <2>3 DEF CallsKnow, Knows, Unsent, AdminsApart, Typed
  <2>6. ReturnedUnsent' /\ MoneyFollowsBank' /\ StatusTellsMoney'
    BY <1>k, <2>0, <2>2, <2>3 DEF ReturnedUnsent, MoneyFollowsBank, StatusTellsMoney, Typed
  <2> QED
    BY <2>4, <2>5, <2>6 DEF CallInv
<1>12. CASE UNCHANGED vars
  <2>1. Started' /\ EventsTold' /\ AdminsApart' /\ CallsKnow'
    BY <1>12, <1>k DEF vars, Started, EventsTold, AdminsApart, CallsKnow, Knows
  <2> QED
    BY <1>3, <1>12, <2>1 DEF vars
<1> QED
  BY <1>1, <1>2, <1>4, <1>5, <1>6, <1>7, <1>8, <1>9, <1>10, <1>11, <1>12 DEF Next, Proceed

-----------------------------------------------------------------------------
(* Whatever is not resolved still has its event, its call or its transfer. *)

LEMMA NextWork ==
  ASSUME Typed, CallInv, WorkIsLeft, [Next]_vars
  PROVE  WorkIsLeft'
<1> USE DEF ledgerVars, At, Ends, Goes, SetStatus
<1>0. \A c \in Callers : call[c].w \in Ids /\ call[c].at \in Steps
  BY DEF Typed
<1>i. Idle.at = "idle" /\ Idle.w \in Ids
  BY IdleType DEF Idle
<1>a. Admins \subseteq Callers /\ Workers \subseteq Callers
  BY DEF Callers
<1>k. Unsent /\ Started /\ CallsKnow /\ StatusTellsMoney
  BY DEF CallInv
<1>w. ASSUME NEW v \in Ids PROVE Resolved(v) \/ WorkLeft(v)
  BY DEF WorkIsLeft
<1>r. ASSUME NEW v \in Ids, Resolved(v) PROVE Resolved(v)'
  <2>1. interrupted \subseteq interrupted'
    BY DEF Next, Proceed, TakeEventOf, Request, ResolveTransfer, ReverseTransfer, TakeEvent,
       LoseEvent, ApproveRead, RejectRead, Decides, ApproveCommit, InitiatePayout, RecordPayout,
       SettleRead, Capture, ReverseHold, Overdraft, LoseAnswer, CallFails, vars
  <2>2. \A k : Posted(k) => Posted(k)'
    <3>1. ledgerVars' = ledgerVars \/ \E key, lines : Books!Post(key, lines)
      BY DEF Next, Proceed, TakeEventOf, Request, ResolveTransfer, ReverseTransfer, TakeEvent,
         LoseEvent, ApproveRead, RejectRead, Decides, ApproveCommit, InitiatePayout, RecordPayout,
         SettleRead, Capture, ReverseHold, Overdraft, LoseAnswer, CallFails, vars, PostOnce
    <3> QED
      BY <3>1 DEF Books!Post, Books!Record, Posted, Books!Posted
  <2> QED
    BY <1>r, <2>1, <2>2 DEF Resolved, Captured, Reversed
<1>o. ASSUME NEW v \in Ids, NEW c \in Callers, WorkLeft(v),
             UNCHANGED transfer[v], status'[v] \in {"APPROVED", "PROCESSING"} => status'[v] = status[v],
             \A kind \in Kinds : <<v, kind>> \in events => <<v, kind>> \in events',
             \A d \in Callers \ {c} : call'[d] = call[d],
             call[c].w # v \/ (call[c].at # "approved" /\ call[c].at # "refused")
      PROVE  WorkLeft(v)'
  <2>1. "success" \in Kinds /\ "failed" \in Kinds
    BY DEF Kinds
  <2> QED
    BY <1>o, <2>1 DEF WorkLeft
<1> SUFFICES ASSUME NEW v \in Ids, ~Resolved(v), WorkLeft(v) PROVE Resolved(v)' \/ WorkLeft(v)'
  BY <1>r, <1>w DEF WorkIsLeft
<1>1. ASSUME NEW w \in Ids, Request(w) PROVE WorkLeft(v)'
  BY <1>1 DEF Request, WorkLeft, Typed
<1>2. ASSUME NEW w \in Ids, ResolveTransfer(w) \/ ReverseTransfer(w) PROVE WorkLeft(v)'
  BY <1>2 DEF ResolveTransfer, ReverseTransfer, WorkLeft, Typed, Kinds
<1>3. ASSUME NEW e \in Ids \X Kinds, LoseEvent(e) PROVE Resolved(v)' \/ WorkLeft(v)'
  <2>1. CASE e[1] = v
    BY <1>3, <2>1 DEF LoseEvent, Resolved
  <2>2. CASE e[1] # v
    BY <1>3, <2>2 DEF LoseEvent, WorkLeft
  <2> QED
    BY <2>1, <2>2
<1>4. ASSUME NEW c \in Callers, NEW w \in Ids, NEW kind \in Kinds,
             ApproveRead(c, w) \/ RejectRead(c, w) \/ TakeEvent(c, <<w, kind>>)
      PROVE  WorkLeft(v)'
  <2>1. /\ call[c].at = "idle" /\ UNCHANGED <<transfer, status, events>>
        /\ \E new : call' = [call EXCEPT ![c] = new]
    BY <1>4 DEF ApproveRead, RejectRead, Decides, TakeEvent
  <2> QED
    BY <1>o, <2>1 DEF Typed
<1>5. ASSUME NEW c \in Callers, LoseAnswer(c) \/ CallFails(c) \/ Overdraft(c) \/ Proceed(c),
             call[c].w # v
      PROVE  WorkLeft(v)'
  <2>1. /\ \E new : call' = [call EXCEPT ![c] = new]
        /\ \A d \in Callers \ {c} : call'[d] = call[d]
    BY <1>5 DEF Proceed, ApproveCommit, InitiatePayout, RecordPayout, SettleRead, Capture,
       ReverseHold, Overdraft, LoseAnswer, CallFails, Typed
  <2>2. UNCHANGED <<transfer[v], status[v]>>
    BY <1>0, <1>5 DEF Proceed, ApproveCommit, InitiatePayout, RecordPayout, SettleRead, Capture,
       ReverseHold, Overdraft, LoseAnswer, CallFails, Typed
  <2>3. \A kind \in Kinds : <<v, kind>> \in events => <<v, kind>> \in events'
    BY <1>5 DEF Proceed, ApproveCommit, InitiatePayout, RecordPayout, SettleRead, Capture,
       ReverseHold, Overdraft, LoseAnswer, CallFails, Acknowledge
  <2> QED
    BY <1>o, <1>5, <2>1, <2>2, <2>3
<1>6. ASSUME NEW c \in Callers, call[c].w = v, ApproveCommit(c) PROVE WorkLeft(v)'
  <2>1. /\ call[c].at = "approving" /\ UNCHANGED <<transfer, events>>
        /\ call' = [call EXCEPT ![c].at = "approved"]
    BY <1>6 DEF ApproveCommit
  <2>2. call'[c].at = "approved" /\ call'[c].w = v /\ \A d \in Callers \ {c} : call'[d] = call[d]
    BY <1>6, <2>1 DEF Typed
  <2> QED
    BY <2>1, <2>2 DEF WorkLeft
<1>7. ASSUME NEW c \in Callers, call[c].w = v, RecordPayout(c) PROVE WorkLeft(v)'
  <2>1. /\ call[c].at \in {"accepted", "paid"} /\ UNCHANGED <<transfer, events>>
        /\ \A d \in Callers \ {c} : call'[d] = call[d]
    BY <1>7 DEF RecordPayout, Typed
  <2>2. transfer[v] # "none"
    BY <1>k, <1>7, <2>1 DEF CallsKnow, Knows
  <2> QED
    BY <2>1, <2>2 DEF WorkLeft
<1>8. ASSUME NEW c \in Callers, call[c].w = v, InitiatePayout(c) PROVE WorkLeft(v)'
  <2>1. call[c].at = "approved" /\ \A d \in Callers \ {c} : call'[d] = call[d]
    BY <1>8 DEF InitiatePayout, Typed
  <2>2. CASE transfer[v] # "none"
    BY <1>8, <2>1, <2>2 DEF InitiatePayout, WorkLeft
  <2>3. CASE transfer[v] = "none"
    <3>1. PICK answer \in {"refused", "accepted", "paid"} :
            /\ call' = [call EXCEPT ![c].at = answer]
            /\ transfer' = [transfer EXCEPT ![v] = answer]
            /\ events' = IF answer = "paid" THEN events \cup {<<v, "success">>} ELSE events
      BY <1>8, <2>3 DEF InitiatePayout
    <3>2. call'[c].at = answer /\ call'[c].w = v /\ transfer'[v] = answer
      BY <1>8, <3>1 DEF Typed
    <3> QED
      BY <3>1, <3>2 DEF WorkLeft
  <2> QED
    BY <2>2, <2>3
<1>9. ASSUME NEW c \in Callers, call[c].w = v, SettleRead(c) PROVE WorkLeft(v)'
  <2>1. status[v] \notin {"PAID", "FAILED"}
    BY <1>k DEF StatusTellsMoney, Resolved
  <2>2. /\ call[c].at \in {"confirm", "deny"} /\ UNCHANGED <<transfer, status, events>>
        /\ \A d \in Callers \ {c} : call'[d] = call[d]
    BY <1>9, <2>1 DEF SettleRead, Typed
  <2> QED
    BY <1>o, <2>2
<1>10. ASSUME NEW c \in Callers, call[c].w = v, Capture(c) \/ ReverseHold(c) PROVE Resolved(v)'
  BY <1>10 DEF Capture, ReverseHold, PostOnce, Books!Post, Books!Record, Posted, Books!Posted,
     Resolved, Captured, Reversed
<1>11. ASSUME NEW c \in Callers, call[c].w = v, LoseAnswer(c) \/ CallFails(c) \/ Overdraft(c)
       PROVE  Resolved(v)'
  BY <1>11 DEF LoseAnswer, CallFails, Overdraft, Resolved
<1>12. CASE UNCHANGED vars
  BY <1>12 DEF vars, WorkLeft
<1>13. ASSUME NEW c \in Callers, Proceed(c) \/ LoseAnswer(c) \/ CallFails(c)
       PROVE  Resolved(v)' \/ WorkLeft(v)'
  BY <1>5, <1>6, <1>7, <1>8, <1>9, <1>10, <1>11, <1>13 DEF Proceed
<1>14. ASSUME NEW c \in Admins, NEW w \in Ids, ApproveRead(c, w) \/ RejectRead(c, w)
       PROVE  WorkLeft(v)'
  <2>1. c \in Callers /\ "success" \in Kinds
    BY <1>a DEF Kinds
  <2> QED
    BY <1>4, <1>14, <2>1
<1>15. ASSUME NEW w \in Ids, TakeEventOf(w) PROVE WorkLeft(v)'
  BY <1>a, <1>4, <1>15 DEF TakeEventOf
<1> QED
  BY <1>1, <1>2, <1>3, <1>12, <1>13, <1>14, <1>15 DEF Next

(* The hold a posting releases is the one the pending account still had,   *)
(* or another's, if the withdrawal's own is gone.                          *)

LEMMA OpenSums ==
  ASSUME NEW S \in SUBSET Ids
  PROVE  /\ SumFunctionOnSet(Amount, S) \in Int
         /\ \A w \in Ids \ S :
              SumFunctionOnSet(Amount, S \cup {w}) = SumFunctionOnSet(Amount, S) + Amount[w]
         /\ \A w \in S :
              SumFunctionOnSet(Amount, S \ {w}) = SumFunctionOnSet(Amount, S) - Amount[w]
<1>1. IsFiniteSet(S) /\ (\A w \in Ids : Amount[w] \in Int)
  BY WithdrawalsAssumption, FS_Subset
<1>2. SumFunctionOnSet(Amount, S) \in Int
  BY <1>1, SumType
<1>3. ASSUME NEW w \in Ids \ S
      PROVE  SumFunctionOnSet(Amount, S \cup {w}) = SumFunctionOnSet(Amount, S) + Amount[w]
  <2>1. w \notin S /\ (\A x \in S \cup {w} : Amount[x] \in Int) /\ Amount[w] \in Int
    BY <1>1
  <2>2. SumFunctionOnSet(Amount, S \cup {w}) = Amount[w] + SumFunctionOnSet(Amount, S)
    BY <1>1, <2>1, SumAdd
  <2> QED
    BY <1>2, <2>1, <2>2
<1>4. ASSUME NEW w \in S
      PROVE  SumFunctionOnSet(Amount, S \ {w}) = SumFunctionOnSet(Amount, S) - Amount[w]
  <2>1. SumFunctionOnSet(Amount, S) = Amount[w] + SumFunctionOnSet(Amount, S \ {w})
    BY <1>1, SumRemove
  <2>2. SumFunctionOnSet(Amount, S \ {w}) \in Int
    <3>1. IsFiniteSet(S \ {w}) /\ \A x \in S \ {w} : Amount[x] \in Int
      BY <1>1, FS_Subset
    <3> QED
      BY <3>1, SumType
  <2> QED
    BY <1>1, <1>2, <2>1, <2>2
<1> QED
  BY <1>2, <1>3, <1>4

LEMMA NextPending ==
  ASSUME Typed, CallInv, PendingBacksOpen, [Next]_vars
  PROVE  PendingBacksOpen'
<1>0. /\ balance["pending"] \in Int
      /\ balance["pending"] + SumFunctionOnSet(Amount, Doubled) = SumFunctionOnSet(Amount, Open)
      /\ Open \in SUBSET Ids /\ Doubled \in SUBSET Ids
  BY DEF Typed, Accounts, PendingBacksOpen, Open, Doubled
<1>1. PendingBacksOpen' <=> balance'["pending"] + SumFunctionOnSet(Amount, Doubled')
                              = SumFunctionOnSet(Amount, Open')
  BY DEF PendingBacksOpen
<1>s. SumFunctionOnSet(Amount, Open) \in Int /\ SumFunctionOnSet(Amount, Doubled) \in Int
  BY <1>0, OpenSums
<1>a. \A w \in Ids : Amount[w] \in Int
  BY WithdrawalsAssumption
<1>b. "available" \in Accounts /\ "pending" \in Accounts /\ "external" \in Accounts
  BY DEF Accounts
<1>2. ASSUME UNCHANGED ledgerVars, \A w \in Ids : (status'[w] = "none" <=> status[w] = "none")
      PROVE  PendingBacksOpen'
  <2>1. Open' = Open /\ Doubled' = Doubled
    BY <1>2 DEF Open, Doubled, ledgerVars, Captured, Reversed, Posted, Books!Posted
  <2> QED
    BY <1>0, <1>1, <1>2, <2>1 DEF ledgerVars
<1>3. ASSUME NEW w \in Ids, Request(w) PROVE PendingBacksOpen'
  <2>1. Books!Post(HoldKey(w), Transfer("available", "pending", Amount[w]))
    BY <1>3 DEF Request
  <2>2. /\ balance'["pending"] = balance["pending"] + Amount[w]
        /\ \A k : Posted(k)' <=> Posted(k) \/ k = HoldKey(w)
    BY <1>a, <1>b, <2>1, PostEffect
  <2>3. \A v \in Ids : (Captured(v)' <=> Captured(v)) /\ (Reversed(v)' <=> Reversed(v))
    BY <2>2, KeysDistinct DEF Captured, Reversed
  <2>4. w \notin Open /\ ~Captured(w) /\ ~Reversed(w)
    BY <1>3 DEF Request, Open, CallInv, Unsent
  <2>5. Open' = Open \cup {w} /\ Doubled' = Doubled
    BY <1>3, <2>3, <2>4 DEF Request, SetStatus, Open, Doubled, Typed
  <2>6. SumFunctionOnSet(Amount, Open \cup {w}) = SumFunctionOnSet(Amount, Open) + Amount[w]
    BY <1>0, <2>4, OpenSums
  <2> QED
    BY <1>0, <1>1, <1>s, <1>a, <2>2, <2>5, <2>6
<1>4. ASSUME NEW c \in Callers, NEW w \in Ids, w = call[c].w,
             \/ /\ Capture(c)
                /\ At(c, "capturing")
                /\ PostOnce(SettleKey(w), Transfer("pending", "external", Amount[w]))
                /\ status' = [status EXCEPT ![w] = "PAID"]
             \/ /\ ReverseHold(c)
                /\ At(c, "rejecting") \/ At(c, "refused") \/ At(c, "failing")
                /\ PostOnce(ReverseKey(w), Transfer("pending", "available", Amount[w]))
                /\ status' = [status EXCEPT ![w] = IF At(c, "rejecting") THEN "REJECTED" ELSE "FAILED"]
      PROVE  PendingBacksOpen'
  <2>1. PICK key \in {SettleKey(w), ReverseKey(w)} :
          /\ key = SettleKey(w) <=> At(c, "capturing")
          /\ balance'["pending"] = balance["pending"] - (IF Posted(key) THEN 0 ELSE Amount[w])
          /\ \A k : Posted(k)' <=> Posted(k) \/ k = key
    <3>1. CASE Capture(c) /\ At(c, "capturing")
      <4>1. PostOnce(SettleKey(w), Transfer("pending", "external", Amount[w]))
        BY <1>4, <3>1 DEF At
      <4> QED
        BY <1>a, <1>b, <3>1, <4>1, PostOnceEffect
    <3>2. CASE ReverseHold(c) /\ ~At(c, "capturing")
      <4>1. PostOnce(ReverseKey(w), Transfer("pending", "available", Amount[w]))
        BY <1>4, <3>2 DEF At
      <4> QED
        BY <1>a, <1>b, <3>2, <4>1, PostOnceEffect, KeysDistinct
    <3> QED
      BY <1>4, <3>1, <3>2 DEF At
  <2>2. \A v \in Ids \ {w} : (Captured(v)' <=> Captured(v)) /\ (Reversed(v)' <=> Reversed(v))
    BY <2>1, KeysDistinct DEF Captured, Reversed
  <2>3. /\ (Captured(w)' \/ Reversed(w)') /\ (Captured(w) => Captured(w)') /\ (Reversed(w) => Reversed(w)')
        /\ Posted(key) => (Captured(w)' <=> Captured(w)) /\ (Reversed(w)' <=> Reversed(w))
        /\ ~Posted(key) => ~(Captured(w) /\ Reversed(w))
        /\ ~Posted(key) /\ (Captured(w) \/ Reversed(w)) => Captured(w)' /\ Reversed(w)'
        /\ ~Captured(w) /\ ~Reversed(w) => ~(Captured(w)' /\ Reversed(w)')
    BY <2>1, KeysDistinct DEF Captured, Reversed
  <2>4. status[w] # "none" /\ \A v \in Ids : (status'[v] = "none" <=> status[v] = "none")
    <3>1. status[w] # "none"
      BY <1>4 DEF CallInv, Started, At
    <3> QED
      BY <1>4, <3>1 DEF Typed
  <2>5. CASE Posted(key)
    <3>1. Open' = Open /\ Doubled' = Doubled
      BY <2>2, <2>3, <2>4, <2>5 DEF Open, Doubled
    <3> QED
      BY <1>0, <1>1, <2>1, <2>5, <3>1
  <2>6. CASE ~Posted(key) /\ w \in Open
    <3>1. Open' = Open \ {w} /\ Doubled' = Doubled
      BY <2>2, <2>3, <2>4, <2>6 DEF Open, Doubled
    <3>2. SumFunctionOnSet(Amount, Open \ {w}) = SumFunctionOnSet(Amount, Open) - Amount[w]
      BY <1>0, <2>6, OpenSums
    <3> QED
      BY <1>0, <1>1, <1>s, <1>a, <2>1, <2>6, <3>1, <3>2
  <2>7. CASE ~Posted(key) /\ w \notin Open
    <3>1. w \notin Doubled /\ Open' = Open /\ Doubled' = Doubled \cup {w}
      BY <2>2, <2>3, <2>4, <2>7 DEF Open, Doubled
    <3>2. SumFunctionOnSet(Amount, Doubled \cup {w}) = SumFunctionOnSet(Amount, Doubled) + Amount[w]
      BY <1>0, <3>1, OpenSums
    <3> QED
      BY <1>0, <1>1, <1>s, <1>a, <2>1, <2>7, <3>1, <3>2
  <2> QED
    BY <2>5, <2>6, <2>7
<1>5. ASSUME NEW c \in Callers, Capture(c) \/ ReverseHold(c) PROVE PendingBacksOpen'
  <2>1. call[c].w \in Ids
    BY DEF Typed
  <2> QED
    BY <1>4, <1>5, <2>1 DEF Capture, ReverseHold, SetStatus
<1>6. ASSUME NEW w \in Ids, ResolveTransfer(w) \/ ReverseTransfer(w) \/ TakeEventOf(w)
      PROVE  PendingBacksOpen'
  BY <1>2, <1>6 DEF ResolveTransfer, ReverseTransfer, TakeEventOf, TakeEvent
<1>7. ASSUME NEW c \in Callers, NEW w \in Ids, ApproveRead(c, w) \/ RejectRead(c, w)
      PROVE  PendingBacksOpen'
  BY <1>2, <1>7 DEF ApproveRead, RejectRead, Decides
<1>8. ASSUME NEW c \in Callers,
             InitiatePayout(c) \/ LoseAnswer(c) \/ SettleRead(c) \/ CallFails(c) \/ Overdraft(c)
      PROVE  PendingBacksOpen'
  BY <1>2, <1>8 DEF InitiatePayout, LoseAnswer, SettleRead, CallFails, Overdraft
<1>9. ASSUME NEW c \in Callers, ApproveCommit(c) \/ RecordPayout(c) PROVE PendingBacksOpen'
  <2>1. status[call[c].w] # "none"
    BY <1>9 DEF ApproveCommit, RecordPayout, CallInv, Started, At
  <2>2. UNCHANGED ledgerVars
    BY <1>9 DEF ApproveCommit, RecordPayout
  <2>3. \E s \in {"APPROVED", "PROCESSING"} : status' = [status EXCEPT ![call[c].w] = s]
    BY <1>9 DEF ApproveCommit, RecordPayout, SetStatus
  <2>4. \A w \in Ids : (status'[w] = "none" <=> status[w] = "none")
    BY <2>1, <2>3 DEF Typed
  <2> QED
    BY <1>2, <2>2, <2>4
<1>10. ASSUME NEW e \in Ids \X Kinds, LoseEvent(e) PROVE PendingBacksOpen'
  BY <1>2, <1>10 DEF LoseEvent
<1>11. CASE UNCHANGED vars
  BY <1>2, <1>11 DEF vars
<1> QED
  BY <1>3, <1>5, <1>6, <1>7, <1>8, <1>9, <1>10, <1>11 DEF Next, Proceed, Callers

LEMMA Invariance == Spec => []IInv
<1>1. IInv /\ [Next]_vars => IInv'
  BY NextTyped, NextCallInv, NextWork, NextPending DEF IInv
<1> QED
  BY <1>1, InitIInv, PTL DEF Spec

(* What TLC checks on two withdrawals, for all: a hold is captured only    *)
(* for a transfer the bank paid (WithdrawalsService.settle) and returned   *)
(* only when the bank took nothing or gave it back (reverseHold), unless   *)
(* two admins decided the withdrawal at once.                              *)
THEOREM HoldsFollowBank == Spec => []MoneyFollowsBank
<1>1. IInv => MoneyFollowsBank
  BY DEF IInv, CallInv
<1> QED
  BY <1>1, Invariance, PTL

(* The pending account holds the sum of the open withdrawals' amounts,     *)
(* less what was captured and returned both, whatever failed, was repeated *)
(* or came late.                                                           *)
THEOREM OpenIsBacked == Spec => []PendingBacksOpen
<1>1. IInv => PendingBacksOpen
  BY DEF IInv
<1> QED
  BY <1>1, Invariance, PTL

(* A final status is never ahead of its journal; a journaled outcome is    *)
(* hidden only behind PROCESSING, by two admins at once, or by a payment   *)
(* the bank took back.                                                     *)
THEOREM StatusBacked == Spec => []StatusTellsMoney
<1>1. IInv => StatusTellsMoney
  BY DEF IInv, CallInv
<1> QED
  BY <1>1, Invariance, PTL

(* An approved withdrawal whose calls and events went through is resolved, *)
(* or its transfer, an event or a call will still resolve it.              *)
THEOREM NothingStranded == Spec => []NoneStranded
<1>1. IInv => NoneStranded
  <2> SUFFICES ASSUME IInv, NEW w \in Ids, status[w] \in {"APPROVED", "PROCESSING"},
                      w \in Open, w \notin interrupted, transfer[w] # "accepted"
               PROVE  \/ \E kind \in Kinds : <<w, kind>> \in events
                      \/ \E c \in Callers : call[c].w = w /\ (At(c, "approved") \/ At(c, "refused"))
    BY DEF NoneStranded
  <2>1. WorkLeft(w)
    BY DEF IInv, WorkIsLeft, Resolved, Open
  <2>2. transfer[w] \in {"none", "refused", "paid", "failed", "reversed"}
    BY DEF IInv, Typed
  <2> QED
    BY <2>1, <2>2 DEF WorkLeft, Kinds
<1> QED
  BY <1>1, Invariance, PTL

(* A settlement or a reversal fails for want of pending balance (the       *)
(* ledger's overdraft check, LedgerService.post) only if its own hold was  *)
(* captured or returned already, or another's was both: no failure, delay  *)
(* or repetition alone leaves an open withdrawal's hold short.             *)
ShortOnlyIfDoubled ==
  \A c \in Callers :
    Overdraws(c) => Doubled # {} \/ Captured(call[c].w) \/ Reversed(call[c].w)

THEOREM SettlementsCovered == Spec => []ShortOnlyIfDoubled
<1>1. IInv => ShortOnlyIfDoubled
  <2> SUFFICES ASSUME IInv, NEW c \in Callers, Overdraws(c), Doubled = {},
                      ~Captured(call[c].w), ~Reversed(call[c].w)
               PROVE  FALSE
    BY DEF ShortOnlyIfDoubled
  <2> DEFINE w == call[c].w
  <2>1. w \in Ids
    BY DEF IInv, Typed
  <2>2. w \in Open
    BY <2>1 DEF Overdraws, Open, IInv, CallInv, Started, At
  <2>3. balance["pending"] + SumFunctionOnSet(Amount, {}) = SumFunctionOnSet(Amount, Open)
    BY DEF IInv, PendingBacksOpen
  <2>4. IsFiniteSet(Open) /\ \A x \in Open : Amount[x] \in Nat
    BY WithdrawalsAssumption, FS_Subset DEF Open
  <2>5. SumFunctionOnSet(Amount, Open) >= Amount[w]
    BY <2>2, <2>4, SumCovers
  <2>6. balance["pending"] < Amount[w]
    BY DEF Overdraws
  <2>7. balance["pending"] \in Int /\ Amount[w] \in Int
    BY <2>1, WithdrawalsAssumption DEF IInv, Typed, Accounts
  <2>8. SumFunctionOnSet(Amount, {}) = 0
    BY SumEmpty
  <2> QED
    BY <2>3, <2>5, <2>6, <2>7, <2>8
<1> QED
  BY <1>1, Invariance, PTL
=============================================================================
