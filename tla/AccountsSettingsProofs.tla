----------------------- MODULE AccountsSettingsProofs -----------------------
(***************************************************************************)
(* Accounts and settings: calls that read rows in one step and write them  *)
(* in another, with no ledger to hold them to.  First an account, for any  *)
(* number of tabs, browsers and admins.  Every request carries what it     *)
(* saw: the invariant says of each request in flight how that relates to   *)
(* the account as it is, and is kept because what it relates to only       *)
(* grows.  Then the settings, rules as data, below.                        *)
(***************************************************************************)
EXTENDS Accounts, Settings, DataLemmas

Purposes == {"EMAIL_VERIFY", "PASSWORD_RESET"}

Id == Nat \ {0}

SessionRows == [family : Id, consumed : BOOLEAN, revoked : BOOLEAN, opened : Nat]
CodeRows == [purpose : Purposes, consumed : BOOLEAN, attempts : Nat]

TabCalls ==
  {Idle} \cup [at : {"issue"}, family : Nat, opened : Nat, seen : Nat]
         \cup [at : {"deliver", "rotate", "burn"}, token : Id]
         \cup [at : {"consume"}, token : Id, seen : Nat]
         \cup [at : {"persist"}, purpose : Purposes, old : SUBSET Nat]
         \cup [at : {"use"}, code : Id, next : {"verify", "reset"}, seen : Nat]
         \cup [at : {"miss"}, code : Id]
         \cup [at : {"verify", "reset"}, seen : Nat]

AdminCalls == {Idle} \cup [at : {"suspend", "reactivate"}]

Typed ==
  /\ sessions \in Seq(SessionRows) /\ codes \in Seq(CodeRows)
  /\ jar \in [Browsers -> Nat] /\ \A b \in Browsers : jar[b] # NoToken => jar[b] \in DOMAIN sessions
  /\ access \subseteq Tabs
  /\ call \in [Tabs \cup Admins -> TabCalls \cup AdminCalls]
  /\ \A t \in Tabs : call[t] \in TabCalls
  /\ \A a \in Admins : call[a] \in AdminCalls
  /\ changes \in Nat /\ overlapped \subseteq Id

(* A session's token as good as one of a family opened since the last      *)
(* revocation, or continued across it.                                     *)
Current(opened, family, ch, over) == opened = ch \/ family \in over

(* What a request in flight carries, against the account as it is: no call *)
(* has seen a later change; one that saw the last change carries a current *)
(* family; while the user is suspended every verification under way began  *)
(* before the last change.                                                 *)
Fits(pc, st, ses, cod, ch, over) ==
  /\ pc.at \in {"issue", "consume", "use", "verify", "reset"} => pc.seen <= ch
  /\ pc.at = "issue" /\ pc.seen = ch => Current(pc.opened, pc.family, ch, over)
  /\ pc.at \in {"deliver", "rotate", "burn", "consume"} => pc.token \in DOMAIN ses
  /\ pc.at = "consume" /\ pc.seen = ch =>
       Current(ses[pc.token].opened, ses[pc.token].family, ch, over)
  /\ pc.at \in {"use", "miss"} => pc.code \in DOMAIN cod
  /\ st = "SUSPENDED" /\ (pc.at = "verify" \/ (pc.at = "use" /\ pc.next = "verify")) => pc.seen < ch

CallsFit == \A t \in Tabs : Fits(call[t], status, sessions, codes, changes, overlapped)

(* Wrong tries read but not yet counted, each by a tab of its own.         *)
Missing(i) == {t \in Tabs : call[t].at = "miss" /\ call[t].code = i}

TriesCovered ==
  \A i \in DOMAIN codes : codes[i].attempts + Cardinality(Missing(i)) < MaxAttempts + Cardinality(Tabs)

IInv == Typed /\ CallsFit /\ RevocationHolds /\ TriesCovered

(* What a step does to the account: nothing a call has seen is taken back. *)
(* Sessions and codes are only added, a session keeps its family and what  *)
(* it was opened under, and one that is dead stays dead.                   *)
Grows ==
  /\ sessions' \in Seq(SessionRows) /\ codes' \in Seq(CodeRows)
  /\ DOMAIN sessions \subseteq DOMAIN sessions' /\ DOMAIN codes \subseteq DOMAIN codes'
  /\ \A s \in DOMAIN sessions :
       /\ sessions'[s].family = sessions[s].family /\ sessions'[s].opened = sessions[s].opened
       /\ sessions'[s].consumed \/ sessions'[s].revoked \/ Live(s)
  /\ changes' \in Nat /\ changes <= changes'
  /\ overlapped \subseteq overlapped' /\ overlapped' \subseteq Id
  /\ status' = "SUSPENDED" => status = "SUSPENDED" \/ changes < changes'

FitsNext(pc) == Fits(pc, status', sessions', codes', changes', overlapped')

BrowserTyped ==
  /\ access' \subseteq Tabs
  /\ jar' \in [Browsers -> Nat] /\ \A b \in Browsers : jar'[b] # NoToken => jar'[b] \in DOMAIN sessions'

(* What every step of a tab does; its request moves to a record that fits. *)
TabStep(t) ==
  /\ Grows /\ BrowserTyped /\ RevocationHolds' /\ TriesCovered'
  /\ \E pc \in TabCalls : call' = [call EXCEPT ![t] = pc] /\ FitsNext(pc)

-----------------------------------------------------------------------------

LEMMA Kinds ==
  ASSUME Typed, NEW t \in Tabs
  PROVE  /\ call[t].at = "issue" =>
              call[t] \in [at : {"issue"}, family : Nat, opened : Nat, seen : Nat]
         /\ call[t].at \in {"deliver", "rotate", "burn"} =>
              call[t] \in [at : {"deliver", "rotate", "burn"}, token : Id]
         /\ call[t].at = "consume" => call[t] \in [at : {"consume"}, token : Id, seen : Nat]
         /\ call[t].at = "persist" =>
              call[t] \in [at : {"persist"}, purpose : Purposes, old : SUBSET Nat]
         /\ call[t].at = "use" =>
              call[t] \in [at : {"use"}, code : Id, next : {"verify", "reset"}, seen : Nat]
         /\ call[t].at = "miss" => call[t] \in [at : {"miss"}, code : Id]
         /\ call[t].at \in {"verify", "reset"} => call[t] \in [at : {"verify", "reset"}, seen : Nat]
<1>1. call[t] \in TabCalls
  BY DEF Typed
<1> QED
  BY <1>1 DEF TabCalls, Idle

LEMMA IdleFits ==
  /\ Idle \in TabCalls /\ Idle \in AdminCalls /\ Idle.at = "idle"
  /\ FitsNext(Idle)
BY DEF Idle, TabCalls, AdminCalls, FitsNext, Fits

(* The rows as sets, which is what most steps need.                        *)
LEMMA RowsTyped ==
  ASSUME Typed
  PROVE  /\ \A s \in DOMAIN sessions : sessions[s] \in SessionRows /\ s \in Id
         /\ \A i \in DOMAIN codes : codes[i] \in CodeRows /\ i \in Id
         /\ sessions \in [DOMAIN sessions -> SessionRows] /\ codes \in [DOMAIN codes -> CodeRows]
<1>1. sessions \in Seq(SessionRows) /\ codes \in Seq(CodeRows)
  BY DEF Typed
<1>2. /\ Len(sessions) \in Nat /\ DOMAIN sessions = 1..Len(sessions)
      /\ sessions \in [1..Len(sessions) -> SessionRows]
  BY <1>1, LenProperties
<1>3. /\ Len(codes) \in Nat /\ DOMAIN codes = 1..Len(codes)
      /\ codes \in [1..Len(codes) -> CodeRows]
  BY <1>1, LenProperties
<1> QED
  BY <1>2, <1>3 DEF Id

-----------------------------------------------------------------------------

(* A request that did not move fits as before.                             *)
LEMMA StaysFit ==
  ASSUME IInv, Grows, NEW u \in Tabs
  PROVE  FitsNext(call[u])
<1>1. Fits(call[u], status, sessions, codes, changes, overlapped)
  BY DEF IInv, CallsFit
<1>2. Typed /\ changes \in Nat
  BY DEF IInv, Typed
<1>3. call[u].at \in {"issue", "consume", "use", "verify", "reset"} => call[u].seen \in Nat
  BY <1>2, Kinds
<1> QED
  BY <1>1, <1>2, <1>3 DEF FitsNext, Fits, Current, Grows

LEMMA TabStepKeeps ==
  ASSUME IInv, NEW t \in Tabs, TabStep(t)
  PROVE  IInv'
<1>1. PICK pc \in TabCalls : call' = [call EXCEPT ![t] = pc] /\ FitsNext(pc)
  BY DEF TabStep
<1>2. Typed'
  BY <1>1, AccountsAssumption DEF TabStep, Grows, BrowserTyped, IInv, Typed
<1>3. \A u \in Tabs : call'[u] = IF u = t THEN pc ELSE call[u]
  BY <1>1 DEF IInv, Typed
<1>4. \A u \in Tabs : FitsNext(call'[u])
  BY <1>1, <1>3, StaysFit DEF TabStep
<1>5. CallsFit'
  BY <1>4 DEF CallsFit, FitsNext
<1> QED
  BY <1>2, <1>5 DEF IInv, TabStep

(* A step that leaves sessions, codes and revocations alone.               *)
LEMMA Quiet ==
  ASSUME IInv, UNCHANGED <<sessions, codes, changes, overlapped>>,
         status' = "SUSPENDED" => status = "SUSPENDED"
  PROVE  Grows /\ RevocationHolds'
<1>1. Grows
  BY RowsTyped DEF IInv, Typed, Grows, Live, SessionRows
<1>2. RevocationHolds'
  BY DEF IInv, RevocationHolds, Live
<1> QED
  BY <1>1, <1>2

MissingNext(i) == {u \in Tabs : call'[u].at = "miss" /\ call'[u].code = i}

CoveredNext(i) == codes'[i].attempts + Cardinality(MissingNext(i)) < MaxAttempts + Cardinality(Tabs)

LEMMA MissingCounts ==
  /\ IsFiniteSet(Tabs) /\ Cardinality(Tabs) \in Nat /\ MaxAttempts \in Nat
  /\ \A i : /\ IsFiniteSet(Missing(i)) /\ Cardinality(Missing(i)) \in Nat
            /\ IsFiniteSet(MissingNext(i)) /\ Cardinality(MissingNext(i)) \in Nat
            /\ Cardinality(MissingNext(i)) <= Cardinality(Tabs)
BY AccountsAssumption, FS_Subset, FS_CardinalityType DEF Missing, MissingNext

(* A code that nobody tried, and nobody goes to count a try of.            *)
LEMMA CodeKept ==
  ASSUME IInv, NEW i \in DOMAIN codes, codes'[i].attempts = codes[i].attempts,
         MissingNext(i) \subseteq Missing(i)
  PROVE  CoveredNext(i)
<1>1. Cardinality(MissingNext(i)) <= Cardinality(Missing(i))
  BY MissingCounts, FS_Subset
<1>2. codes[i].attempts \in Nat
  BY RowsTyped DEF CodeRows, IInv
<1>3. codes[i].attempts + Cardinality(Missing(i)) < MaxAttempts + Cardinality(Tabs)
  BY DEF IInv, TriesCovered
<1>4. /\ Cardinality(Tabs) \in Nat /\ MaxAttempts \in Nat
      /\ Cardinality(Missing(i)) \in Nat /\ Cardinality(MissingNext(i)) \in Nat
  BY MissingCounts
<1> QED
  BY <1>1, <1>2, <1>3, <1>4 DEF CoveredNext

LEMMA CoveredIsTries ==
  (\A i \in DOMAIN codes' : CoveredNext(i)) => TriesCovered'
BY DEF CoveredNext, MissingNext, TriesCovered, Missing

(* No code is tried more while no request goes to count a wrong try.       *)
LEMMA TriesKept ==
  ASSUME IInv, NEW c, NEW pc, pc.at # "miss", call' = [call EXCEPT ![c] = pc],
         DOMAIN codes' = DOMAIN codes,
         \A i \in DOMAIN codes : codes'[i].attempts = codes[i].attempts
  PROVE  TriesCovered'
<1>1. ASSUME NEW i \in DOMAIN codes PROVE MissingNext(i) \subseteq Missing(i)
  BY DEF MissingNext, Missing, IInv, Typed
<1> QED
  BY <1>1, CodeKept, CoveredIsTries

LEMMA QuietStep ==
  ASSUME IInv, NEW t \in Tabs, UNCHANGED <<sessions, codes, changes, overlapped>>,
         status' = "SUSPENDED" => status = "SUSPENDED", BrowserTyped,
         NEW pc \in TabCalls, pc.at # "miss", FitsNext(pc), call' = [call EXCEPT ![t] = pc]
  PROVE  TabStep(t)
<1>1. Grows /\ RevocationHolds'
  BY Quiet
<1>2. TriesCovered'
  BY TriesKept
<1> QED
  BY <1>1, <1>2 DEF TabStep

(* Neither the tabs' access nor the cookies change, or a tab loses access. *)
LEMMA BrowserKept ==
  ASSUME IInv, access' \subseteq access, UNCHANGED jar, DOMAIN sessions \subseteq DOMAIN sessions'
  PROVE  BrowserTyped
BY DEF IInv, Typed, BrowserTyped

LEMMA LoginStep ==
  ASSUME IInv, NEW t \in Tabs, LoginRead(t)
  PROVE  TabStep(t)
<1> DEFINE pc == Issuing(NoToken, changes, changes)
<1>1. changes \in Nat
  BY DEF IInv, Typed
<1>2. pc \in TabCalls /\ pc.at # "miss"
  BY <1>1 DEF Issuing, TabCalls, NoToken
<1>3. FitsNext(pc)
  BY <1>1 DEF LoginRead, Issuing, FitsNext, Fits, Current
<1>4. BrowserTyped
  BY BrowserKept DEF LoginRead
<1> QED
  BY <1>2, <1>3, <1>4, QuietStep DEF LoginRead, Begin

LEMMA IssueStep ==
  ASSUME IInv, NEW t \in Tabs, Issue(t)
  PROVE  TabStep(t)
<1> DEFINE id == Len(sessions) + 1
           family == IF call[t].family = NoToken THEN id ELSE call[t].family
           new == [family |-> family, consumed |-> FALSE, revoked |-> FALSE, opened |-> call[t].opened]
           pc == [at |-> "deliver", token |-> id]
<1>1. Typed /\ Fits(call[t], status, sessions, codes, changes, overlapped) /\ call[t].at = "issue"
  BY DEF IInv, CallsFit, Issue
<1>2. call[t] \in [at : {"issue"}, family : Nat, opened : Nat, seen : Nat] /\ changes \in Nat
  BY <1>1, Kinds DEF Typed
<1>3. sessions \in Seq(SessionRows) /\ Len(sessions) \in Nat
  BY <1>1, LenProperties DEF Typed
<1>4. family \in Id /\ id \in Id /\ new \in SessionRows
  BY <1>2, <1>3 DEF Id, NoToken, SessionRows
<1>5. /\ sessions' = Append(sessions, new)
      /\ overlapped' = overlapped \cup (IF call[t].seen < changes THEN {family} ELSE {})
      /\ call' = [call EXCEPT ![t] = pc]
      /\ UNCHANGED <<status, codes, jar, access, decisions, changes>>
  BY DEF Issue, Continue
<1> HIDE DEF id, family, new, pc
<1>6. /\ sessions' \in Seq(SessionRows)
      /\ DOMAIN sessions = 1..Len(sessions) /\ DOMAIN sessions' = 1..id /\ id \in DOMAIN sessions'
      /\ \A s \in DOMAIN sessions : sessions'[s] = sessions[s] /\ s \in DOMAIN sessions'
      /\ sessions'[id] = new /\ \A s \in DOMAIN sessions' : s \in DOMAIN sessions \/ s = id
  BY <1>3, <1>4, <1>5, Appended DEF id
<1>7. Grows
  BY <1>1, <1>4, <1>5, <1>6, RowsTyped DEF Grows, Typed, Live, SessionRows
<1>8. Current(new.opened, new.family, changes, overlapped')
  <2>1. new.opened = call[t].opened /\ new.family = family
    BY DEF new
  <2>2. CASE call[t].seen < changes
    BY <1>5, <2>1, <2>2 DEF Current
  <2>3. CASE ~(call[t].seen < changes)
    <3>1. call[t].seen = changes
      BY <1>1, <1>2, <2>3 DEF Fits
    <3>2. Current(call[t].opened, call[t].family, changes, overlapped)
      BY <1>1, <3>1 DEF Fits
    <3>3. call[t].family \in overlapped => family = call[t].family
      BY <1>1 DEF Typed, Id, NoToken, family
    <3> QED
      BY <1>5, <2>1, <3>2, <3>3 DEF Current
  <2> QED
    BY <2>2, <2>3
<1>9. RevocationHolds'
  BY <1>5, <1>6, <1>8 DEF RevocationHolds, Live, Current, IInv
<1>10. pc \in TabCalls /\ pc.at # "miss" /\ FitsNext(pc)
  BY <1>4, <1>6 DEF pc, TabCalls, FitsNext, Fits
<1>11. TriesCovered'
  BY <1>5, <1>10, TriesKept
<1>12. BrowserTyped
  BY <1>5, <1>6, BrowserKept
<1> QED
  BY <1>5, <1>7, <1>9, <1>10, <1>11, <1>12 DEF TabStep

LEMMA DeliverStep ==
  ASSUME IInv, NEW t \in Tabs, Deliver(t)
  PROVE  TabStep(t)
<1>1. call[t].token \in DOMAIN sessions /\ Typed
  BY DEF IInv, CallsFit, Fits, Deliver
<1>2. call[t].token \in Nat
  BY <1>1, RowsTyped DEF Id
<1>3. BrowserTyped
  BY <1>1, <1>2, AccountsAssumption DEF Deliver, Typed, BrowserTyped
<1> QED
  BY <1>3, IdleFits, QuietStep DEF Deliver, Ends, Continue

(* The request is as it was: an access token expires, or the user leaves.  *)
LEMMA CallKept ==
  ASSUME IInv, NEW t \in Tabs, UNCHANGED call
  PROVE  call' = [call EXCEPT ![t] = call[t]] /\ call[t] \in TabCalls
BY DEF IInv, Typed

LEMMA ExpireStep ==
  ASSUME IInv, NEW t \in Tabs, AccessExpires(t)
  PROVE  TabStep(t)
<1>1. Grows /\ RevocationHolds'
  BY Quiet DEF AccessExpires
<1>2. call' = [call EXCEPT ![t] = call[t]] /\ call[t] \in TabCalls /\ FitsNext(call[t])
  BY <1>1, CallKept, StaysFit DEF AccessExpires
<1>3. TriesCovered'
  BY DEF AccessExpires, TriesCovered, Missing, IInv
<1>4. BrowserTyped
  BY BrowserKept DEF AccessExpires
<1> QED
  BY <1>1, <1>2, <1>3, <1>4 DEF TabStep

LEMMA RefreshStep ==
  ASSUME IInv, NEW t \in Tabs, RefreshSend(t)
  PROVE  TabStep(t)
<1> DEFINE pc == [at |-> "rotate", token |-> jar[BrowserOf[t]]]
<1>1. jar[BrowserOf[t]] \in DOMAIN sessions /\ jar[BrowserOf[t]] \in Id
  BY AccountsAssumption, RowsTyped DEF IInv, Typed, RefreshSend
<1>2. pc \in TabCalls /\ pc.at # "miss"
  BY <1>1 DEF TabCalls
<1>3. FitsNext(pc)
  BY <1>1 DEF RefreshSend, FitsNext, Fits
<1>4. BrowserTyped
  BY BrowserKept DEF RefreshSend
<1> QED
  BY <1>2, <1>3, <1>4, QuietStep DEF RefreshSend, Begin

LEMMA RotateReadStep ==
  ASSUME IInv, NEW t \in Tabs, RotateRead(t)
  PROVE  TabStep(t)
<1> DEFINE s == call[t].token
           burn == [at |-> "burn", token |-> s]
           consume == [at |-> "consume", token |-> s, seen |-> changes]
<1>1. s \in DOMAIN sessions /\ s \in Id /\ Typed /\ changes \in Nat
  BY RowsTyped DEF IInv, CallsFit, Fits, RotateRead, Typed
<1>2. BrowserTyped
  BY BrowserKept DEF RotateRead, Refused
<1>3. UNCHANGED <<status, sessions, codes, changes, overlapped>>
  BY DEF RotateRead
<1>4. CASE call' = [call EXCEPT ![t] = burn]
  <2>1. burn \in TabCalls /\ burn.at # "miss" /\ FitsNext(burn)
    BY <1>1, <1>3 DEF TabCalls, FitsNext, Fits
  <2> QED
    BY <1>2, <1>3, <1>4, <2>1, QuietStep
<1>5. CASE call' = [call EXCEPT ![t] = Idle]
  BY <1>2, <1>3, <1>5, IdleFits, QuietStep
<1>6. CASE Live(s) /\ call' = [call EXCEPT ![t] = consume]
  <2>1. consume \in TabCalls /\ consume.at # "miss"
    BY <1>1 DEF TabCalls
  <2>2. Current(sessions[s].opened, sessions[s].family, changes, overlapped)
    BY <1>1, <1>6 DEF IInv, RevocationHolds, Current
  <2>3. FitsNext(consume)
    BY <1>1, <1>3, <2>2 DEF FitsNext, Fits
  <2> QED
    BY <1>2, <1>3, <1>6, <2>1, <2>3, QuietStep
<1> QED
  BY <1>4, <1>5, <1>6 DEF RotateRead, Continue, Refused, Ends

LEMMA RevokedRows ==
  ASSUME Typed, NEW tokens
  PROVE  /\ Revoked(tokens) \in Seq(SessionRows) /\ DOMAIN Revoked(tokens) = DOMAIN sessions
         /\ \A s \in DOMAIN sessions :
              /\ Revoked(tokens)[s].family = sessions[s].family
              /\ Revoked(tokens)[s].opened = sessions[s].opened
              /\ Revoked(tokens)[s].consumed = sessions[s].consumed
              /\ Revoked(tokens)[s].revoked = (s \in tokens \/ sessions[s].revoked)
<1>1. \A s \in DOMAIN sessions : sessions[s] \in SessionRows
  BY RowsTyped
<1>2. Revoked(tokens) \in [DOMAIN sessions -> SessionRows]
  BY <1>1 DEF Revoked, SessionRows
<1>3. sessions \in Seq(SessionRows)
  BY DEF Typed
<1>4. Revoked(tokens) \in Seq(SessionRows) /\ DOMAIN Revoked(tokens) = DOMAIN sessions
  BY <1>2, <1>3, Mapped
<1>5. ASSUME NEW s \in DOMAIN sessions
      PROVE  /\ Revoked(tokens)[s].family = sessions[s].family
             /\ Revoked(tokens)[s].opened = sessions[s].opened
             /\ Revoked(tokens)[s].consumed = sessions[s].consumed
             /\ Revoked(tokens)[s].revoked = (s \in tokens \/ sessions[s].revoked)
  BY <1>1 DEF Revoked, SessionRows
<1> QED
  BY <1>4, <1>5

(* Revoking one family leaves what is still live as it was.                *)
LEMMA RevokingKeeps ==
  ASSUME IInv, NEW tokens, sessions' = Revoked(tokens),
         UNCHANGED <<status, codes, changes, overlapped>>
  PROVE  Grows /\ RevocationHolds' /\ DOMAIN sessions' = DOMAIN sessions
<1>1. Typed
  BY DEF IInv
<1>2. Grows
  BY <1>1, RevokedRows, RowsTyped DEF Grows, Typed, Live, SessionRows
<1>3. DOMAIN sessions' = DOMAIN sessions
  BY <1>1, RevokedRows
<1>4. \A s \in DOMAIN sessions :
        /\ sessions'[s].family = sessions[s].family /\ sessions'[s].opened = sessions[s].opened
        /\ sessions'[s].consumed \/ sessions'[s].revoked \/ Live(s)
  BY <1>2 DEF Grows
<1>5. RevocationHolds'
  BY <1>3, <1>4 DEF IInv, RevocationHolds, Live
<1> QED
  BY <1>2, <1>3, <1>5

LEMMA BurnStep ==
  ASSUME IInv, NEW t \in Tabs, RotateBurn(t)
  PROVE  TabStep(t)
<1>1. Grows /\ RevocationHolds' /\ DOMAIN sessions' = DOMAIN sessions
  BY RevokingKeeps DEF RotateBurn, SameFamily
<1>2. BrowserTyped
  BY <1>1, BrowserKept DEF RotateBurn, Refused
<1>3. call' = [call EXCEPT ![t] = Idle] /\ UNCHANGED codes
  BY DEF RotateBurn, Refused, Ends, Continue
<1>4. TriesCovered'
  BY <1>3, IdleFits, TriesKept
<1> QED
  BY <1>1, <1>2, <1>3, <1>4, IdleFits DEF TabStep

LEMMA ConsumeStep ==
  ASSUME IInv, NEW t \in Tabs, RotateConsume(t)
  PROVE  TabStep(t)
<1> DEFINE s == call[t].token
           used == [sessions[s] EXCEPT !.consumed = TRUE]
           pc == Issuing(sessions[s].family, sessions[s].opened, call[t].seen)
<1>1. Typed /\ Fits(call[t], status, sessions, codes, changes, overlapped) /\ call[t].at = "consume"
  BY DEF IInv, CallsFit, RotateConsume
<1>2. call[t].seen \in Nat /\ s \in DOMAIN sessions /\ changes \in Nat /\ sessions[s] \in SessionRows
  BY <1>1, Kinds, RowsTyped DEF Fits, Typed
<1>3. /\ sessions' = [sessions EXCEPT ![s] = used] /\ call' = [call EXCEPT ![t] = pc]
      /\ UNCHANGED <<status, codes, jar, access, decisions, changes, overlapped>>
  BY DEF RotateConsume, Continue
<1>4. /\ used \in SessionRows /\ used.consumed
      /\ used.family = sessions[s].family /\ used.opened = sessions[s].opened
  BY <1>2 DEF SessionRows
<1>5. pc \in TabCalls /\ pc.at = "issue" /\ pc.seen = call[t].seen
      /\ pc.opened = sessions[s].opened /\ pc.family = sessions[s].family
  BY <1>2 DEF Issuing, SessionRows, TabCalls, Id
<1> HIDE DEF s, used, pc
<1>6. sessions' \in [DOMAIN sessions -> SessionRows]
  BY <1>1, <1>2, <1>3, <1>4, RowsTyped
<1>7. /\ sessions' \in Seq(SessionRows) /\ DOMAIN sessions' = DOMAIN sessions
      /\ \A u \in DOMAIN sessions : sessions'[u] = IF u = s THEN used ELSE sessions[u]
  BY <1>1, <1>2, <1>3, <1>6, Mapped, RowsTyped DEF Typed
<1>8. Grows
  BY <1>1, <1>3, <1>4, <1>7, RowsTyped DEF Grows, Typed, Live, SessionRows
<1>9. RevocationHolds'
  BY <1>3, <1>4, <1>7 DEF IInv, RevocationHolds, Live
<1>10. FitsNext(pc)
  BY <1>1, <1>3, <1>5 DEF FitsNext, Fits, s
<1>11. TriesCovered'
  BY <1>3, <1>5, TriesKept
<1>12. BrowserTyped
  BY <1>3, <1>7, BrowserKept
<1> QED
  BY <1>3, <1>5, <1>8, <1>9, <1>10, <1>11, <1>12 DEF TabStep

LEMMA LogoutStep ==
  ASSUME IInv, NEW t \in Tabs, Logout(t)
  PROVE  TabStep(t)
<1>1. UNCHANGED <<status, codes, call, changes, overlapped>> /\ access' \subseteq access
  BY DEF Logout
<1>2. Grows /\ RevocationHolds' /\ BrowserTyped
  <2>1. CASE UNCHANGED <<sessions, jar>>
    BY <1>1, <2>1, Quiet, BrowserKept
  <2>2. CASE ServerLogout(BrowserOf[t])
    <3>1. Grows /\ RevocationHolds' /\ DOMAIN sessions' = DOMAIN sessions
      BY <1>1, <2>2, RevokingKeeps DEF ServerLogout, SameFamily
    <3>2. BrowserTyped
      BY <1>1, <2>2, <3>1 DEF ServerLogout, IInv, Typed, BrowserTyped, NoToken
    <3> QED
      BY <3>1, <3>2
  <2> QED
    BY <2>1, <2>2 DEF Logout
<1>3. call' = [call EXCEPT ![t] = call[t]] /\ call[t] \in TabCalls /\ FitsNext(call[t])
  BY <1>1, <1>2, CallKept, StaysFit
<1>4. TriesCovered'
  BY <1>1 DEF TriesCovered, Missing, IInv
<1> QED
  BY <1>2, <1>3, <1>4 DEF TabStep

-----------------------------------------------------------------------------

LEMMA PersistingFits ==
  ASSUME Typed, NEW purpose \in Purposes
  PROVE  LET pc == Persisting(purpose) IN
         pc \in TabCalls /\ pc.at = "persist" /\ FitsNext(pc)
<1>1. Unused(purpose) \in SUBSET Nat
  BY RowsTyped DEF Unused, Id
<1> QED
  BY <1>1 DEF Persisting, TabCalls, FitsNext, Fits

LEMMA RegisterStep ==
  ASSUME IInv, NEW t \in Tabs, Register(t)
  PROVE  TabStep(t)
<1> DEFINE pc == Persisting("EMAIL_VERIFY")
<1>1. pc \in TabCalls /\ pc.at # "miss" /\ FitsNext(pc)
  BY PersistingFits DEF IInv, Purposes
<1>2. BrowserTyped
  BY BrowserKept DEF Register
<1> HIDE DEF pc
<1>3. call' = [call EXCEPT ![t] = pc]
  BY DEF Register, Begin, pc
<1> QED
  BY <1>1, <1>2, <1>3, QuietStep DEF Register

LEMMA ForgotStep ==
  ASSUME IInv, NEW t \in Tabs, ForgotPassword(t)
  PROVE  TabStep(t)
<1> DEFINE pc == Persisting("PASSWORD_RESET")
<1>1. pc \in TabCalls /\ pc.at # "miss" /\ FitsNext(pc)
  BY PersistingFits DEF IInv, Purposes
<1>2. BrowserTyped
  BY BrowserKept DEF ForgotPassword
<1> HIDE DEF pc
<1>3. call' = [call EXCEPT ![t] = pc]
  BY DEF ForgotPassword, Begin, pc
<1> QED
  BY <1>1, <1>2, <1>3, QuietStep DEF ForgotPassword

LEMMA PersistStep ==
  ASSUME IInv, NEW t \in Tabs, PersistCommit(t)
  PROVE  TabStep(t)
<1> DEFINE kept == [i \in DOMAIN codes |-> IF i \in call[t].old
                                           THEN [codes[i] EXCEPT !.consumed = TRUE]
                                           ELSE codes[i]]
           fresh == [purpose |-> call[t].purpose, consumed |-> FALSE, attempts |-> 0]
           pc == IF call[t].purpose = "EMAIL_VERIFY" THEN Issuing(NoToken, 0, 0) ELSE Idle
<1>1. Typed /\ call[t].at = "persist" /\ codes \in Seq(CodeRows) /\ changes \in Nat
  BY DEF IInv, PersistCommit, Typed
<1>2. call[t].purpose \in Purposes
  BY <1>1, Kinds
<1>3. fresh \in CodeRows /\ fresh.attempts = 0
  BY <1>2 DEF CodeRows
<1>4. kept \in [DOMAIN codes -> CodeRows]
  BY <1>1, RowsTyped DEF CodeRows
<1>5. \A i \in DOMAIN codes : kept[i].attempts = codes[i].attempts
  BY <1>1, RowsTyped DEF CodeRows
<1>6. /\ codes' = Append(kept, fresh) /\ call' = [call EXCEPT ![t] = pc]
      /\ UNCHANGED <<status, sessions, jar, access, decisions, changes, overlapped>>
  BY DEF PersistCommit, Continue
<1>7. pc \in TabCalls /\ pc.at # "miss" /\ FitsNext(pc)
  <2>1. Issuing(NoToken, 0, 0) \in TabCalls /\ Issuing(NoToken, 0, 0).at # "miss"
    BY DEF Issuing, NoToken, TabCalls
  <2>2. FitsNext(Issuing(NoToken, 0, 0))
    BY <1>1, <1>6 DEF Issuing, NoToken, FitsNext, Fits, Current
  <2> QED
    BY <2>1, <2>2, IdleFits
<1> HIDE DEF kept, fresh, pc
<1>8. kept \in Seq(CodeRows) /\ DOMAIN kept = DOMAIN codes
  BY <1>1, <1>4, Mapped
<1>9. /\ codes' \in Seq(CodeRows) /\ DOMAIN codes \subseteq DOMAIN codes'
      /\ \A i \in DOMAIN codes : codes'[i].attempts = codes[i].attempts
      /\ \A i \in DOMAIN codes' \ DOMAIN codes : codes'[i].attempts = 0
  BY <1>3, <1>5, <1>6, <1>8, Appended
<1>10. Grows
  BY <1>1, <1>6, <1>9, RowsTyped DEF Grows, Typed, Live, SessionRows
<1>11. RevocationHolds'
  BY <1>6 DEF IInv, RevocationHolds, Live
<1>12. ASSUME NEW i \in DOMAIN codes' PROVE CoveredNext(i)
  <2>1. MissingNext(i) \subseteq Missing(i)
    BY <1>6, <1>7 DEF MissingNext, Missing, IInv, Typed
  <2>2. CASE i \in DOMAIN codes
    BY <1>9, <2>1, <2>2, CodeKept
  <2>3. CASE i \notin DOMAIN codes
    <3>1. Missing(i) = {}
      BY <2>3 DEF Missing, IInv, CallsFit, Fits
    <3>2. Cardinality(MissingNext(i)) = 0
      BY <2>1, <3>1, FS_EmptySet
    <3>3. Cardinality(Tabs) # 0
      BY MissingCounts, FS_EmptySet
    <3>4. codes'[i].attempts = 0
      BY <1>9, <2>3
    <3> QED
      BY <3>2, <3>3, <3>4, MissingCounts DEF CoveredNext
  <2> QED
    BY <2>2, <2>3
<1>13. TriesCovered'
  BY <1>12, CoveredIsTries
<1>14. BrowserTyped
  BY <1>6, BrowserKept
<1> QED
  BY <1>6, <1>7, <1>10, <1>11, <1>13, <1>14 DEF TabStep

LEMMA NewestIsUnused ==
  ASSUME Typed, NEW purpose, Unused(purpose) # {}
  PROVE  LET newest == CHOOSE i \in Unused(purpose) : \A j \in Unused(purpose) : j <= i
         IN  newest \in Unused(purpose) /\ newest \in DOMAIN codes /\ newest \in Id
<1>1. codes \in Seq(CodeRows)
  BY DEF Typed
<1>2. Len(codes) \in Nat /\ DOMAIN codes = 1..Len(codes)
  BY <1>1, LenProperties
<1>3. Unused(purpose) \in SUBSET (1..Len(codes))
  BY <1>2 DEF Unused
<1>4. \E i \in Unused(purpose) : \A j \in Unused(purpose) : j <= i
  BY <1>2, <1>3, HasLargest
<1> QED
  BY <1>2, <1>3, <1>4 DEF Id

(* A try begins: on a right value a request to use the code, on a wrong    *)
(* one a request to count it.                                              *)
LEMMA TryStep ==
  ASSUME IInv, NEW t \in Tabs, NEW purpose, NEW next \in {"verify", "reset"},
         ConsumeRead(t, purpose, next), next = "verify" => status # "SUSPENDED",
         UNCHANGED <<status, sessions, codes, jar, access, changes, overlapped>>
  PROVE  TabStep(t)
<1> DEFINE newest == CHOOSE i \in Unused(purpose) : \A j \in Unused(purpose) : j <= i
           use == [at |-> "use", code |-> newest, next |-> next, seen |-> changes]
           miss == [at |-> "miss", code |-> newest]
<1>1. Typed /\ changes \in Nat
  BY DEF IInv, Typed
<1>2. newest \in DOMAIN codes /\ newest \in Id
  BY <1>1, NewestIsUnused DEF ConsumeRead
<1>3. codes[newest].attempts < MaxAttempts /\ call[t] = Idle
      /\ (call' = [call EXCEPT ![t] = use] \/ call' = [call EXCEPT ![t] = miss])
  BY DEF ConsumeRead, Begin
<1> HIDE DEF newest
<1>4. BrowserTyped
  BY BrowserKept
<1>5. CASE call' = [call EXCEPT ![t] = use]
  <2>1. use \in TabCalls /\ use.at # "miss"
    BY <1>1, <1>2 DEF TabCalls
  <2>2. FitsNext(use)
    BY <1>1, <1>2 DEF FitsNext, Fits
  <2> HIDE DEF use
  <2> QED
    BY <1>4, <1>5, <2>1, <2>2, QuietStep
<1>6. CASE call' = [call EXCEPT ![t] = miss]
  <2>1. miss \in TabCalls /\ FitsNext(miss)
    BY <1>2 DEF TabCalls, FitsNext, Fits
  <2>2. Grows /\ RevocationHolds'
    BY Quiet
  <2>3. ASSUME NEW i \in DOMAIN codes' PROVE CoveredNext(i)
    <3>1. CASE i = newest
      <4>1. codes[newest].attempts \in Nat
        BY <1>1, <1>2, RowsTyped DEF CodeRows
      <4> QED
        BY <1>3, <3>1, <4>1, MissingCounts DEF CoveredNext
    <3>2. CASE i # newest
      <4>1. MissingNext(i) \subseteq Missing(i)
        BY <1>6, <3>2 DEF MissingNext, Missing, IInv, Typed
      <4> QED
        BY <4>1, CodeKept
    <3> QED
      BY <3>1, <3>2
  <2>4. TriesCovered'
    BY <2>3, CoveredIsTries
  <2> QED
    BY <1>4, <1>6, <2>1, <2>2, <2>4 DEF TabStep
<1> QED
  BY <1>3, <1>5, <1>6

LEMMA VerifyEmailStep ==
  ASSUME IInv, NEW t \in Tabs, VerifyEmail(t)
  PROVE  TabStep(t)
BY TryStep DEF VerifyEmail, LetIn, Disabled

LEMMA ResetPasswordStep ==
  ASSUME IInv, NEW t \in Tabs, ResetPassword(t)
  PROVE  TabStep(t)
BY TryStep DEF ResetPassword

(* One field of one code changes.                                          *)
LEMMA CodeWritten ==
  ASSUME IInv, NEW i \in DOMAIN codes, NEW row \in CodeRows, codes' = [codes EXCEPT ![i] = row],
         UNCHANGED <<status, sessions, changes, overlapped>>
  PROVE  /\ Grows /\ RevocationHolds' /\ DOMAIN codes' = DOMAIN codes
         /\ \A j \in DOMAIN codes : codes'[j] = IF j = i THEN row ELSE codes[j]
<1>1. codes \in Seq(CodeRows) /\ Typed
  BY DEF IInv, Typed
<1>2. codes' \in [DOMAIN codes -> CodeRows]
  BY <1>1, RowsTyped
<1>3. codes' \in Seq(CodeRows) /\ DOMAIN codes' = DOMAIN codes
  BY <1>1, <1>2, Mapped
<1>4. Grows
  BY <1>1, <1>3, RowsTyped DEF Grows, Typed, Live, SessionRows
<1>5. RevocationHolds'
  BY DEF IInv, RevocationHolds, Live
<1> QED
  BY <1>1, <1>3, <1>4, <1>5, RowsTyped

LEMMA MissStep ==
  ASSUME IInv, NEW t \in Tabs, ConsumeMiss(t)
  PROVE  TabStep(t)
<1> DEFINE k == call[t].code
           row == [codes[k] EXCEPT !.attempts = @ + 1]
<1>1. k \in DOMAIN codes /\ codes[k] \in CodeRows /\ t \in Missing(k)
  BY RowsTyped DEF IInv, CallsFit, Fits, ConsumeMiss, Missing
<1>2. row \in CodeRows /\ row.attempts = codes[k].attempts + 1
  BY <1>1 DEF CodeRows
<1>3. /\ codes' = [codes EXCEPT ![k] = row] /\ call' = [call EXCEPT ![t] = Idle]
      /\ UNCHANGED <<status, sessions, jar, access, decisions, changes, overlapped>>
  BY DEF ConsumeMiss, Ends, Continue
<1> HIDE DEF row, k
<1>4. /\ Grows /\ RevocationHolds' /\ DOMAIN codes' = DOMAIN codes
      /\ \A j \in DOMAIN codes : codes'[j] = IF j = k THEN row ELSE codes[j]
  BY <1>1, <1>2, <1>3, CodeWritten
<1>5. BrowserTyped
  BY <1>3, BrowserKept
<1>6. \A u \in Tabs : call'[u] = IF u = t THEN Idle ELSE call[u]
  BY <1>3 DEF IInv, Typed
<1>7. \A j : MissingNext(j) = Missing(j) \ {t}
  BY <1>6, IdleFits DEF MissingNext, Missing
<1>8. ASSUME NEW j \in DOMAIN codes' PROVE CoveredNext(j)
  <2>1. CASE j = k
    <3>1. Cardinality(MissingNext(k)) = Cardinality(Missing(k)) - 1
      BY <1>1, <1>7, MissingCounts, FS_RemoveElement
    <3>2. codes'[k].attempts = codes[k].attempts + 1 /\ codes[k].attempts \in Nat
      BY <1>1, <1>2, <1>4 DEF CodeRows
    <3>3. codes[k].attempts + Cardinality(Missing(k)) < MaxAttempts + Cardinality(Tabs)
      BY <1>1 DEF IInv, TriesCovered
    <3> QED
      BY <2>1, <3>1, <3>2, <3>3, MissingCounts DEF CoveredNext
  <2>2. CASE j # k
    BY <1>4, <1>7, <2>2, CodeKept
  <2> QED
    BY <2>1, <2>2
<1>9. TriesCovered'
  BY <1>8, CoveredIsTries
<1> QED
  BY <1>3, <1>4, <1>5, <1>9, IdleFits DEF TabStep

LEMMA UseStep ==
  ASSUME IInv, NEW t \in Tabs, ConsumeUse(t)
  PROVE  TabStep(t)
<1> DEFINE k == call[t].code
           row == [codes[k] EXCEPT !.consumed = TRUE]
           pc == [at |-> call[t].next, seen |-> call[t].seen]
<1>1. Fits(call[t], status, sessions, codes, changes, overlapped) /\ call[t].at = "use" /\ Typed
  BY DEF IInv, CallsFit, ConsumeUse
<1>2. call[t] \in [at : {"use"}, code : Id, next : {"verify", "reset"}, seen : Nat]
  BY <1>1, Kinds
<1>3. k \in DOMAIN codes /\ codes[k] \in CodeRows
  BY <1>1, RowsTyped DEF Fits
<1>4. row \in CodeRows /\ row.attempts = codes[k].attempts
  BY <1>3 DEF CodeRows
<1>5. /\ codes' = [codes EXCEPT ![k] = row] /\ call' = [call EXCEPT ![t] = pc]
      /\ UNCHANGED <<status, sessions, jar, access, decisions, changes, overlapped>>
  BY DEF ConsumeUse, Continue
<1>6. pc \in TabCalls /\ pc.at # "miss"
  BY <1>2 DEF TabCalls
<1>7. FitsNext(pc)
  BY <1>1, <1>2, <1>5 DEF FitsNext, Fits
<1> HIDE DEF row, k, pc
<1>8. /\ Grows /\ RevocationHolds' /\ DOMAIN codes' = DOMAIN codes
      /\ \A j \in DOMAIN codes : codes'[j].attempts = codes[j].attempts
  BY <1>3, <1>4, <1>5, CodeWritten
<1>9. BrowserTyped
  BY <1>5, BrowserKept
<1>10. TriesCovered'
  BY <1>5, <1>6, <1>8, TriesKept
<1> QED
  BY <1>5, <1>6, <1>7, <1>8, <1>9, <1>10 DEF TabStep

LEMMA VerifyWriteStep ==
  ASSUME IInv, NEW t \in Tabs, VerifyWrite(t)
  PROVE  TabStep(t)
<1>1. BrowserTyped
  BY BrowserKept DEF VerifyWrite
<1> QED
  BY <1>1, IdleFits, QuietStep DEF VerifyWrite, Ends, Continue

(* After a change of credentials, or a suspension, no session is live.     *)
LEMMA RevokingAllKeeps ==
  ASSUME IInv, RevokeAll, UNCHANGED <<codes, overlapped>>
  PROVE  Grows /\ RevocationHolds' /\ DOMAIN sessions' = DOMAIN sessions
<1>1. Typed /\ changes \in Nat
  BY DEF IInv, Typed
<1>2. sessions' = Revoked(DOMAIN sessions) /\ changes' = changes + 1
  BY DEF RevokeAll
<1>3. DOMAIN sessions' = DOMAIN sessions /\ sessions' \in Seq(SessionRows)
      /\ \A s \in DOMAIN sessions :
           /\ sessions'[s].family = sessions[s].family /\ sessions'[s].opened = sessions[s].opened
           /\ sessions'[s].revoked
  BY <1>1, <1>2, RevokedRows
<1>4. Grows
  BY <1>1, <1>2, <1>3 DEF Grows, Typed
<1> QED
  BY <1>3, <1>4 DEF RevocationHolds, Live

LEMMA ResetWriteStep ==
  ASSUME IInv, NEW t \in Tabs, ResetWrite(t)
  PROVE  TabStep(t)
<1>1. Grows /\ RevocationHolds' /\ DOMAIN sessions' = DOMAIN sessions
  BY RevokingAllKeeps DEF ResetWrite
<1>2. BrowserTyped
  BY <1>1, BrowserKept DEF ResetWrite
<1>3. call' = [call EXCEPT ![t] = Idle] /\ UNCHANGED codes
  BY DEF ResetWrite, Ends, Continue
<1>4. TriesCovered'
  BY <1>3, IdleFits, TriesKept
<1> QED
  BY <1>1, <1>2, <1>3, <1>4, IdleFits DEF TabStep

LEMMA TabFails ==
  ASSUME IInv, NEW t \in Tabs, CallFails(t)
  PROVE  TabStep(t)
<1>1. BrowserTyped
  BY BrowserKept DEF CallFails
<1> QED
  BY <1>1, IdleFits, QuietStep DEF CallFails, Ends, Continue

-----------------------------------------------------------------------------

(* What every step of an admin does.                                       *)
AdminStep(a) ==
  /\ Grows /\ RevocationHolds' /\ DOMAIN sessions' = DOMAIN sessions
  /\ UNCHANGED <<codes, jar>> /\ access' \subseteq access
  /\ \E pc \in AdminCalls : call' = [call EXCEPT ![a] = pc]

LEMMA AdminStepKeeps ==
  ASSUME IInv, NEW a \in Admins, AdminStep(a)
  PROVE  IInv'
<1>1. PICK pc \in AdminCalls : call' = [call EXCEPT ![a] = pc]
  BY DEF AdminStep
<1>2. \A u \in Tabs : u # a
  BY AccountsAssumption
<1>3. \A u \in Tabs : call'[u] = call[u]
  BY <1>1, <1>2 DEF IInv, Typed
<1>4. BrowserTyped
  BY BrowserKept DEF AdminStep
<1>5. Typed'
  BY <1>1, <1>3, <1>4 DEF AdminStep, Grows, BrowserTyped, IInv, Typed
<1>6. CallsFit'
  BY <1>3, StaysFit DEF AdminStep, CallsFit, FitsNext
<1>7. pc.at # "miss"
  BY DEF AdminCalls, Idle
<1>8. TriesCovered'
  BY <1>1, <1>7, TriesKept DEF AdminStep
<1> QED
  BY <1>5, <1>6, <1>8 DEF IInv, AdminStep

LEMMA SuspendReadStep ==
  ASSUME IInv, NEW a \in Admins, SuspendRead(a) \/ ReactivateRead(a)
  PROVE  AdminStep(a)
<1>1. [at |-> "suspend"] \in AdminCalls /\ [at |-> "reactivate"] \in AdminCalls
  BY DEF AdminCalls
<1>2. Grows /\ RevocationHolds'
  BY Quiet DEF SuspendRead, ReactivateRead
<1> QED
  BY <1>1, <1>2 DEF SuspendRead, ReactivateRead, Begin, AdminStep

LEMMA SuspendWriteStep ==
  ASSUME IInv, NEW a \in Admins, SuspendWrite(a)
  PROVE  AdminStep(a)
<1>1. Grows /\ RevocationHolds' /\ DOMAIN sessions' = DOMAIN sessions
  BY RevokingAllKeeps DEF SuspendWrite
<1> QED
  BY <1>1, IdleFits DEF SuspendWrite, Ends, Continue, AdminStep

LEMMA ReactivateWriteStep ==
  ASSUME IInv, NEW a \in Admins, ReactivateWrite(a) \/ CallFails(a)
  PROVE  AdminStep(a)
<1>1. Grows /\ RevocationHolds'
  BY Quiet DEF ReactivateWrite, CallFails
<1> QED
  BY <1>1, IdleFits DEF ReactivateWrite, CallFails, Ends, Continue, AdminStep

-----------------------------------------------------------------------------

LEMMA InitIInv == Init => IInv
<1> SUFFICES ASSUME Init PROVE IInv
  OBVIOUS
<1>1. \A t \in Tabs : call[t] = Idle
  BY DEF Init
<1>2. << >> \in Seq(SessionRows) /\ << >> \in Seq(CodeRows)
  BY EmptySeq
<1>3. DOMAIN sessions = {} /\ DOMAIN codes = {}
  BY DEF Init
<1>4. Typed
  BY <1>2, IdleFits DEF Init, Typed, NoToken
<1>5. CallsFit
  BY <1>1 DEF CallsFit, Fits, Idle
<1> QED
  BY <1>3, <1>4, <1>5 DEF IInv, RevocationHolds, TriesCovered

LEMMA NextIInv == IInv /\ [Next]_vars => IInv'
<1> SUFFICES ASSUME IInv, [Next]_vars PROVE IInv'
  OBVIOUS
<1>1. CASE UNCHANGED vars
  BY <1>1 DEF vars, IInv, Typed, CallsFit, RevocationHolds, Live, TriesCovered, Missing
<1>2. ASSUME NEW t \in Tabs,
             \/ Register(t) \/ LoginRead(t) \/ Issue(t) \/ Deliver(t) \/ AccessExpires(t)
             \/ RefreshSend(t) \/ RotateRead(t) \/ RotateBurn(t) \/ RotateConsume(t) \/ Logout(t)
             \/ ForgotPassword(t) \/ PersistCommit(t) \/ VerifyEmail(t) \/ ResetPassword(t)
             \/ ConsumeMiss(t) \/ ConsumeUse(t) \/ VerifyWrite(t) \/ ResetWrite(t) \/ CallFails(t)
      PROVE  IInv'
  <2>1. TabStep(t)
    BY <1>2, RegisterStep, LoginStep, IssueStep, DeliverStep, ExpireStep, RefreshStep,
       RotateReadStep, BurnStep, ConsumeStep, LogoutStep, ForgotStep, PersistStep,
       VerifyEmailStep, ResetPasswordStep, MissStep, UseStep, VerifyWriteStep, ResetWriteStep,
       TabFails
  <2> QED
    BY <2>1, TabStepKeeps
<1>3. ASSUME NEW a \in Admins,
             \/ SuspendRead(a) \/ SuspendWrite(a) \/ ReactivateRead(a) \/ ReactivateWrite(a)
             \/ CallFails(a)
      PROVE  IInv'
  <2>1. AdminStep(a)
    BY <1>3, SuspendReadStep, SuspendWriteStep, ReactivateWriteStep
  <2> QED
    BY <2>1, AdminStepKeeps
<1> QED
  BY <1>1, <1>2, <1>3 DEF Next

LEMMA Invariance == Spec => []IInv
BY InitIInv, NextIInv, PTL DEF Spec

-----------------------------------------------------------------------------

(* A session that is still good was opened since the last change of the    *)
(* password or suspension, or its family was continued across that change  *)
(* by a call that had read before it and wrote after: there is no other    *)
(* way a session outlives "every live session is revoked"                  *)
(* (auth.service.ts, users.service.ts), however the tabs interleave.       *)
THEOREM RevocationIsComplete == Spec => []RevocationHolds
<1>1. IInv => RevocationHolds
  BY DEF IInv
<1> QED
  BY <1>1, Invariance, PTL

(* No code counts more wrong tries than the limit and one more for each    *)
(* tab but one, although consume (otp.service.ts) reads the count in one   *)
(* statement and raises it in another.                                     *)
THEOREM TriesAreBounded == Spec => []AttemptsBounded
<1>1. IInv => AttemptsBounded
  <2> SUFFICES ASSUME IInv, NEW i \in DOMAIN codes
               PROVE  codes[i].attempts < MaxAttempts + Cardinality(Tabs)
    BY DEF AttemptsBounded
  <2>1. codes[i].attempts + Cardinality(Missing(i)) < MaxAttempts + Cardinality(Tabs)
    BY DEF IInv, TriesCovered
  <2>2. codes[i].attempts \in Nat
    BY RowsTyped DEF IInv, CodeRows
  <2> QED
    BY <2>1, <2>2, MissingCounts
<1> QED
  BY <1>1, Invariance, PTL

(* A suspended user becomes active again only by an admin's reactivation,  *)
(* or when a verification that was let in before the suspension writes     *)
(* ACTIVE over it (verifyEmail, auth.service.ts).                          *)
THEOREM SuspensionLifted == Spec => LiftedKnowingly
<1>1. ASSUME IInv, Next, status = "SUSPENDED", status' # "SUSPENDED"
      PROVE  \/ \E a \in Admins : call[a].at = "reactivate" /\ call'[a] = Idle
             \/ \E t \in Tabs : call[t].at = "verify" /\ call[t].seen < changes /\ call'[t] = Idle
  <2>1. (\E t \in Tabs : VerifyWrite(t)) \/ (\E a \in Admins : ReactivateWrite(a))
    BY <1>1 DEF Next, Register, LoginRead, Issue, Deliver, AccessExpires, RefreshSend, RotateRead,
                RotateBurn, RotateConsume, Logout, ForgotPassword, PersistCommit, VerifyEmail,
                ResetPassword, ConsumeMiss, ConsumeUse, ResetWrite, SuspendRead, SuspendWrite,
                ReactivateRead, CallFails
  <2>2. ASSUME NEW t \in Tabs, VerifyWrite(t)
        PROVE  call[t].at = "verify" /\ call[t].seen < changes /\ call'[t] = Idle
    <3>1. Fits(call[t], status, sessions, codes, changes, overlapped) /\ call[t].at = "verify"
      BY <1>1, <2>2 DEF IInv, CallsFit, VerifyWrite
    <3>2. call'[t] = Idle
      BY <1>1, <2>2 DEF IInv, Typed, VerifyWrite, Ends, Continue
    <3> QED
      BY <1>1, <3>1, <3>2 DEF Fits
  <2>3. ASSUME NEW a \in Admins, ReactivateWrite(a)
        PROVE  call[a].at = "reactivate" /\ call'[a] = Idle
    BY <1>1, <2>3 DEF IInv, Typed, ReactivateWrite, Ends, Continue
  <2> QED
    BY <2>1, <2>2, <2>3
<1>2. IInv /\ [Next]_vars =>
        [status = "SUSPENDED" /\ status' # "SUSPENDED" =>
           \/ \E a \in Admins : call[a].at = "reactivate" /\ call'[a] = Idle
           \/ \E t \in Tabs : call[t].at = "verify" /\ call[t].seen < changes
                              /\ call'[t] = Idle]_vars
  BY <1>1 DEF vars
<1> QED
  BY <1>2, Invariance, PTL DEF Spec, LiftedKnowingly

-----------------------------------------------------------------------------
(* Settings, for any number of admins, keys and values, versions and       *)
(* stops.  The invariant compares what a call or a page read with the      *)
(* rows as they are: a transaction that saw the last commit found exactly  *)
(* the active sets, and a form is its version but for what was changed.    *)

SetRows == [numbers : [Keys -> Values], isActive : BOOLEAN]
Lists == [active : SUBSET Id, newest : Id]
Forms == [numbers : [Keys -> Values], base : Id, changed : SUBSET Keys]

Updates ==
  {NoUpdate} \cup [at : {"create"}] \cup [at : {"activate"}, target : Id]
         \cup [at : {"created"}, found : SUBSET Id, since : Nat]
         \cup [at : {"activated"}, target : Id, found : SUBSET Id, since : Nat]
         \cup [at : {"record"}, page : BOOLEAN]
         \cup [at : {"write"}, page : BOOLEAN, prev : Nat]

SettingsTyped ==
  /\ sets \in Seq(SetRows) /\ log \in Seq([prev : Nat])
  /\ cached \in [Editors -> Lists] /\ form \in [Editors -> Forms] /\ update \in [Editors -> Updates]
  /\ committed \in Nat /\ beside \in Nat /\ stops \in Nat

(* What pages and calls name are versions there are, and remain.           *)
ListFits(list, rows) == list.active \subseteq DOMAIN rows /\ list.newest \in DOMAIN rows

CallFits(pc, rows, commits) ==
  /\ pc.at \in {"activate", "activated"} => pc.target \in DOMAIN rows
  /\ pc.at \in {"created", "activated"} =>
       /\ pc.since <= commits
       /\ pc.since = commits => pc.found = {i \in DOMAIN rows : rows[i].isActive}

FormFits(fm, rows) ==
  /\ fm.base \in DOMAIN rows
  /\ \A k \in Keys \ fm.changed : fm.numbers[k] = rows[fm.base].numbers[k]

AllFit ==
  \A a \in Editors :
    ListFits(cached[a], sets) /\ CallFits(update[a], sets, committed) /\ FormFits(form[a], sets)

(* A row of the log was hashed with an earlier one; as many rows and       *)
(* writers share one as there were writers when it was the last.           *)
RowsAfter(p) == {i \in DOMAIN log : log[i].prev = p}
Writers(p) == {a \in Editors : update[a].at = "write" /\ update[a].prev = p}

ChainInv ==
  /\ \A i \in DOMAIN log : log[i].prev < i
  /\ \A a \in Editors : update[a].at = "write" => update[a].prev <= Len(log)
  /\ \A p \in Nat : Cardinality(RowsAfter(p)) + Cardinality(Writers(p)) <= Cardinality(Editors)

Recording == {a \in Editors : update[a].at \in {"record", "write"}}

CountInv == committed - Len(log) <= stops + Cardinality(Recording)

SettingsInv == SettingsTyped /\ AllFit /\ OneActive /\ ChainInv /\ CountInv

WritersNext(p) == {a \in Editors : update'[a].at = "write" /\ update'[a].prev = p}
RecordingNext == {a \in Editors : update'[a].at \in {"record", "write"}}

-----------------------------------------------------------------------------

LEMMA UpdateKinds ==
  ASSUME SettingsTyped, NEW a \in Editors
  PROVE  /\ update[a].at = "activate" => update[a] \in [at : {"activate"}, target : Id]
         /\ update[a].at = "created" => update[a] \in [at : {"created"}, found : SUBSET Id, since : Nat]
         /\ update[a].at = "activated" =>
              update[a] \in [at : {"activated"}, target : Id, found : SUBSET Id, since : Nat]
         /\ update[a].at = "record" => update[a] \in [at : {"record"}, page : BOOLEAN]
         /\ update[a].at = "write" => update[a] \in [at : {"write"}, page : BOOLEAN, prev : Nat]
<1>1. update[a] \in Updates
  BY DEF SettingsTyped
<1> QED
  BY <1>1 DEF Updates, NoUpdate

LEMMA SetRowsTyped ==
  ASSUME SettingsTyped
  PROVE  /\ Len(sets) \in Nat /\ DOMAIN sets = 1..Len(sets)
         /\ sets \in [DOMAIN sets -> SetRows] /\ \A i \in DOMAIN sets : sets[i] \in SetRows /\ i \in Id
         /\ Len(log) \in Nat /\ DOMAIN log = 1..Len(log)
         /\ \A i \in DOMAIN log : log[i] \in [prev : Nat]
<1>1. sets \in Seq(SetRows) /\ log \in Seq([prev : Nat])
  BY DEF SettingsTyped
<1>2. /\ Len(sets) \in Nat /\ DOMAIN sets = 1..Len(sets) /\ sets \in [1..Len(sets) -> SetRows]
      /\ Len(log) \in Nat /\ DOMAIN log = 1..Len(log) /\ log \in [1..Len(log) -> [prev : Nat]]
  BY <1>1, LenProperties
<1> QED
  BY <1>2 DEF Id

LEMMA Counted ==
  ASSUME SettingsTyped
  PROVE  /\ IsFiniteSet(Editors) /\ Cardinality(Editors) \in Nat
         /\ IsFiniteSet(Recording) /\ Cardinality(Recording) \in Nat
         /\ IsFiniteSet(RecordingNext) /\ Cardinality(RecordingNext) \in Nat
         /\ \A p : /\ IsFiniteSet(Writers(p)) /\ Cardinality(Writers(p)) \in Nat
                   /\ IsFiniteSet(WritersNext(p)) /\ Cardinality(WritersNext(p)) \in Nat
                   /\ Cardinality(WritersNext(p)) <= Cardinality(Editors)
                   /\ IsFiniteSet(RowsAfter(p)) /\ Cardinality(RowsAfter(p)) \in Nat
<1>1. IsFiniteSet(Editors)
  BY SettingsAssumption
<1>2. IsFiniteSet(DOMAIN log)
  <2>1. 1 \in Int /\ Len(log) \in Int /\ DOMAIN log = 1..Len(log)
    BY SetRowsTyped
  <2>2. IsFiniteSet(1..Len(log))
    BY <2>1, FS_Interval
  <2> QED
    BY <2>1, <2>2
<1>3. /\ Recording \subseteq Editors /\ RecordingNext \subseteq Editors
      /\ \A p : Writers(p) \subseteq Editors /\ WritersNext(p) \subseteq Editors /\ RowsAfter(p) \subseteq DOMAIN log
  BY DEF Recording, RecordingNext, Writers, WritersNext, RowsAfter
<1> QED
  BY <1>1, <1>2, <1>3, FS_Subset, FS_CardinalityType

LEMMA ShownFits ==
  ASSUME NEW rows \in Seq(SetRows), NEW list, ListFits(list, rows)
  PROVE  Shown(list) \in DOMAIN rows
<1>1. Len(rows) \in Nat /\ DOMAIN rows = 1..Len(rows)
  BY LenProperties
<1>2. CASE list.active # {}
  <2>1. list.active \in SUBSET (1..Len(rows))
    BY <1>1 DEF ListFits
  <2>2. \E i \in list.active : \A j \in list.active : j <= i
    BY <1>1, <1>2, <2>1, HasLargest
  <2>3. \E i \in list.active : \A j \in list.active : i >= j
    BY <1>1, <2>1, <2>2
  <2>4. Max(list.active) \in list.active
    BY <2>3 DEF Max
  <2> QED
    BY <1>2, <2>4 DEF Shown, ListFits
<1> QED
  BY <1>2 DEF Shown, ListFits

LEMMA SeededFits ==
  ASSUME SettingsTyped, NEW list, ListFits(list, sets)
  PROVE  SeededForm(list) \in Forms /\ FormFits(SeededForm(list), sets)
<1>1. sets \in Seq(SetRows)
  BY DEF SettingsTyped
<1>2. Shown(list) \in DOMAIN sets
  BY <1>1, ShownFits
<1>3. sets[Shown(list)] \in SetRows /\ Shown(list) \in Id
  BY <1>2, SetRowsTyped
<1> QED
  BY <1>2, <1>3 DEF SeededForm, Forms, SetRows, FormFits

LEMMA ListedFits ==
  ASSUME SettingsTyped, ActiveSets # {}
  PROVE  Listed \in Lists /\ ListFits(Listed, sets)
<1>1. ActiveSets \subseteq DOMAIN sets /\ Len(sets) \in DOMAIN sets
  BY SetRowsTyped DEF ActiveSets
<1> QED
  BY <1>1, SetRowsTyped DEF Listed, Lists, ListFits

-----------------------------------------------------------------------------

(* A step of the page alone.                                               *)
LEMMA PageStep ==
  ASSUME SettingsInv, UNCHANGED <<sets, update, log, committed, beside, stops>>,
         cached' \in [Editors -> Lists], form' \in [Editors -> Forms],
         \A a \in Editors : ListFits(cached'[a], sets) /\ FormFits(form'[a], sets)
  PROVE  SettingsInv'
<1>1. SettingsTyped'
  BY DEF SettingsInv, SettingsTyped
<1>2. AllFit'
  BY DEF SettingsInv, AllFit
<1>3. OneActive' /\ ChainInv' /\ CountInv'
  BY DEF SettingsInv, OneActive, ActiveSets, ChainInv, RowsAfter, Writers, CountInv, Recording
<1> QED
  BY <1>1, <1>2, <1>3 DEF SettingsInv

(* A step of one call, before or after its commit.  Who begins to write    *)
(* has read the log's last row, and who stops recording is stopped.        *)
CallMoves(a, pc) ==
  /\ UNCHANGED <<sets, cached, form, log, committed, beside>>
  /\ update' = [update EXCEPT ![a] = pc]
  /\ CallFits(pc, sets, committed)
  /\ pc.at = "write" => pc.prev = Len(log)
  /\ stops' \in Nat /\ stops <= stops'
  /\ update[a].at \in {"record", "write"} => pc.at \in {"record", "write"} \/ stops' = stops + 1

LEMMA CallStep ==
  ASSUME SettingsInv, NEW a \in Editors, NEW pc \in Updates, CallMoves(a, pc)
  PROVE  SettingsInv'
<1> USE DEF CallMoves
<1>1. SettingsTyped /\ \A b \in Editors : update'[b] = IF b = a THEN pc ELSE update[b]
  BY DEF SettingsInv, SettingsTyped
<1>2. SettingsTyped'
  BY DEF SettingsInv, SettingsTyped
<1>3. AllFit'
  BY <1>1 DEF SettingsInv, AllFit
<1>4. OneActive'
  BY DEF SettingsInv, OneActive, ActiveSets
<1>5. ChainInv'
  <2>1. \A i \in DOMAIN log : log[i].prev < i
    BY DEF SettingsInv, ChainInv
  <2>2. \A b \in Editors : update'[b].at = "write" => update'[b].prev <= Len(log)
    BY <1>1, SetRowsTyped DEF SettingsInv, ChainInv
  <2>3. ASSUME NEW p \in Nat
        PROVE  Cardinality(RowsAfter(p)) + Cardinality(WritersNext(p)) <= Cardinality(Editors)
    <3>1. CASE p = Len(log)
      <4>1. RowsAfter(p) = {}
        BY <1>1, <2>1, <3>1, SetRowsTyped DEF RowsAfter
      <4>2. Cardinality(RowsAfter(p)) = 0
        BY <4>1, FS_EmptySet
      <4> QED
        BY <1>1, <4>2, Counted
    <3>2. CASE p # Len(log)
      <4>1. WritersNext(p) \subseteq Writers(p)
        BY <1>1, <3>2 DEF WritersNext, Writers
      <4>2. Cardinality(WritersNext(p)) <= Cardinality(Writers(p))
        BY <1>1, <4>1, Counted, FS_Subset
      <4>3. Cardinality(RowsAfter(p)) + Cardinality(Writers(p)) <= Cardinality(Editors)
        BY DEF SettingsInv, ChainInv
      <4> QED
        BY <1>1, <4>2, <4>3, Counted
    <3> QED
      BY <3>1, <3>2
  <2> QED
    BY <2>1, <2>2, <2>3 DEF ChainInv, RowsAfter, Writers, WritersNext
<1>6. CountInv'
  <2>1. committed - Len(log) <= stops + Cardinality(Recording)
    BY DEF SettingsInv, CountInv
  <2>2. committed \in Nat /\ Len(log) \in Nat /\ stops \in Nat
    BY <1>1, SetRowsTyped DEF SettingsTyped
  <2>3. Cardinality(Recording) <= Cardinality(RecordingNext) + (stops' - stops)
    <3>1. CASE Recording \subseteq RecordingNext
      <4>1. Cardinality(Recording) <= Cardinality(RecordingNext)
        BY <1>1, <3>1, Counted, FS_Subset
      <4> QED
        BY <1>1, <2>2, <4>1, Counted
    <3>2. CASE ~(Recording \subseteq RecordingNext)
      <4>1. a \in Recording /\ a \notin RecordingNext /\ stops' = stops + 1
        BY <1>1, <3>2 DEF Recording, RecordingNext
      <4>2. Recording \ {a} \subseteq RecordingNext
        BY <1>1 DEF Recording, RecordingNext
      <4>3. Cardinality(Recording \ {a}) <= Cardinality(RecordingNext)
        BY <1>1, <4>2, Counted, FS_Subset
      <4>4. Cardinality(Recording \ {a}) = Cardinality(Recording) - 1
        BY <1>1, <4>1, Counted, FS_RemoveElement
      <4> QED
        BY <1>1, <2>2, <4>1, <4>3, <4>4, Counted
    <3> QED
      BY <3>1, <3>2
  <2>4. committed - Len(log) <= stops' + Cardinality(RecordingNext)
    BY <1>1, <2>1, <2>2, <2>3, Counted
  <2> QED
    BY <2>4 DEF CountInv, Recording, RecordingNext
<1> QED
  BY <1>2, <1>3, <1>4, <1>5, <1>6 DEF SettingsInv

LEMMA SwitchedRows ==
  ASSUME NEW rows \in Seq(SetRows), NEW found, NEW target
  PROVE  /\ Switched(rows, found, target) \in Seq(SetRows)
         /\ DOMAIN Switched(rows, found, target) = DOMAIN rows
         /\ \A i \in DOMAIN rows :
              /\ Switched(rows, found, target)[i].numbers = rows[i].numbers
              /\ Switched(rows, found, target)[i].isActive
                   <=> (i = target \/ (rows[i].isActive /\ i \notin found))
<1>1. \A i \in DOMAIN rows : rows[i] \in SetRows
  BY ElementOfSeq, LenProperties
<1>2. Switched(rows, found, target) \in [DOMAIN rows -> SetRows]
  BY <1>1 DEF Switched, SetRows
<1>3. Switched(rows, found, target) \in Seq(SetRows) /\ DOMAIN Switched(rows, found, target) = DOMAIN rows
  BY <1>2, Mapped
<1>4. ASSUME NEW i \in DOMAIN rows
      PROVE  /\ Switched(rows, found, target)[i].numbers = rows[i].numbers
             /\ Switched(rows, found, target)[i].isActive
                  <=> (i = target \/ (rows[i].isActive /\ i \notin found))
  BY <1>1 DEF Switched, SetRows
<1> QED
  BY <1>3, <1>4

LEMMA AddOne ==
  ASSUME NEW S, IsFiniteSet(S), NEW x
  PROVE  IsFiniteSet(S \cup {x}) /\ Cardinality(S \cup {x}) <= Cardinality(S) + 1
<1>1. Cardinality(S) \in Nat
  BY FS_CardinalityType
<1>2. CASE x \in S
  <2>1. S \cup {x} = S
    BY <1>2
  <2>2. IsFiniteSet(S \cup {x}) /\ Cardinality(S \cup {x}) = Cardinality(S)
    BY <2>1
  <2> QED
    BY <1>1, <2>2
<1>3. CASE x \notin S
  <2>1. IsFiniteSet(S \cup {x}) /\ Cardinality(S \cup {x}) = Cardinality(S) + 1
    BY <1>3, FS_AddElement
  <2> QED
    BY <1>1, <2>1
<1> QED
  BY <1>2, <1>3

(* The two commits: base is the table with the row the transaction creates,*)
(* if it does.                                                             *)
Commits(a, pc, base, target) ==
  /\ update[a].at \in {"created", "activated"}
  /\ DOMAIN sets \subseteq DOMAIN base /\ \A i \in DOMAIN sets : base[i] = sets[i]
  /\ target \in DOMAIN base /\ \A i \in DOMAIN base : i \in DOMAIN sets \/ i = target
  /\ sets' = Switched(base, update[a].found, target)
  /\ committed' = committed + 1 /\ update' = [update EXCEPT ![a] = pc]
  /\ beside' = IF update[a].since = committed THEN 0 ELSE beside + 1
  /\ UNCHANGED <<cached, form, log, stops>>

(* If nobody committed since its first statement a transaction leaves its  *)
(* own version active and no other; otherwise at most one more than before.*)
LEMMA CommitStep ==
  ASSUME SettingsInv, NEW a \in Editors, NEW pc \in [at : {"record"}, page : BOOLEAN],
         NEW base \in Seq(SetRows), NEW target, Commits(a, pc, base, target)
  PROVE  /\ SettingsInv'
         /\ DOMAIN sets' = DOMAIN base
         /\ \A i \in DOMAIN base : sets'[i].numbers = base[i].numbers
<1> DEFINE Active == {i \in DOMAIN sets' : sets'[i].isActive}
<1> USE DEF Commits
<1>1. SettingsTyped /\ \A b \in Editors : update'[b] = IF b = a THEN pc ELSE update[b]
  BY DEF SettingsInv, SettingsTyped
<1>2. /\ sets' \in Seq(SetRows) /\ DOMAIN sets' = DOMAIN base
      /\ \A i \in DOMAIN base :
           /\ sets'[i].numbers = base[i].numbers
           /\ sets'[i].isActive <=> (i = target \/ (base[i].isActive /\ i \notin update[a].found))
  BY SwitchedRows
<1>3. update[a].since \in Nat /\ update[a].since <= committed /\ committed \in Nat /\ beside \in Nat
      /\ (update[a].since = committed => update[a].found = ActiveSets)
  BY <1>1, UpdateKinds DEF SettingsInv, AllFit, CallFits, ActiveSets, SettingsTyped
<1>4. committed' = committed + 1 /\ beside' \in Nat
  BY <1>3
<1>5. pc \in Updates /\ pc.at = "record"
  BY DEF Updates
<1>6. SettingsTyped'
  BY <1>1, <1>2, <1>3, <1>4, <1>5 DEF SettingsTyped
<1>7. AllFit'
  <2> SUFFICES ASSUME NEW b \in Editors
               PROVE  /\ ListFits(cached[b], sets') /\ CallFits(update'[b], sets', committed')
                      /\ FormFits(form[b], sets')
    BY DEF AllFit
  <2>1. ListFits(cached[b], sets) /\ CallFits(update[b], sets, committed) /\ FormFits(form[b], sets)
    BY DEF SettingsInv, AllFit
  <2>2. ListFits(cached[b], sets') /\ FormFits(form[b], sets')
    BY <1>2, <2>1 DEF ListFits, FormFits
  <2>3. CASE b = a
    BY <1>1, <1>5, <2>2, <2>3 DEF CallFits
  <2>4. CASE b # a
    <3>1. update'[b] = update[b] /\ (update[b].at \in {"created", "activated"} => update[b].since \in Nat)
      BY <1>1, <2>4, UpdateKinds
    <3>2. CallFits(update[b], sets', committed')
      BY <1>2, <1>3, <1>4, <2>1, <3>1 DEF CallFits
    <3> QED
      BY <2>2, <3>1, <3>2
  <2> QED
    BY <2>3, <2>4
<1>8. OneActive'
  <2>1. target \in Active /\ Active \subseteq ActiveSets \cup {target}
    BY <1>2 DEF ActiveSets
  <2>2. IsFiniteSet(ActiveSets) /\ Cardinality(ActiveSets) \in Nat
    <3>1. 1 \in Int /\ Len(sets) \in Int /\ DOMAIN sets = 1..Len(sets)
      BY <1>1, SetRowsTyped
    <3>2. IsFiniteSet(DOMAIN sets) /\ ActiveSets \subseteq DOMAIN sets
      BY <3>1, FS_Interval DEF ActiveSets
    <3> QED
      BY <3>2, FS_Subset, FS_CardinalityType
  <2>3. Cardinality(Active) <= 1 + beside'
    <3>1. CASE update[a].since = committed
      <4>1. Active = {target}
        BY <1>2, <1>3, <2>1, <3>1 DEF ActiveSets
      <4>2. Cardinality(Active) = 1
        BY <4>1, FS_Singleton
      <4> QED
        BY <3>1, <4>2
    <3>2. CASE update[a].since # committed
      <4>1. /\ IsFiniteSet(ActiveSets \cup {target})
            /\ Cardinality(ActiveSets \cup {target}) <= Cardinality(ActiveSets) + 1
        BY <2>2, AddOne
      <4>2. Cardinality(Active) <= Cardinality(ActiveSets \cup {target}) /\ IsFiniteSet(Active)
        BY <2>1, <4>1, FS_Subset
      <4>3. Cardinality(ActiveSets) <= 1 + beside
        BY DEF SettingsInv, OneActive
      <4>4. Cardinality(ActiveSets \cup {target}) \in Nat /\ Cardinality(Active) \in Nat
        BY <4>1, <4>2, FS_CardinalityType
      <4> QED
        BY <1>3, <1>4, <2>2, <3>2, <4>1, <4>2, <4>3, <4>4
    <3> QED
      BY <3>1, <3>2
  <2> QED
    BY <2>1, <2>3 DEF OneActive, ActiveSets
<1>9. ChainInv'
  <2>1. \A p : WritersNext(p) = Writers(p)
    BY <1>1, <1>5 DEF WritersNext, Writers
  <2>2. \A b \in Editors : update'[b].at = "write" => update'[b].prev <= Len(log)
    BY <1>1, <1>5 DEF SettingsInv, ChainInv
  <2> QED
    BY <2>1, <2>2 DEF SettingsInv, ChainInv, RowsAfter, Writers, WritersNext
<1>10. CountInv'
  <2>1. a \notin Recording /\ RecordingNext = Recording \cup {a}
    BY <1>1, <1>5 DEF Recording, RecordingNext
  <2>2. Cardinality(RecordingNext) = Cardinality(Recording) + 1
    BY <1>1, <2>1, Counted, FS_AddElement
  <2>3. committed - Len(log) <= stops + Cardinality(Recording) /\ Len(log) \in Nat /\ stops \in Nat
    BY <1>1, SetRowsTyped DEF SettingsInv, CountInv, SettingsTyped
  <2>4. committed' - Len(log) <= stops + Cardinality(RecordingNext)
    BY <1>1, <1>3, <1>4, <2>2, <2>3, Counted
  <2> QED
    BY <2>4 DEF CountInv, Recording, RecordingNext
<1> QED
  BY <1>2, <1>6, <1>7, <1>8, <1>9, <1>10 DEF SettingsInv

LEMMA CreateStep ==
  ASSUME SettingsInv, NEW a \in Editors, CreateCommit(a)
  PROVE  /\ SettingsInv' /\ Len(sets') = Len(sets) + 1
         /\ sets'[Len(sets')].numbers = form[a].numbers
<1> DEFINE row == [numbers |-> form[a].numbers, isActive |-> TRUE]
           base == Append(sets, row)
           target == Len(sets) + 1
           pc == [at |-> "record", page |-> TRUE]
<1>1. sets \in Seq(SetRows) /\ row \in SetRows
  BY DEF SettingsInv, SettingsTyped, Forms, SetRows
<1>2. /\ base \in Seq(SetRows) /\ DOMAIN sets = 1..Len(sets) /\ DOMAIN base = 1..target
      /\ \A i \in DOMAIN sets : base[i] = sets[i]
      /\ base[target] = row /\ Len(sets) \in Nat /\ target \in Nat \ {0}
  BY <1>1, Appended, LenProperties
<1>3. /\ update[a].at = "created" /\ sets' = Switched(base, update[a].found, target)
      /\ committed' = committed + 1 /\ update' = [update EXCEPT ![a] = pc]
      /\ beside' = IF update[a].since = committed THEN 0 ELSE beside + 1
      /\ UNCHANGED <<cached, form, log, stops>>
  BY DEF CreateCommit, Commit, ContinueUpdate
<1>4. row.numbers = form[a].numbers /\ pc \in [at : {"record"}, page : BOOLEAN]
  OBVIOUS
<1> HIDE DEF row, base, target, pc
<1>5. /\ SettingsInv' /\ DOMAIN sets' = DOMAIN base
      /\ \A i \in DOMAIN base : sets'[i].numbers = base[i].numbers
  <2>1. \A i \in DOMAIN base : i \in DOMAIN sets \/ i = target
    BY <1>2 DEF target
  <2>2. DOMAIN sets \subseteq DOMAIN base /\ target \in DOMAIN base
    BY <1>2 DEF target
  <2>3. Commits(a, pc, base, target)
    BY <1>2, <1>3, <2>1, <2>2 DEF Commits
  <2> QED
    BY <1>2, <1>4, <2>3, CommitStep
<1>6. Len(sets') = target
  <2>1. sets' \in Seq(SetRows)
    BY <1>5 DEF SettingsInv, SettingsTyped
  <2>2. Len(sets') \in Nat /\ DOMAIN sets' = 1..Len(sets')
    BY <2>1, LenProperties
  <2> QED
    BY <1>2, <1>5, <2>2
<1>7. target \in DOMAIN base
  BY <1>2
<1> QED
  BY <1>2, <1>4, <1>5, <1>6, <1>7 DEF target

LEMMA ActivateStep ==
  ASSUME SettingsInv, NEW a \in Editors, ActivateCommit(a)
  PROVE  SettingsInv'
<1>1. sets \in Seq(SetRows) /\ update[a].target \in DOMAIN sets
  BY DEF SettingsInv, SettingsTyped, AllFit, CallFits, ActivateCommit
<1> DEFINE pc == [at |-> "record", page |-> FALSE]
<1>2. /\ update[a].at = "activated" /\ sets' = Switched(sets, update[a].found, update[a].target)
      /\ committed' = committed + 1 /\ update' = [update EXCEPT ![a] = pc]
      /\ beside' = IF update[a].since = committed THEN 0 ELSE beside + 1
      /\ UNCHANGED <<cached, form, log, stops>>
  BY DEF ActivateCommit, Commit, ContinueUpdate
<1>3. pc \in [at : {"record"}, page : BOOLEAN]
  OBVIOUS
<1> HIDE DEF pc
<1>4. Commits(a, pc, sets, update[a].target)
  BY <1>1, <1>2 DEF Commits
<1> QED
  BY <1>1, <1>3, <1>4, CommitStep

(* The row that is written takes the place of its writer.                  *)
LEMMA WriteStep ==
  ASSUME SettingsInv, NEW a \in Editors, RecordWrite(a)
  PROVE  SettingsInv'
<1> DEFINE new == [prev |-> update[a].prev]
           last == Len(log) + 1
           RowsNext(p) == {i \in DOMAIN log' : log'[i].prev = p}
<1>1. SettingsTyped /\ update[a].at = "write" /\ log \in Seq([prev : Nat])
  BY DEF SettingsInv, SettingsTyped, RecordWrite
<1>2. update[a].prev \in Nat /\ update[a].prev <= Len(log) /\ Len(log) \in Nat
  BY <1>1, UpdateKinds, SetRowsTyped DEF SettingsInv, ChainInv
<1>3. new \in [prev : Nat] /\ new.prev = update[a].prev
  BY <1>2
<1>4. log' = Append(log, new) /\ update' = [update EXCEPT ![a] = NoUpdate]
      /\ UNCHANGED <<sets, cached, committed, beside, stops>>
      /\ form' = IF update[a].page THEN [form EXCEPT ![a] = SeededForm(cached[a])] ELSE form
  BY DEF RecordWrite, ContinueUpdate
<1> HIDE DEF new
<1>5. /\ log' \in Seq([prev : Nat]) /\ DOMAIN log = 1..Len(log) /\ DOMAIN log' = 1..last
      /\ \A i \in DOMAIN log : log'[i] = log[i]
      /\ log'[last] = new
  BY <1>1, <1>3, <1>4, Appended
<1>6. Len(log') = last
  <2>1. Len(log') \in Nat /\ DOMAIN log' = 1..Len(log')
    BY <1>5, LenProperties
  <2> QED
    BY <1>2, <1>5, <2>1
<1>7. \A b \in Editors : update'[b] = IF b = a THEN NoUpdate ELSE update[b]
  BY <1>1, <1>4 DEF SettingsTyped
<1>8. NoUpdate \in Updates /\ NoUpdate.at = "idle"
  BY DEF NoUpdate, Updates
<1>9. SeededForm(cached[a]) \in Forms /\ FormFits(SeededForm(cached[a]), sets)
  BY <1>1, SeededFits DEF SettingsInv, AllFit
<1>10. form' \in [Editors -> Forms] /\ \A b \in Editors : FormFits(form'[b], sets)
  BY <1>1, <1>4, <1>9 DEF SettingsTyped, SettingsInv, AllFit
<1>11. SettingsTyped'
  BY <1>1, <1>4, <1>5, <1>8, <1>10 DEF SettingsTyped
<1>12. AllFit'
  <2>1. \A b \in Editors : CallFits(update'[b], sets, committed)
    BY <1>7, <1>8 DEF SettingsInv, AllFit, CallFits
  <2> QED
    BY <1>4, <1>10, <2>1 DEF SettingsInv, AllFit
<1>13. OneActive'
  BY <1>4 DEF SettingsInv, OneActive, ActiveSets
<1>14. ChainInv'
  <2>1. \A i \in DOMAIN log' : log'[i].prev < i
    BY <1>2, <1>3, <1>5 DEF SettingsInv, ChainInv
  <2>2. \A b \in Editors : update'[b].at = "write" => update'[b].prev <= Len(log')
    <3>1. \A b \in Editors : update[b].at = "write" => update[b].prev \in Nat /\ update[b].prev <= Len(log)
      BY <1>1, UpdateKinds DEF SettingsInv, ChainInv
    <3> QED
      BY <1>2, <1>6, <1>7, <1>8, <3>1
  <2>3. ASSUME NEW p \in Nat
        PROVE  Cardinality(RowsNext(p)) + Cardinality(WritersNext(p)) <= Cardinality(Editors)
    <3>1. Cardinality(RowsAfter(p)) + Cardinality(Writers(p)) <= Cardinality(Editors)
      BY DEF SettingsInv, ChainInv
    <3>2. CASE p = update[a].prev
      <4>1. last \notin RowsAfter(p) /\ RowsNext(p) = RowsAfter(p) \cup {last}
        BY <1>2, <1>3, <1>5, <3>2 DEF RowsAfter
      <4>2. Cardinality(RowsNext(p)) = Cardinality(RowsAfter(p)) + 1
        BY <1>1, <4>1, Counted, FS_AddElement
      <4>3. a \in Writers(p) /\ WritersNext(p) = Writers(p) \ {a}
        BY <1>1, <1>7, <1>8, <3>2 DEF Writers, WritersNext
      <4>4. Cardinality(WritersNext(p)) = Cardinality(Writers(p)) - 1
        BY <1>1, <4>3, Counted, FS_RemoveElement
      <4> QED
        BY <1>1, <3>1, <4>2, <4>4, Counted
    <3>3. CASE p # update[a].prev
      <4>1. RowsNext(p) = RowsAfter(p)
        BY <1>2, <1>3, <1>5, <3>3 DEF RowsAfter
      <4>2. WritersNext(p) = Writers(p)
        BY <1>7, <1>8, <3>3 DEF Writers, WritersNext
      <4> QED
        BY <3>1, <4>1, <4>2
    <3> QED
      BY <3>2, <3>3
  <2> QED
    BY <2>1, <2>2, <2>3 DEF ChainInv, RowsAfter, Writers, WritersNext
<1>15. CountInv'
  <2>1. a \in Recording /\ RecordingNext = Recording \ {a}
    BY <1>1, <1>7, <1>8 DEF Recording, RecordingNext
  <2>2. Cardinality(RecordingNext) = Cardinality(Recording) - 1
    BY <1>1, <2>1, Counted, FS_RemoveElement
  <2>3. committed - Len(log) <= stops + Cardinality(Recording) /\ committed \in Nat /\ stops \in Nat
    BY <1>1 DEF SettingsInv, CountInv, SettingsTyped
  <2>4. committed - Len(log') <= stops + Cardinality(RecordingNext)
    BY <1>1, <1>2, <1>6, <2>2, <2>3, Counted
  <2> QED
    BY <1>4, <2>4 DEF CountInv, Recording, RecordingNext
<1> QED
  BY <1>11, <1>12, <1>13, <1>14, <1>15 DEF SettingsInv

-----------------------------------------------------------------------------

LEMMA PageSteps ==
  ASSUME SettingsInv, NEW a \in Editors,
         Refetch(a) \/ Reload(a) \/ \E k \in Keys, v \in Values : Edit(a, k, v)
  PROVE  SettingsInv'
<1>1. SettingsTyped /\ Listed \in Lists /\ ListFits(Listed, sets)
      /\ SeededForm(Listed) \in Forms /\ FormFits(SeededForm(Listed), sets)
  BY ListedFits, SeededFits DEF SettingsInv, OneActive
<1> HIDE DEF Listed, SeededForm
<1>2. \A b \in Editors : ListFits(cached[b], sets) /\ FormFits(form[b], sets) /\ form[b] \in Forms
  BY DEF SettingsInv, AllFit, SettingsTyped
<1>3. CASE Refetch(a)
  <2>1. cached' \in [Editors -> Lists] /\ \A b \in Editors : ListFits(cached'[b], sets)
    BY <1>1, <1>2, <1>3 DEF Refetch, SettingsTyped
  <2> QED
    BY <1>1, <1>2, <1>3, <2>1, PageStep DEF Refetch, SettingsTyped
<1>4. CASE Reload(a)
  <2>1. cached' \in [Editors -> Lists] /\ \A b \in Editors : ListFits(cached'[b], sets)
    BY <1>1, <1>2, <1>4 DEF Reload, SettingsTyped
  <2>2. form' \in [Editors -> Forms] /\ \A b \in Editors : FormFits(form'[b], sets)
    BY <1>1, <1>2, <1>4 DEF Reload, SettingsTyped
  <2> QED
    BY <1>1, <1>4, <2>1, <2>2, PageStep DEF Reload
<1>5. ASSUME NEW k \in Keys, NEW v \in Values, Edit(a, k, v) PROVE SettingsInv'
  <2> DEFINE edited == [form[a] EXCEPT !.numbers[k] = v, !.changed = @ \cup {k}]
  <2>1. form' = [form EXCEPT ![a] = edited] /\ UNCHANGED <<sets, cached, update, log, committed, beside, stops>>
    BY <1>5 DEF Edit
  <2>2. edited \in Forms /\ FormFits(edited, sets)
    BY <1>2 DEF Forms, FormFits
  <2> HIDE DEF edited
  <2>3. form' \in [Editors -> Forms] /\ \A b \in Editors : FormFits(form'[b], sets)
    BY <1>1, <1>2, <2>1, <2>2 DEF SettingsTyped
  <2>4. cached' \in [Editors -> Lists] /\ \A b \in Editors : ListFits(cached'[b], sets)
    BY <1>1, <1>2, <2>1 DEF SettingsTyped
  <2> QED
    BY <2>1, <2>3, <2>4, PageStep
<1> QED
  BY <1>3, <1>4, <1>5

LEMMA CallSteps ==
  ASSUME SettingsInv, NEW a \in Editors,
         \/ Save(a) \/ CreateDeactivate(a) \/ ActivateDeactivate(a) \/ RecordRead(a) \/ Stop(a)
         \/ \E i \in DOMAIN sets : ActivateCall(a, i)
  PROVE  SettingsInv'
<1>1. SettingsTyped /\ committed \in Nat /\ stops \in Nat /\ CallFits(update[a], sets, committed) /\ NoUpdate.at = "idle"
  BY DEF SettingsInv, SettingsTyped, AllFit, NoUpdate
<1>2. ActiveSets \in SUBSET Id
  BY <1>1, SetRowsTyped DEF ActiveSets
<1>3. CASE Save(a)
  <2> DEFINE pc == [at |-> "create"]
  <2>1. pc \in Updates /\ CallFits(pc, sets, committed) /\ pc.at # "write"
    BY DEF Updates, CallFits
  <2> HIDE DEF pc
  <2>2. update' = [update EXCEPT ![a] = pc] /\ update[a].at = "idle"
        /\ UNCHANGED <<sets, cached, form, log, committed, beside, stops>>
    BY <1>1, <1>3 DEF Save, BeginUpdate, ContinueUpdate, pc
  <2>3. CallMoves(a, pc)
    BY <1>1, <2>1, <2>2 DEF CallMoves
  <2> QED
    BY <2>1, <2>3, CallStep
<1>4. ASSUME NEW i \in DOMAIN sets, ActivateCall(a, i) PROVE SettingsInv'
  <2> DEFINE pc == [at |-> "activate", target |-> i]
  <2>1. pc \in Updates /\ CallFits(pc, sets, committed) /\ pc.at # "write"
    BY <1>1, SetRowsTyped DEF Updates, CallFits
  <2> HIDE DEF pc
  <2>2. update' = [update EXCEPT ![a] = pc] /\ update[a].at = "idle"
        /\ UNCHANGED <<sets, cached, form, log, committed, beside, stops>>
    BY <1>1, <1>4 DEF ActivateCall, BeginUpdate, ContinueUpdate, pc
  <2>3. CallMoves(a, pc)
    BY <1>1, <2>1, <2>2 DEF CallMoves
  <2> QED
    BY <2>1, <2>3, CallStep
<1>5. CASE CreateDeactivate(a)
  <2> DEFINE pc == [at |-> "created", found |-> ActiveSets, since |-> committed]
  <2>1. pc \in Updates /\ CallFits(pc, sets, committed) /\ pc.at # "write"
    BY <1>1, <1>2 DEF Updates, CallFits, ActiveSets
  <2> HIDE DEF pc
  <2>2. update' = [update EXCEPT ![a] = pc] /\ update[a].at = "create"
        /\ UNCHANGED <<sets, cached, form, log, committed, beside, stops>>
    BY <1>5 DEF CreateDeactivate, ContinueUpdate, pc
  <2>3. CallMoves(a, pc)
    BY <1>1, <2>1, <2>2 DEF CallMoves
  <2> QED
    BY <2>1, <2>3, CallStep
<1>6. CASE ActivateDeactivate(a)
  <2> DEFINE pc == [at |-> "activated", target |-> update[a].target,
                    found |-> ActiveSets, since |-> committed]
  <2>1. update[a].at = "activate" /\ update[a].target \in Id /\ update[a].target \in DOMAIN sets
    BY <1>1, <1>6, UpdateKinds DEF ActivateDeactivate, CallFits
  <2>2. pc \in Updates /\ CallFits(pc, sets, committed) /\ pc.at # "write"
    BY <1>1, <1>2, <2>1 DEF Updates, CallFits, ActiveSets
  <2> HIDE DEF pc
  <2>3. update' = [update EXCEPT ![a] = pc]
        /\ UNCHANGED <<sets, cached, form, log, committed, beside, stops>>
    BY <1>6 DEF ActivateDeactivate, ContinueUpdate, pc
  <2>4. CallMoves(a, pc)
    BY <1>1, <2>1, <2>2, <2>3 DEF CallMoves
  <2> QED
    BY <2>2, <2>4, CallStep
<1>7. CASE RecordRead(a)
  <2> DEFINE pc == [at |-> "write", page |-> update[a].page, prev |-> Len(log)]
  <2>1. update[a].at = "record" /\ update[a].page \in BOOLEAN
    BY <1>1, <1>7, UpdateKinds DEF RecordRead
  <2>2. pc \in Updates /\ CallFits(pc, sets, committed) /\ pc.at = "write" /\ pc.prev = Len(log)
    BY <1>1, <2>1, SetRowsTyped DEF Updates, CallFits
  <2> HIDE DEF pc
  <2>3. update' = [update EXCEPT ![a] = pc]
        /\ UNCHANGED <<sets, cached, form, log, committed, beside, stops>>
    BY <1>7 DEF RecordRead, ContinueUpdate, pc
  <2>4. CallMoves(a, pc)
    BY <1>1, <2>1, <2>2, <2>3 DEF CallMoves
  <2> QED
    BY <2>2, <2>4, CallStep
<1>8. CASE Stop(a)
  <2>1. NoUpdate \in Updates /\ CallFits(NoUpdate, sets, committed) /\ NoUpdate.at # "write"
    BY DEF NoUpdate, Updates, CallFits
  <2>2. update' = [update EXCEPT ![a] = NoUpdate] /\ stops' = stops + 1
        /\ UNCHANGED <<sets, cached, form, log, committed, beside>>
    BY <1>8 DEF Stop, ContinueUpdate
  <2>3. CallMoves(a, NoUpdate)
    BY <1>1, <2>1, <2>2 DEF CallMoves
  <2> QED
    BY <2>1, <2>3, CallStep
<1> QED
  BY <1>3, <1>4, <1>5, <1>6, <1>7, <1>8

LEMMA InitSettings == SettingsInit => SettingsInv
<1> SUFFICES ASSUME SettingsInit PROVE SettingsInv
  OBVIOUS
<1> DEFINE row == [numbers |-> Seeded, isActive |-> TRUE]
<1>1. row \in SetRows /\ row.isActive
  BY SettingsAssumption DEF SetRows
<1>2. sets = <<row>>
  BY DEF SettingsInit
<1> HIDE DEF row
<1>3. sets \in Seq(SetRows) /\ DOMAIN sets = {1} /\ Len(sets) = 1 /\ sets[1] = row
  BY <1>1, <1>2
<1>4. ActiveSets = {1}
  BY <1>1, <1>3 DEF ActiveSets
<1>5. Listed \in Lists /\ ListFits(Listed, sets)
  BY <1>3, <1>4 DEF Listed, Lists, ListFits, Id
<1>6. Shown(Listed) \in DOMAIN sets
  BY <1>3, <1>5, ShownFits
<1>7. SeededForm(Listed) \in Forms /\ FormFits(SeededForm(Listed), sets)
  BY <1>1, <1>3, <1>6 DEF SeededForm, Forms, SetRows, FormFits, Id
<1>8. \A a \in Editors : update[a] = NoUpdate /\ cached[a] = Listed /\ form[a] = SeededForm(Listed)
  BY DEF SettingsInit
<1>9. NoUpdate \in Updates /\ NoUpdate.at = "idle"
  BY DEF NoUpdate, Updates
<1>10. log = << >> /\ log \in Seq([prev : Nat]) /\ Len(log) = 0 /\ DOMAIN log = {}
  BY EmptySeq DEF SettingsInit
<1>11. SettingsTyped
  BY <1>3, <1>5, <1>7, <1>9, <1>10 DEF SettingsInit, SettingsTyped
<1>12. AllFit
  BY <1>5, <1>7, <1>8, <1>9 DEF AllFit, CallFits
<1>13. OneActive
  <2>1. Cardinality(ActiveSets) = 1 /\ beside = 0
    BY <1>4, FS_Singleton DEF SettingsInit
  <2> QED
    BY <1>4, <2>1 DEF OneActive
<1>14. ChainInv
  <2>1. \A p : RowsAfter(p) = {} /\ Writers(p) = {}
    BY <1>8, <1>9, <1>10 DEF RowsAfter, Writers
  <2>2. Cardinality({}) = 0
    BY FS_EmptySet
  <2>3. \A p : Cardinality(RowsAfter(p)) = 0 /\ Cardinality(Writers(p)) = 0
    BY <2>1, <2>2
  <2>4. Cardinality(Editors) \in Nat
    BY <1>11, Counted
  <2> QED
    BY <1>8, <1>9, <1>10, <2>3, <2>4 DEF ChainInv
<1>15. CountInv
  <2>1. committed = 0 /\ stops = 0 /\ Cardinality(Recording) \in Nat
    BY <1>11, Counted DEF SettingsInit
  <2> QED
    BY <1>10, <2>1 DEF CountInv
<1> QED
  BY <1>11, <1>12, <1>13, <1>14, <1>15 DEF SettingsInv

LEMMA NextSettings == SettingsInv /\ [SettingsNext]_settingsVars => SettingsInv'
<1> SUFFICES ASSUME SettingsInv, [SettingsNext]_settingsVars PROVE SettingsInv'
  OBVIOUS
<1>1. CASE UNCHANGED settingsVars
  BY <1>1 DEF settingsVars, SettingsInv, SettingsTyped, AllFit, OneActive, ActiveSets, ChainInv, RowsAfter, Writers,
              CountInv, Recording
<1>2. ASSUME NEW a \in Editors,
             \/ Refetch(a) \/ Reload(a) \/ Save(a) \/ CreateDeactivate(a) \/ CreateCommit(a)
             \/ \E k \in Keys, v \in Values : Edit(a, k, v)
             \/ \E i \in DOMAIN sets : ActivateCall(a, i)
             \/ ActivateDeactivate(a) \/ ActivateCommit(a)
             \/ RecordRead(a) \/ RecordWrite(a) \/ Stop(a)
      PROVE  SettingsInv'
  BY <1>2, PageSteps, CallSteps, CreateStep, ActivateStep, WriteStep
<1> QED
  BY <1>1, <1>2 DEF SettingsNext

LEMMA SettingsInvariance == SettingsSpec => []SettingsInv
BY InitSettings, NextSettings, PTL DEF SettingsSpec

-----------------------------------------------------------------------------

(* There is always an active version (createContest refuses without one,   *)
(* contests.service.ts), and never more than one for each commit in a row  *)
(* whose transaction did not see the one before it.                        *)
THEOREM SomeVersionActive == SettingsSpec => []OneActive
<1>1. SettingsInv => OneActive
  BY DEF SettingsInv
<1> QED
  BY <1>1, SettingsInvariance, PTL

(* A committed change of rules lacks its audit row only while its call     *)
(* runs, or if it was stopped; and the hash chain forks into no more rows  *)
(* than there are admins (audit.service.ts).                               *)
THEOREM ChangesAreAudited == SettingsSpec => []AuditTrail
<1>1. SettingsInv => AuditTrail
  <2> SUFFICES ASSUME SettingsInv PROVE AuditTrail
    OBVIOUS
  <2>1. SettingsTyped
    BY DEF SettingsInv
  <2>2. committed - Len(log) <= stops + Cardinality(Recording)
    BY DEF SettingsInv, CountInv
  <2>3. \A p \in 0..Len(log) : Cardinality(RowsAfter(p)) <= Cardinality(Editors)
    <3>1. \A p \in Nat : Cardinality(RowsAfter(p)) + Cardinality(Writers(p)) <= Cardinality(Editors)
      BY DEF SettingsInv, ChainInv
    <3>2. \A p \in 0..Len(log) : p \in Nat
      BY <2>1, SetRowsTyped
    <3> QED
      BY <2>1, <3>1, <3>2, Counted
  <2> QED
    BY <2>2, <2>3 DEF AuditTrail, Recording, RowsAfter
<1> QED
  BY <1>1, SettingsInvariance, PTL

(* A version created from a page that showed the active one differs from   *)
(* it in what its admin changed and in nothing else (settings/page.tsx     *)
(* fills the form from the version it shows, createRuleSet writes it).     *)
THEOREM NothingUntouchedChanges == SettingsSpec => UntouchedUnlessStale
<1>1. ASSUME SettingsInv, SettingsNext, NEW a \in Creating, Len(sets') > Len(sets), update'[a].at = "record",
             form[a].base \in ActiveSets, NEW k \in Keys \ form[a].changed
      PROVE  sets'[Len(sets')].numbers[k] = sets[form[a].base].numbers[k]
  <2>1. a \in Editors /\ update[a].at \in {"create", "created"} /\ SettingsTyped
    BY <1>1 DEF Creating, SettingsInv
  <2>2. CreateCommit(a)
    <3>1. \A pc : \A b \in Editors : update' = [update EXCEPT ![b] = pc] => b = a
      BY <1>1, <2>1 DEF SettingsTyped
    <3>2. sets' # sets
      BY <1>1, <2>1, SetRowsTyped
    <3>3. PICK b \in Editors : CreateCommit(b) \/ ActivateCommit(b)
      BY <1>1, <3>2 DEF SettingsNext, Refetch, Reload, Save, CreateDeactivate, Edit, ActivateCall,
                  ActivateDeactivate, RecordRead, RecordWrite, Stop
    <3>4. b = a
      BY <3>1, <3>3 DEF CreateCommit, ActivateCommit, Commit, ContinueUpdate
    <3> QED
      BY <2>1, <3>3, <3>4 DEF ActivateCommit
  <2>3. sets'[Len(sets')].numbers = form[a].numbers
    BY <1>1, <2>1, <2>2, CreateStep
  <2>4. FormFits(form[a], sets)
    BY <1>1, <2>1 DEF SettingsInv, AllFit
  <2> QED
    BY <1>1, <2>3, <2>4 DEF FormFits
<1>2. ASSUME SettingsInv, [SettingsNext]_settingsVars
      PROVE  [\A a \in Creating :
                Len(sets') > Len(sets) /\ update'[a].at = "record" /\ form[a].base \in ActiveSets
                  => \A k \in Keys \ form[a].changed :
                       sets'[Len(sets')].numbers[k] = sets[form[a].base].numbers[k]]_settingsVars
  BY <1>1, <1>2
<1> QED
  BY <1>2, SettingsInvariance, PTL DEF SettingsSpec, UntouchedUnlessStale
=============================================================================
