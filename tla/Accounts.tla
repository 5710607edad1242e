------------------------------ MODULE Accounts ------------------------------
(***************************************************************************)
(* One user's account: registration, one-time codes, sessions with         *)
(* rotating refresh tokens, password resets, and suspension by admins,     *)
(* with the browser tabs that call them.  Requests are processes that read *)
(* in one step and write in another, as the services do outside            *)
(* transactions.                                                           *)
(***************************************************************************)
EXTENDS Integers, Sequences, FiniteSets, SequencesExt

CONSTANTS
  Tabs, Browsers,
  BrowserOf,        \* whose cookie a tab sends
  Admins,
  MaxAttempts,      \* wrong codes until one is locked, 5 in the code
  MaxSessions,      \* bound: sessions opened or rotated to
  MaxCodes,         \* bound: codes issued
  MaxSuspensions    \* bound: admins' calls

ASSUME AccountsAssumption ==
  /\ BrowserOf \in [Tabs -> Browsers]
  /\ Tabs \cap Admins = {} /\ IsFiniteSet(Tabs)
  /\ {MaxAttempts, MaxSessions, MaxCodes, MaxSuspensions} \subseteq Nat

VARIABLES
  status,      \* User.status; NONE before registration
  sessions,    \* Session rows in order of creation; ids are indexes
  codes,       \* OtpCode rows likewise
  jar,         \* each browser's refresh cookie, a session or NoToken
  access,      \* the tabs that hold a fresh access token
  call,        \* requests of tabs and admins
  decisions,   \* admins' calls so far
  changes,     \* history: times all sessions were revoked
  overlapped   \* history: families continued by a call older than such a change

vars == <<status, sessions, codes, jar, access, call, decisions, changes, overlapped>>

NoToken == 0
Idle == [at |-> "idle"]
Disabled == {"SUSPENDED", "BANNED"}

Begin(c, pc) == call[c] = Idle /\ call' = [call EXCEPT ![c] = pc]
Continue(c, pc) == call' = [call EXCEPT ![c] = pc]
Ends(c) == Continue(c, Idle)

Init ==
  /\ status = "NONE"
  /\ sessions = << >>
  /\ codes = << >>
  /\ jar = [b \in Browsers |-> NoToken]
  /\ access = {}
  /\ call = [c \in Tabs \cup Admins |-> Idle]
  /\ decisions = 0
  /\ changes = 0
  /\ overlapped = {}

-----------------------------------------------------------------------------
(* Sessions                                                                *)

Live(s) == ~sessions[s].consumed /\ ~sessions[s].revoked

InFlight(pcs) == Cardinality({t \in Tabs : call[t].at \in pcs})

Room == Len(sessions) + InFlight({"consume", "issue", "register"}) < MaxSessions

(* family is NoToken for a new family, opened the changes when its login   *)
(* read the account, and seen those when this call did.                    *)
Issuing(family, opened, seen) ==
  [at |-> "issue", family |-> family, opened |-> opened, seen |-> seen]

LoginRead(t) ==
  /\ status \notin Disabled \cup {"NONE"}
  /\ Room
  /\ Begin(t, Issuing(NoToken, changes, changes))
  /\ UNCHANGED <<status, sessions, codes, jar, access, decisions, changes, overlapped>>

(* issue: the new session; the tokens are on their way.                    *)
Issue(t) ==
  /\ call[t].at = "issue"
  /\ LET id == Len(sessions) + 1
         family == IF call[t].family = NoToken THEN id ELSE call[t].family
     IN  /\ sessions' = Append(sessions, [family |-> family, consumed |-> FALSE,
                                          revoked |-> FALSE, opened |-> call[t].opened])
         /\ overlapped' = overlapped \cup (IF call[t].seen < changes THEN {family} ELSE {})
         /\ Continue(t, [at |-> "deliver", token |-> id])
  /\ UNCHANGED <<status, codes, jar, access, decisions, changes>>

(* The answer reaches the browser: cookie and access token.                *)
Deliver(t) ==
  /\ call[t].at = "deliver"
  /\ jar' = [jar EXCEPT ![BrowserOf[t]] = call[t].token]
  /\ access' = access \cup {t}
  /\ Ends(t)
  /\ UNCHANGED <<status, sessions, codes, decisions, changes, overlapped>>

AccessExpires(t) ==
  /\ t \in access
  /\ access' = access \ {t}
  /\ UNCHANGED <<status, sessions, codes, jar, call, decisions, changes, overlapped>>

(* After a 401, or when a page opens: one refresh at a time in a tab, with *)
(* the cookie the browser has now.                                         *)
RefreshSend(t) ==
  /\ t \notin access
  /\ jar[BrowserOf[t]] # NoToken
  /\ Room
  /\ Begin(t, [at |-> "rotate", token |-> jar[BrowserOf[t]]])
  /\ UNCHANGED <<status, sessions, codes, jar, access, decisions, changes, overlapped>>

Refused(t) ==
  /\ Ends(t)
  /\ access' = access \ {t}

(* Mutant: a revoked token is only refused once it was used.               *)
RotateReadUnrevoked(t) ==
  /\ call[t].at = "rotate"
  /\ LET s == call[t].token IN
     IF sessions[s].consumed
     THEN Continue(t, [at |-> "burn", token |-> s]) /\ UNCHANGED access
     ELSE IF status \in Disabled THEN Refused(t)
     ELSE Continue(t, [at |-> "consume", token |-> s, seen |-> changes]) /\ UNCHANGED access
  /\ UNCHANGED <<status, sessions, codes, jar, decisions, changes, overlapped>>

(* rotate reads the session: one used or revoked before burns its family.  *)
RotateRead(t) ==
  /\ call[t].at = "rotate"
  /\ LET s == call[t].token IN
     IF ~Live(s)
     THEN Continue(t, [at |-> "burn", token |-> s]) /\ UNCHANGED access
     ELSE IF status \in Disabled THEN Refused(t)
     ELSE Continue(t, [at |-> "consume", token |-> s, seen |-> changes]) /\ UNCHANGED access
  /\ UNCHANGED <<status, sessions, codes, jar, decisions, changes, overlapped>>

Revoked(tokens) ==
  [s \in DOMAIN sessions |-> IF s \in tokens THEN [sessions[s] EXCEPT !.revoked = TRUE]
                             ELSE sessions[s]]

SameFamily(token) ==
  Revoked({s \in DOMAIN sessions : sessions[s].family = sessions[token].family})

RotateBurn(t) ==
  /\ call[t].at = "burn"
  /\ sessions' = SameFamily(call[t].token)
  /\ Refused(t)
  /\ UNCHANGED <<status, codes, jar, decisions, changes, overlapped>>

(* By id: another rotation may have used it, a revocation may have come.   *)
RotateConsume(t) ==
  /\ call[t].at = "consume"
  /\ LET s == call[t].token IN
     /\ sessions' = [sessions EXCEPT ![s].consumed = TRUE]
     /\ Continue(t, Issuing(sessions[s].family, sessions[s].opened, call[t].seen))
  /\ UNCHANGED <<status, codes, jar, access, decisions, changes, overlapped>>

ServerLogout(b) ==
  /\ jar[b] # NoToken /\ sessions' = SameFamily(jar[b])
  /\ jar' = [jar EXCEPT ![b] = NoToken]

(* The tab forgets its session whether or not the request gets through.    *)
Logout(t) ==
  /\ call[t] = Idle
  /\ t \in access
  /\ access' = access \ {t}
  /\ ServerLogout(BrowserOf[t]) \/ UNCHANGED <<sessions, jar>>
  /\ UNCHANGED <<status, codes, call, decisions, changes, overlapped>>

-----------------------------------------------------------------------------
(* One-time codes                                                          *)

Unused(purpose) == {i \in DOMAIN codes : codes[i].purpose = purpose /\ ~codes[i].consumed}

(* persist supersedes the codes its first statement finds, and commits     *)
(* that with the new one.                                                  *)
Persisting(purpose) == [at |-> "persist", purpose |-> purpose, old |-> Unused(purpose)]

PersistCommit(t) ==
  /\ call[t].at = "persist"
  /\ LET fresh == [purpose |-> call[t].purpose, consumed |-> FALSE, attempts |-> 0] IN
     codes' = Append([i \in DOMAIN codes |-> IF i \in call[t].old
                                             THEN [codes[i] EXCEPT !.consumed = TRUE]
                                             ELSE codes[i]], fresh)
  /\ Continue(t, IF call[t].purpose = "EMAIL_VERIFY" THEN Issuing(NoToken, 0, 0)
                 ELSE Idle)
  /\ UNCHANGED <<status, sessions, jar, access, decisions, changes, overlapped>>

(* The user and the wallet commit first, then a code, then a session.      *)
Register(t) ==
  /\ status = "NONE"
  /\ status' = "PENDING_VERIFICATION"
  /\ Begin(t, Persisting("EMAIL_VERIFY"))
  /\ UNCHANGED <<sessions, codes, jar, access, decisions, changes, overlapped>>

ForgotPassword(t) ==
  /\ status # "NONE"
  /\ Len(codes) + InFlight({"persist"}) < MaxCodes
  /\ Begin(t, Persisting("PASSWORD_RESET"))
  /\ UNCHANGED <<status, sessions, codes, jar, access, decisions, changes, overlapped>>

(* Mutant: a locked code is tried all the same.                            *)
ConsumeReadUnlocked(t, purpose, next) ==
  LET newest == CHOOSE i \in Unused(purpose) : \A j \in Unused(purpose) : j <= i IN
  /\ Unused(purpose) # {}
  /\ codes[newest].attempts < MaxAttempts + 5
  /\ \/ Begin(t, [at |-> "use", code |-> newest, next |-> next, seen |-> changes])
     \/ Begin(t, [at |-> "miss", code |-> newest])

(* consume reads the newest code; a right value goes on to mark it used, a *)
(* wrong one to count an attempt.  (Expired or locked: nothing happens.)   *)
ConsumeRead(t, purpose, next) ==
  LET newest == CHOOSE i \in Unused(purpose) : \A j \in Unused(purpose) : j <= i IN
  /\ Unused(purpose) # {}
  /\ codes[newest].attempts < MaxAttempts
  /\ \/ Begin(t, [at |-> "use", code |-> newest, next |-> next, seen |-> changes])
     \/ Begin(t, [at |-> "miss", code |-> newest])

(* Mutant: the status of the account is not looked up for each request.    *)
LetInAnyone(t) == t \in access

(* The guard of signed-in requests: a fresh access token of a user who is  *)
(* not disabled now.                                                       *)
LetIn(t) == t \in access /\ status \notin Disabled

VerifyEmail(t) ==
  /\ LetIn(t)
  /\ ConsumeRead(t, "EMAIL_VERIFY", "verify")
  /\ UNCHANGED <<status, sessions, codes, jar, access, decisions, changes, overlapped>>

ResetPassword(t) ==
  /\ ConsumeRead(t, "PASSWORD_RESET", "reset")
  /\ UNCHANGED <<status, sessions, codes, jar, access, decisions, changes, overlapped>>

ConsumeMiss(t) ==
  /\ call[t].at = "miss"
  /\ codes' = [codes EXCEPT ![call[t].code].attempts = @ + 1]
  /\ Ends(t)
  /\ UNCHANGED <<status, sessions, jar, access, decisions, changes, overlapped>>

ConsumeUse(t) ==
  /\ call[t].at = "use"
  /\ codes' = [codes EXCEPT ![call[t].code].consumed = TRUE]
  /\ Continue(t, [at |-> call[t].next, seen |-> call[t].seen])
  /\ UNCHANGED <<status, sessions, jar, access, decisions, changes, overlapped>>

(* ACTIVE, whatever the status has become.                                 *)
VerifyWrite(t) ==
  /\ call[t].at = "verify"
  /\ status' = "ACTIVE"
  /\ Ends(t)
  /\ UNCHANGED <<sessions, codes, jar, access, decisions, changes, overlapped>>

RevokeAll ==
  /\ sessions' = Revoked(DOMAIN sessions)
  /\ changes' = changes + 1

ResetWrite(t) ==
  /\ call[t].at = "reset"
  /\ RevokeAll
  /\ Ends(t)
  /\ UNCHANGED <<status, codes, jar, access, decisions, overlapped>>

-----------------------------------------------------------------------------
(* Admins.  The audit record each call ends with is one of those the       *)
(* module Settings counts, and changes nothing here.                       *)

SuspendRead(a) ==
  /\ status # "NONE" /\ decisions < MaxSuspensions
  /\ Begin(a, [at |-> "suspend"])
  /\ decisions' = decisions + 1
  /\ UNCHANGED <<status, sessions, codes, jar, access, changes, overlapped>>

SuspendWrite(a) ==
  /\ call[a].at = "suspend"
  /\ status' = "SUSPENDED"
  /\ RevokeAll
  /\ Ends(a)
  /\ UNCHANGED <<codes, jar, access, decisions, overlapped>>

ReactivateRead(a) ==
  /\ status = "SUSPENDED" /\ decisions < MaxSuspensions
  /\ Begin(a, [at |-> "reactivate"])
  /\ decisions' = decisions + 1
  /\ UNCHANGED <<status, sessions, codes, jar, access, changes, overlapped>>

ReactivateWrite(a) ==
  /\ call[a].at = "reactivate"
  /\ status' = "ACTIVE"
  /\ Ends(a)
  /\ UNCHANGED <<sessions, codes, jar, access, decisions, changes, overlapped>>

(* A request fails, its process stops, or its answer is lost: a tab whose  *)
(* refresh fails forgets its access token, the cookie stays.               *)
CallFails(c) ==
  /\ call[c] # Idle
  /\ Ends(c)
  /\ access' = IF c \in Tabs /\ call[c].at \in {"rotate", "burn", "consume", "issue", "deliver"}
               THEN access \ {c} ELSE access
  /\ UNCHANGED <<status, sessions, codes, jar, decisions, changes, overlapped>>

-----------------------------------------------------------------------------

Next ==
  \/ \E t \in Tabs :
       \/ Register(t) \/ LoginRead(t) \/ Issue(t) \/ Deliver(t) \/ AccessExpires(t)
       \/ RefreshSend(t) \/ RotateRead(t) \/ RotateBurn(t) \/ RotateConsume(t) \/ Logout(t)
       \/ ForgotPassword(t) \/ PersistCommit(t) \/ VerifyEmail(t) \/ ResetPassword(t)
       \/ ConsumeMiss(t) \/ ConsumeUse(t) \/ VerifyWrite(t) \/ ResetWrite(t)
  \/ \E a \in Admins :
       SuspendRead(a) \/ SuspendWrite(a) \/ ReactivateRead(a) \/ ReactivateWrite(a)
  \/ \E c \in Tabs \cup Admins : CallFails(c)

Spec == Init /\ [][Next]_vars

-----------------------------------------------------------------------------

(* "Credential change kills every live session" (auth.service.ts), and so  *)
(* does a suspension, as far as the code goes: a session is still good     *)
(* only if its family was opened since, or continued by a call that had    *)
(* read its session, or the account, before and wrote after.               *)
RevocationHolds ==
  \A s \in DOMAIN sessions :
    Live(s) => sessions[s].opened = changes \/ sessions[s].family \in overlapped

(* A suspension ends only by an admin's reactivation, or by a verification *)
(* that was let in before the suspension (verifyEmail writes ACTIVE over   *)
(* it).                                                                    *)
LiftedKnowingly ==
  [][status = "SUSPENDED" /\ status' # "SUSPENDED" =>
       \/ \E a \in Admins : call[a].at = "reactivate" /\ call'[a] = Idle
       \/ \E t \in Tabs : call[t].at = "verify" /\ call[t].seen < changes
                          /\ call'[t] = Idle]_vars

(* However many requests try a code at once, at most one each is counted   *)
(* beyond the limit of attempts (otp.service.ts checks before it counts).  *)
AttemptsBounded ==
  \A i \in DOMAIN codes : codes[i].attempts < MaxAttempts + Cardinality(Tabs)
=============================================================================
