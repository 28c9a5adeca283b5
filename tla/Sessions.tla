------------------------------ MODULE Sessions ------------------------------
(***************************************************************************)
(* Signing in: users, their second factor and their sessions               *)
(* (identity/identity.go, totp.go, recovery.go), and the handlers of       *)
(* authsession (handlers.go, mfa.go, elevate.go, middleware.go) and of     *)
(* controller/users.go.  A request is a slot: it verifies a password, then *)
(* a code, then writes.  A code is the time step it is the code of.        *)
(***************************************************************************)
EXTENDS Naturals, FiniteSets

CONSTANTS
    Users,       \* users
    MaxCreds,    \* bound: TOTP enrollments
    MaxSsNow,    \* bound: the clock, in steps
    MaxSessions, \* bound: sessions at the same time
    SsSlots,     \* requests that are served at the same time
    Threshold,   \* failed logins that lock the account
    MaxSsEdits,  \* bound: logouts, suspensions and other edits
    MaxSsFaults  \* bound: failed writes

Creds == 1..MaxCreds
SessionIds == 1..MaxSessions
\* DefaultSessionPolicy: the idle timeout is the shorter one.
IdleFor == 1
AbsoluteFor == 2

VARIABLES
    ssUser,     \* ssUser[u]: active, failed_login_count, locked
    ssCred,     \* ssCred[e]: user, state, last_used_step (0: none)
    ssCode,     \* ssCode[u]: its recovery code: none, unused or used
    ssSession,  \* ssSession[s]: user, state, idle and absolute expiry, elevated
    ssReq,      \* ssReq[l]: what the request is for, where it is, what it read
    ssUsed, ssTwice,  \* the steps each enrollment accepted; one was accepted again
    ssNow, ssFaults, ssEdits

ssSeen == <<ssUsed, ssTwice>>
ssTime == <<ssNow, ssFaults, ssEdits>>
sessionsVars == <<ssUser, ssCred, ssCode, ssSession, ssReq, ssSeen, ssTime>>

SsEdit == ssEdits < MaxSsEdits /\ ssEdits' = ssEdits + 1 /\ UNCHANGED <<ssNow, ssFaults>>
SsFault == ssFaults < MaxSsFaults /\ ssFaults' = ssFaults + 1 /\ UNCHANGED <<ssNow, ssEdits>>

NoCred == [user |-> 0, state |-> "none", last |-> 0]
NoSession == [user |-> 0, state |-> "none", idle |-> 0, abs |-> 0, high |-> FALSE]
NoReq == [for |-> "none", at |-> "idle", user |-> 0, cred |-> 0, step |-> 0, sess |-> 0]

SessionsInit ==
    /\ ssUser = [u \in Users |-> [active |-> TRUE, fails |-> 0, locked |-> FALSE]]
    /\ ssCred = [e \in Creds |-> NoCred] /\ ssCode = [u \in Users |-> "none"]
    /\ ssSession = [s \in SessionIds |-> NoSession]
    /\ ssReq = [l \in SsSlots |-> NoReq]
    /\ ssUsed = {} /\ ssTwice = FALSE
    /\ ssNow = 1 /\ ssFaults = 0 /\ ssEdits = 0

CredsOf(u, s) == {e \in Creds : ssCred[e].user = u /\ ssCred[e].state = s}
ActiveTOTP(u) == CredsOf(u, "active")
PendingTOTP(u) == CredsOf(u, "pending")
Undisabled(u) == ActiveTOTP(u) \cup PendingTOTP(u)

\* ResolveSession, which the middleware calls before every handler.
Expired(s) == ssNow > ssSession[s].idle \/ ssNow > ssSession[s].abs
Resolves(s) == ssSession[s].state = "live" /\ ~Expired(s) /\ ssUser[ssSession[s].user].active
Extended(s) == IF ssNow + IdleFor > s.abs THEN s.abs ELSE ssNow + IdleFor

\* Every request that finds an expired session deletes it; one that resolves it
\* moves its idle expiry.
Touch(s) ==
    /\ \/ ssSession[s].state = "live" /\ Expired(s) /\ ssSession' = [ssSession EXCEPT ![s] = NoSession]
       \/ /\ Resolves(s) /\ Extended(ssSession[s]) # ssSession[s].idle
          /\ ssSession' = [ssSession EXCEPT ![s].idle = Extended(ssSession[s])]
    /\ UNCHANGED <<ssUser, ssCred, ssCode, ssReq, ssSeen, ssTime>>

\* reauthenticate: a wrong password leaves nothing behind.
Reauthenticated(s) == Resolves(s)

-----------------------------------------------------------------------------
\* Signing in and stepping up.

\* RecordLoginFailure: the count goes on, so that after a lockout one more
\* failure locks again.
Fail(u) == ssUser' = [ssUser EXCEPT ![u] = [@ EXCEPT
    !.fails = IF @ < Threshold THEN @ + 1 ELSE @, !.locked = @ \/ ssUser[u].fails + 1 >= Threshold]]

Serve(l, q) == ssReq' = [ssReq EXCEPT ![l] = q]
AfterPassword(u) == IF ActiveTOTP(u) # {} THEN "factor" ELSE "write"

\* handleLogin up to the password; a locked account gets no further.
Login(l, u) ==
    /\ ssReq[l] = NoReq /\ ~ssUser[u].locked
    /\ \/ Fail(u) /\ UNCHANGED ssReq
       \/ /\ ssUser[u].active /\ Serve(l, [NoReq EXCEPT !.for = "login", !.at = AfterPassword(u), !.user = u])
          /\ UNCHANGED ssUser
    /\ UNCHANGED <<ssCred, ssCode, ssSession, ssSeen, ssTime>>

\* handleElevate up to the password.
Elevate(l, s) ==
    /\ ssReq[l] = NoReq /\ Reauthenticated(s) /\ ~ssSession[s].high
    /\ Serve(l, [NoReq EXCEPT !.for = "elevate", !.at = AfterPassword(ssSession[s].user), !.user = ssSession[s].user, !.sess = s])
    /\ UNCHANGED <<ssUser, ssCred, ssCode, ssSession, ssSeen, ssTime>>

\* The code of a step that is at most one away is valid (an early one is not tried).
CodeSteps == {ssNow - 1, ssNow} \ {0}

\* What a request that fails its second factor leaves behind.
Denied(l) ==
    /\ Serve(l, NoReq)
    /\ IF ssReq[l].for = "login" THEN Fail(ssReq[l].user) ELSE UNCHANGED ssUser

SecondFactor(l, step) ==
    /\ ssReq[l].at = "factor"
    /\ \/ Denied(l)
       \/ \E e \in ActiveTOTP(ssReq[l].user) :
            Serve(l, [ssReq[l] EXCEPT !.at = "consume", !.cred = e, !.step = step]) /\ UNCHANGED ssUser
    /\ UNCHANGED <<ssCred, ssCode, ssSession, ssSeen, ssTime>>

Accept(e, step) == ssUsed' = ssUsed \cup {<<e, step>>} /\ ssTwice' = (ssTwice \/ <<e, step>> \in ssUsed)

\* Mutant of Consumable: the last step itself.
ConsumableAgain(e, step) == ssCred[e].state = "active" /\ ssCred[e].last <= step
Consumable(e, step) == ssCred[e].state = "active" /\ ssCred[e].last < step

\* ConsumeTOTPStep: one guarded update.
Consume(l) ==
    LET q == ssReq[l] IN
    /\ q.at = "consume"
    /\ \/ /\ Consumable(q.cred, q.step) /\ Accept(q.cred, q.step)
          /\ ssCred' = [ssCred EXCEPT ![q.cred].last = q.step]
          /\ Serve(l, [q EXCEPT !.at = "write", !.cred = 0, !.step = 0]) /\ UNCHANGED ssUser
       \/ ~Consumable(q.cred, q.step) /\ Denied(l) /\ UNCHANGED <<ssCred, ssSeen>>
    /\ UNCHANGED <<ssCode, ssSession, ssTime>>

\* verifyRecoveryCode: the subselect finds an unused code, the update then only
\* compares its id, so two requests that found it both redeem it.
FindRecovery(l) ==
    /\ ssReq[l].for = "login" /\ ssReq[l].at = "factor" /\ ssCode[ssReq[l].user] = "unused"
    /\ Serve(l, [ssReq[l] EXCEPT !.at = "redeem"])
    /\ UNCHANGED <<ssUser, ssCred, ssCode, ssSession, ssSeen, ssTime>>
RedeemRecovery(l) ==
    /\ ssReq[l].at = "redeem"
    /\ IF ssCode[ssReq[l].user] = "none" THEN Denied(l) /\ UNCHANGED ssCode
       ELSE /\ ssCode' = [ssCode EXCEPT ![ssReq[l].user] = "used"]
            /\ Serve(l, [ssReq[l] EXCEPT !.at = "write"]) /\ UNCHANGED ssUser
    /\ UNCHANGED <<ssCred, ssSession, ssSeen, ssTime>>

Unlocked(u) == [u EXCEPT !.fails = 0, !.locked = FALSE]
Created(u) == [user |-> u, state |-> "live", idle |-> ssNow + IdleFor, abs |-> ssNow + AbsoluteFor, high |-> FALSE]

\* RecordLoginSuccess, then CreateSession.
StartSession(l) ==
    /\ ssReq[l].for = "login" /\ ssReq[l].at = "write" /\ Serve(l, NoReq)
    /\ ssUser' = [ssUser EXCEPT ![ssReq[l].user] = Unlocked(@)]
    /\ \E s \in SessionIds :
        /\ ssSession[s] = NoSession /\ \A k \in SsSlots : ssReq[k].sess # s
        /\ ssSession' = [ssSession EXCEPT ![s] = Created(ssReq[l].user)]
    /\ UNCHANGED <<ssCred, ssCode, ssSeen, ssTime>>

Raised(s) == IF ssSession[s].state = "live" THEN [ssSession EXCEPT ![s].high = TRUE] ELSE ssSession

\* ElevateSession: a session that was revoked meanwhile is not found.
RaiseSession(l) ==
    /\ ssReq[l].for = "elevate" /\ ssReq[l].at = "write" /\ Serve(l, NoReq)
    /\ ssSession' = Raised(ssReq[l].sess)
    /\ UNCHANGED <<ssUser, ssCred, ssCode, ssSeen, ssTime>>

Logout(s) ==
    /\ Resolves(s) /\ ssSession' = [ssSession EXCEPT ![s] = NoSession] /\ SsEdit
    /\ UNCHANGED <<ssUser, ssCred, ssCode, ssReq, ssSeen>>

-----------------------------------------------------------------------------
\* The second factor.

\* CreateTOTPEnrollment takes the place of a pending one; without its secret the
\* new one can only be replaced.
Enroll(s) ==
    LET u == ssSession[s].user IN
    /\ Reauthenticated(s)
    /\ \E e \in Creds :
        /\ ssCred[e].state = "none" /\ \A d \in 1..e-1 : ssCred[d].state # "none"
        /\ ssCred' = [d \in Creds |-> IF d = e THEN [NoCred EXCEPT !.user = u, !.state = "pending"]
                        ELSE IF d \in PendingTOTP(u) THEN [ssCred[d] EXCEPT !.state = "disabled"] ELSE ssCred[d]]
    /\ UNCHANGED <<ssUser, ssCode, ssSession, ssReq, ssSeen, ssTime>>

\* handleTOTPConfirm up to the valid code.
StartConfirm(l, s, step) ==
    /\ ssReq[l] = NoReq /\ Resolves(s)
    /\ \E e \in PendingTOTP(ssSession[s].user) :
        Serve(l, [for |-> "confirm", at |-> "confirm", user |-> ssSession[s].user, cred |-> e, step |-> step, sess |-> 0])
    /\ UNCHANGED <<ssUser, ssCred, ssCode, ssSession, ssSeen, ssTime>>

\* GenerateRecoveryCodes deletes the old ones.
NewCodes(u) == [ssCode EXCEPT ![u] = "unused"]

\* ConfirmTOTPEnrollment: the statement that demotes what was active does not
\* name the user.  Then the recovery codes, in a transaction of their own.
Confirm(l) ==
    LET q == ssReq[l] IN
    /\ q.at = "confirm" /\ Serve(l, NoReq)
    /\ \/ ssCred[q.cred].state # "pending" /\ UNCHANGED <<ssCred, ssCode, ssSeen, ssTime>>
       \/ /\ ssCred[q.cred].state = "pending" /\ Accept(q.cred, q.step)
          /\ ssCred' = [e \in Creds |-> IF e = q.cred THEN [ssCred[e] EXCEPT !.state = "active", !.last = q.step]
                          ELSE IF ssCred[e].state = "active" THEN [ssCred[e] EXCEPT !.state = "disabled"] ELSE ssCred[e]]
          /\ \/ ssCode' = NewCodes(q.user) /\ UNCHANGED ssTime
             \/ SsFault /\ UNCHANGED ssCode
    /\ UNCHANGED <<ssUser, ssSession>>

RevokedOf(u) == [s \in SessionIds |-> IF ssSession[s].user = u THEN NoSession ELSE ssSession[s]]

\* handleTOTPDisable: DisableTOTP, and RevokeAllUserSessions in a second
\* transaction whose failure is only logged.
DisableTOTP(l, s) ==
    LET u == ssSession[s].user IN
    /\ ssReq[l] = NoReq /\ Reauthenticated(s) /\ Undisabled(u) # {}
    /\ ssCred' = [e \in Creds |-> IF e \in Undisabled(u)
                                  THEN [ssCred[e] EXCEPT !.state = "disabled"] ELSE ssCred[e]]
    /\ ssCode' = [ssCode EXCEPT ![u] = "none"]
    /\ Serve(l, [NoReq EXCEPT !.for = "disable", !.at = "revoke", !.user = u])
    /\ SsEdit /\ UNCHANGED <<ssUser, ssSession, ssSeen>>
RevokeAll(l) ==
    /\ ssReq[l].at = "revoke" /\ Serve(l, NoReq)
    /\ \/ ssSession' = RevokedOf(ssReq[l].user) /\ UNCHANGED ssTime
       \/ SsFault /\ UNCHANGED ssSession
    /\ UNCHANGED <<ssUser, ssCred, ssCode, ssSeen>>

\* handleRecoveryRegenerate, once the factor was checked.
Regenerate(s) ==
    /\ Reauthenticated(s) /\ ssCode[ssSession[s].user] # "unused"
    /\ ssCode' = NewCodes(ssSession[s].user) /\ SsEdit
    /\ UNCHANGED <<ssUser, ssCred, ssSession, ssReq, ssSeen>>

-----------------------------------------------------------------------------
\* Administration and time.

SetState(u) ==
    /\ ssUser' = [ssUser EXCEPT ![u].active = ~@] /\ SsEdit
    /\ UNCHANGED <<ssCred, ssCode, ssSession, ssReq, ssSeen>>

LockoutEnds(u) ==
    /\ ssUser[u].locked /\ ssUser' = [ssUser EXCEPT ![u].locked = FALSE]
    /\ UNCHANGED <<ssCred, ssCode, ssSession, ssReq, ssSeen, ssTime>>

SsTick ==
    /\ ssNow < MaxSsNow /\ ssNow' = ssNow + 1
    /\ UNCHANGED <<ssUser, ssCred, ssCode, ssSession, ssReq, ssSeen, ssFaults, ssEdits>>

SessionsNext ==
    \/ SsTick
    \/ \E u \in Users : SetState(u) \/ LockoutEnds(u)
    \/ \E s \in SessionIds : Touch(s) \/ Logout(s) \/ Enroll(s) \/ Regenerate(s)
    \/ \E l \in SsSlots :
        \/ Consume(l) \/ FindRecovery(l) \/ RedeemRecovery(l) \/ StartSession(l) \/ RaiseSession(l)
        \/ Confirm(l) \/ RevokeAll(l)
        \/ (\E u \in Users : Login(l, u))
        \/ (\E step \in CodeSteps : SecondFactor(l, step))
        \/ (\E s \in SessionIds : Elevate(l, s) \/ DisableTOTP(l, s)
              \/ \E step \in CodeSteps : StartConfirm(l, s, step))

SessionsSpec == SessionsInit /\ [][SessionsNext]_sessionsVars

-----------------------------------------------------------------------------
\* Logins, step-ups, enrollments and confirmations that race accept a code of an
\* enrollment once, leave a user at most one factor in force and one pending, and
\* never stretch a session beyond its absolute expiry.
SignInsSound ==
    /\ ~ssTwice
    /\ \A u \in Users : Cardinality(ActiveTOTP(u)) <= 1 /\ Cardinality(PendingTOTP(u)) <= 1
    /\ \A s \in SessionIds : ssSession[s].idle <= ssSession[s].abs
=============================================================================
