----------------------------- MODULE Enrolment -----------------------------
(***************************************************************************)
(* The second factor and the invited account: VerifyTOTP, ConfirmTOTP and  *)
(* AcceptInvite of AuthService, which turn an mfa, a totp_setup or an      *)
(* invite token into the next thing.  One SQL statement per action.        *)
(*                                                                         *)
(* SetupTOTP hands out a secret and keeps nothing; ConfirmTOTP is given    *)
(* the secret back, so any secret may come in.  A code is right when it    *)
(* was made from the secret it is checked against.                         *)
(***************************************************************************)
EXTENDS Accounts

CONSTANTS
    Enrolments,       \* requests in flight at once
    JWTExpiry,        \* JWT_EXPIRY_HOURS
    TOTPSetupExpiry   \* TOTP_SETUP_EXPIRY_MINUTES

VARIABLES
    enrol,       \* where each request is
    accepted     \* history: users whose invitation was accepted

enrolVars == <<enrol, accepted>>

Idle == [pc |-> "idle"]

Slot == [pc : {"idle"}]
        \cup [pc : {"store"}, user : Users, secret : Secrets]
        \cup [pc : {"reload"}, user : Users]
        \cup [pc : {"password"}, user : Users, password : Passwords]
        \cup [pc : {"unlock"}, user : Users]

-----------------------------------------------------------------------------
(* VerifyTOTP: one read, then the session. *)

\* Slip: is_active is not looked at.
VerifyTOTPInactive(s, u) ==
    /\ enrol[s] = Idle
    /\ Bears("mfa", u)
    /\ \E view \in ReadViews : view[u].exists /\ Enrolled(view[u])
    /\ IssueToken("session", u, JWTExpiry)
    /\ UNCHANGED <<users, replica, clock, enrolVars>>

VerifyTOTP(s, u) ==
    /\ enrol[s] = Idle
    /\ Bears("mfa", u)
    /\ \E view \in ReadViews :
          view[u].exists /\ view[u].active /\ Enrolled(view[u])
    /\ IssueToken("session", u, JWTExpiry)
    /\ UNCHANGED <<users, replica, clock, enrolVars>>

-----------------------------------------------------------------------------
(* ConfirmTOTP. *)

\* Slip: an empty secret is let through.
ConfirmFindEmpty(s, u, secret) ==
    /\ enrol[s] = Idle
    /\ Bears("totp_setup", u)
    /\ \E view \in ReadViews : view[u].exists /\ view[u].active
    /\ enrol' = [enrol EXCEPT ![s] = [pc |-> "store", user |-> u, secret |-> NoSecret]]
    /\ UNCHANGED <<accountVars, accepted>>

ConfirmFind(s, u, secret) ==
    /\ enrol[s] = Idle
    /\ Bears("totp_setup", u)
    /\ \E view \in ReadViews : view[u].exists /\ view[u].active
    /\ enrol' = [enrol EXCEPT ![s] = [pc |-> "store", user |-> u, secret |-> secret]]
    /\ UNCHANGED <<accountVars, accepted>>

\* Slip: the error of SetTOTP is discarded.
ConfirmStoreIgnored(s) ==
    /\ enrol[s].pc = "store"
    /\ Exec(SetTOTP(users, enrol[s].user, enrol[s].secret))
    /\ enrol' = [enrol EXCEPT ![s] = [pc |-> "reload", user |-> enrol[s].user]]
    /\ UNCHANGED <<replica, clock, token, accepted>>

ConfirmStore(s) ==
    /\ enrol[s].pc = "store"
    /\ LET u == enrol[s].user IN
         /\ users' = SetTOTP(users, u, enrol[s].secret)
         /\ enrol' = [enrol EXCEPT ![s] = [pc |-> "reload", user |-> u]]
    /\ UNCHANGED <<replica, clock, token, accepted>>

\* FindByID for the claims; nothing is checked again.
ConfirmReload(s) ==
    /\ enrol[s].pc = "reload"
    /\ \E view \in ReadViews : view[enrol[s].user].exists
    /\ IssueToken("session", enrol[s].user, JWTExpiry)
    /\ enrol' = [enrol EXCEPT ![s] = Idle]
    /\ UNCHANGED <<users, replica, clock, accepted>>

-----------------------------------------------------------------------------
(* AcceptInvite. *)

\* The account must not be active yet.  The UPDATE of the name, which comes
\* next, changes nothing that is modelled.
AcceptFind(s, u, password) ==
    /\ enrol[s] = Idle
    /\ Bears("invite", u)
    /\ \E view \in ReadViews : view[u].exists /\ ~view[u].active
    /\ enrol' = [enrol EXCEPT ![s] =
           [pc |-> "password", user |-> u, password |-> password]]
    /\ UNCHANGED <<accountVars, accepted>>

AcceptPassword(s) ==
    /\ enrol[s].pc = "password"
    /\ users' = UpdatePassword(users, enrol[s].user, enrol[s].password)
    /\ enrol' = [enrol EXCEPT ![s] = [pc |-> "unlock", user |-> enrol[s].user]]
    /\ UNCHANGED <<replica, clock, token, accepted>>

\* Slip: the lock is taken away and the failures behind it are kept.
AcceptUnlockKeepsFailures(s) ==
    /\ enrol[s].pc = "unlock"
    /\ users' = LockUntil(users, enrol[s].user, 0)
    /\ IssueToken("totp_setup", enrol[s].user, TOTPSetupExpiry)
    /\ accepted' = accepted \cup {enrol[s].user}
    /\ enrol' = [enrol EXCEPT ![s] = Idle]
    /\ UNCHANGED <<replica, clock>>

\* ClearLock, which leaves is_active alone, and the setup token, here without
\* a default for its life.
AcceptUnlock(s) ==
    /\ enrol[s].pc = "unlock"
    /\ users' = ClearLock(users, enrol[s].user)
    /\ IssueToken("totp_setup", enrol[s].user, TOTPSetupExpiry)
    /\ accepted' = accepted \cup {enrol[s].user}
    /\ enrol' = [enrol EXCEPT ![s] = Idle]
    /\ UNCHANGED <<replica, clock>>

\* A failing statement, a client that goes away or a process that dies.
Abort(s) ==
    /\ Faults
    /\ enrol[s] # Idle
    /\ enrol' = [enrol EXCEPT ![s] = Idle]
    /\ UNCHANGED <<accountVars, accepted>>

-----------------------------------------------------------------------------

EnrolmentInit ==
    /\ enrol = [s \in Enrolments |-> Idle]
    /\ accepted = {}

EnrolmentStep(s) ==
    \/ \E u \in Users : VerifyTOTP(s, u)
    \/ \E u \in Users, secret \in Secrets : ConfirmFind(s, u, secret)
    \/ ConfirmStore(s) \/ ConfirmReload(s)
    \/ \E u \in Users, password \in Passwords : AcceptFind(s, u, password)
    \/ AcceptPassword(s) \/ AcceptUnlock(s)
    \/ Abort(s)

EnrolmentTypeOK ==
    /\ enrol \in [Enrolments -> Slot]
    /\ accepted \subseteq Users
=============================================================================
