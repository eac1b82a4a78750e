------------------------------- MODULE Login -------------------------------
(***************************************************************************)
(* AuthService.Login: password check, failed-attempt counter and lockout.  *)
(* Several requests run at once; each is one slot of "login" and runs one  *)
(* SQL statement per action, the computation after a statement being part  *)
(* of the action that ran it.  No statement shares a transaction with      *)
(* another.                                                                *)
(***************************************************************************)
EXTENDS Accounts

CONSTANTS
    Logins,              \* login requests in flight at once
    MaxFailedAttempts,   \* MAX_FAILED_ATTEMPTS
    LockPeriod,          \* the 30 minutes of a lock
    MFAExpiry,           \* MFA_EXPIRY_MINUTES
    TOTPSetupExpiry,     \* TOTP_SETUP_EXPIRY_MINUTES
    DefaultSetupExpiry,  \* the hour used when that is not positive
    FailureCap           \* bound: failures, and requests cut off, per account

ASSUME LoginAssumption ==
    /\ IsFiniteSet(Logins)
    /\ MaxFailedAttempts \in Nat \ {0}
    /\ LockPeriod \in Nat \ {0}
    /\ MFAExpiry \in Nat
    /\ TOTPSetupExpiry \in Nat
    /\ DefaultSetupExpiry \in Nat \ {0}
    /\ FailureCap \in Nat

VARIABLES
    login,      \* where each request is
    misses,     \* history: failed_attempts increments that took effect
    abandoned   \* history: per user, the requests cut off before their lock

loginVars == <<login, misses, abandoned>>
vars == <<accountVars, loginVars>>

Idle == [pc |-> "idle"]

Slot == [pc : {"idle"}]
        \cup [pc : {"incr", "recount"}, user : Users]
        \cup [pc : {"lock"}, user : Users, until : Nat \ {0}]
        \cup [pc : {"clear"}, user : Users, enrolled : BOOLEAN]

-----------------------------------------------------------------------------

\* Slip: is_active is not looked at.
MayTryInactive(row) == row.exists /\ ~IsLocked(row)

\* Login is turned away (not found, inactive or locked) unless this holds.
MayTry(row) == row.exists /\ row.active /\ ~IsLocked(row)

\* FindByEmail, the checks on what it returned and the bcrypt comparison.
Find(s, u, password) ==
    /\ login[s] = Idle
    /\ \E view \in ReadViews :
         /\ MayTry(view[u])
         /\ \/ /\ password = view[u].password
               /\ login' = [login EXCEPT ![s] =
                     [pc |-> "clear", user |-> u, enrolled |-> Enrolled(view[u])]]
            \/ /\ password # view[u].password
               /\ misses[u] < FailureCap
               /\ login' = [login EXCEPT ![s] = [pc |-> "incr", user |-> u]]
    /\ UNCHANGED <<accountVars, misses, abandoned>>

Incr(s) ==
    /\ login[s].pc = "incr"
    /\ LET u == login[s].user IN
         /\ Exec(IncrFailedAttempts(users, u))
         /\ login' = [login EXCEPT ![s] = [pc |-> "recount", user |-> u]]
         /\ misses' = IF users' = users THEN misses
                                       ELSE [misses EXCEPT ![u] = @ + 1]
    /\ UNCHANGED <<replica, clock, token, abandoned>>

\* Slips for the checks to find: the limit taken one failure too late or too
\* early.
RecountLimit(s, limit) ==
    /\ login[s].pc = "recount"
    /\ \E view \in ReadViews :
         LET u == login[s].user IN
         login' = [login EXCEPT ![s] =
             IF view[u].failed >= limit
             THEN [pc |-> "lock", user |-> u, until |-> clock + LockPeriod]
             ELSE Idle]
    /\ UNCHANGED <<accountVars, misses, abandoned>>
RecountLate(s) == RecountLimit(s, MaxFailedAttempts + 1)
RecountEarly(s) == RecountLimit(s, MaxFailedAttempts - 1)

\* FindByID again; the end of the lock is computed here, before LockUntil runs.
Recount(s) ==
    /\ login[s].pc = "recount"
    /\ \E view \in ReadViews :
         LET u == login[s].user IN
         login' = [login EXCEPT ![s] =
             IF view[u].failed >= MaxFailedAttempts
             THEN [pc |-> "lock", user |-> u, until |-> clock + LockPeriod]
             ELSE Idle]
    /\ UNCHANGED <<accountVars, misses, abandoned>>

\* Slip: a locked account is deactivated.
LockDeactivates(s) ==
    /\ login[s].pc = "lock"
    /\ users' = Deactivate(users, login[s].user)
    /\ login' = [login EXCEPT ![s] = Idle]
    /\ UNCHANGED <<replica, clock, token, misses, abandoned>>

Lock(s) ==
    /\ login[s].pc = "lock"
    /\ users' = LockUntil(users, login[s].user, login[s].until)
    /\ login' = [login EXCEPT ![s] = Idle]
    /\ UNCHANGED <<replica, clock, token, misses, abandoned>>

SetupTTL == IF TOTPSetupExpiry = 0 THEN DefaultSetupExpiry ELSE TOTPSetupExpiry

\* Slip: every login that gets here is sent to the setup.
ClearForSetup(s) ==
    /\ login[s].pc = "clear"
    /\ Exec(ClearLock(users, login[s].user))
    /\ IssueToken("totp_setup", login[s].user, SetupTTL)
    /\ login' = [login EXCEPT ![s] = Idle]
    /\ UNCHANGED <<replica, clock, misses, abandoned>>

\* ClearLock, whose error is discarded, then the token for the next step.
Clear(s) ==
    /\ login[s].pc = "clear"
    /\ Exec(ClearLock(users, login[s].user))
    /\ IF login[s].enrolled
       THEN IssueToken("mfa", login[s].user, MFAExpiry)
       ELSE IssueToken("totp_setup", login[s].user, SetupTTL)
    /\ login' = [login EXCEPT ![s] = Idle]
    /\ UNCHANGED <<replica, clock, misses, abandoned>>

\* A failing read or LockUntil, the client going away or the process dying:
\* the request ends where it is.
Abort(s) ==
    /\ Faults
    /\ login[s] # Idle
    /\ abandoned[login[s].user] < FailureCap
    /\ abandoned' = IF login[s].pc \in {"recount", "lock"}
                    THEN [abandoned EXCEPT ![login[s].user] = @ + 1]
                    ELSE abandoned
    /\ login' = [login EXCEPT ![s] = Idle]
    /\ UNCHANGED <<accountVars, misses>>

-----------------------------------------------------------------------------

LoginInit ==
    /\ login = [s \in Logins |-> Idle]
    /\ misses = [u \in Users |-> 0]
    /\ abandoned = [u \in Users |-> 0]

LoginStep(s) ==
    \/ \E u \in Users, password \in Passwords : Find(s, u, password)
    \/ Incr(s) \/ Recount(s) \/ Lock(s) \/ Clear(s) \/ Abort(s)

\* Accounts as user management and enrolment leave them.
StoredRow ==
    {[NoRow EXCEPT !.exists = TRUE, !.role = d.role, !.active = d.active,
                   !.password = d.password, !.secret = d.secret] :
        d \in [role : Roles, active : BOOLEAN,
               password : Passwords \cup {NoPassword},
               secret : Secrets \cup {NoSecret}]}

Init == AccountsInit(StoredRow) /\ LoginInit

Next == \/ \E s \in Logins : LoginStep(s)
        \/ Environment /\ UNCHANGED loginVars

Spec == Init /\ [][Next]_vars

-----------------------------------------------------------------------------

TypeOK ==
    /\ AccountsTypeOK
    /\ login \in [Logins -> Slot]
    /\ misses \in [Users -> Nat]
    /\ abandoned \in [Users -> Nat]

\* The requests that have yet to recount u's failures or to write u's lock.
AboutToLock(slot, u) == slot.pc \in {"recount", "lock"} /\ slot.user = u
Pending(u) == {s \in Logins : AboutToLock(login[s], u)}

\* Without replicas an account that has not been locked since its counter was
\* last reset has had at most MAX_FAILED_ATTEMPTS - 1 failures, and one more
\* for each request that is about to lock it or was cut off before it could.
\* However wrong passwords race, Login (auth_service.go:100-107) lets through
\* no more of them than there are requests at once.
AttemptsBeforeLock ==
    Configured = {} =>
        \A u \in Users :
            users[u].locked = 0 =>
                users[u].failed <= MaxFailedAttempts - 1
                                   + Cardinality(Pending(u)) + abandoned[u]

\* No account is locked, whatever replicas and failures do, before
\* MAX_FAILED_ATTEMPTS wrong passwords have been recorded for it
\* (auth_service.go:103).
NoPrematureLock ==
    \A u \in Users : users[u].locked # 0 => misses[u] >= MaxFailedAttempts
=============================================================================
