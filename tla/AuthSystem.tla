---------------------------- MODULE AuthSystem ----------------------------
(***************************************************************************)
(* An account from its invitation to its session: Login, Enrolment and     *)
(* UserService on the same users table and the same tokens, their requests *)
(* interleaved.  Each service hands the next a token, and nothing else.    *)
(***************************************************************************)
EXTENDS Accounts

CONSTANTS
    Logins, MaxFailedAttempts, LockPeriod, MFAExpiry, TOTPSetupExpiry,
    DefaultSetupExpiry, FailureCap,
    Enrolments, JWTExpiry,
    Procs, BootstrapUser, InviteTTL

VARIABLES
    login, misses, abandoned,
    enrol, accepted,
    proc, stale, raced

L == INSTANCE Login
E == INSTANCE Enrolment
S == INSTANCE UserService

ASSUME AuthSystemAssumption ==
    /\ L!LoginAssumption
    /\ S!UserServiceAssumption
    /\ JWTExpiry \in Nat

loginVars == <<login, misses, abandoned>>
enrolVars == <<enrol, accepted>>
serviceVars == <<proc, stale, raced>>
vars == <<accountVars, loginVars, enrolVars, serviceVars>>

\* Accounts without a second factor: every enrolment is seen to happen.
Init ==
    /\ AccountsInit(S!RosterRow)
    /\ L!LoginInit
    /\ E!EnrolmentInit
    /\ S!ServiceInit

Next ==
    \/ \E s \in Logins : L!LoginStep(s) /\ UNCHANGED <<enrolVars, serviceVars>>
    \/ \E s \in Enrolments :
          E!EnrolmentStep(s) /\ UNCHANGED <<loginVars, serviceVars>>
    \/ \E p \in Procs : S!ServiceStep(p) /\ UNCHANGED <<loginVars, enrolVars>>
    \/ Environment /\ UNCHANGED <<loginVars, enrolVars, serviceVars>>

Spec == Init /\ [][Next]_vars

-----------------------------------------------------------------------------

TypeOK == L!TypeOK /\ E!EnrolmentTypeOK /\ S!TypeOK

Issued(purpose, u) == token'[purpose][u] > token[purpose][u]

\* README.md:30, the second factor is mandatory: whoever was ever given a
\* session has an authenticator in the table, whatever requests race,
\* replicas lag or statements fail (auth_service.go:114-132, 149-153,
\* 199-208).
MandatoryTwoFactor ==
    \A u \in Users : token["session"][u] > 0 => Enrolled(users[u])

\* Without replicas a deactivated account gets a session in one way only:
\* ConfirmTOTP checked is_active before it stored the secret, and does not
\* check what it reads afterwards (auth_service.go:192-208).
SessionForActive ==
    [][Configured = {} =>
          \A u \in Users :
             Issued("session", u) /\ ~users[u].active =>
                \E s \in Enrolments : /\ enrol[s].pc = "reload" /\ enrol[s].user = u
                                     /\ enrol'[s] # enrol[s]]_vars

\* Without replicas nobody who has an authenticator is handed a setup token,
\* with which ConfirmTOTP would replace it, but by a login that had seen none
\* (auth_service.go:114-132): not by AcceptInvite either, which does not look
\* (auth_service.go:322-358).
SetupTokensStop ==
    [][Configured = {} =>
          \A u \in Users :
             Issued("totp_setup", u) /\ Enrolled(users[u]) =>
                \E s \in Logins : /\ login[s].pc = "clear" /\ login[s].user = u
                                 /\ ~login[s].enrolled
                                 /\ login'[s] # login[s]]_vars

\* auth_service.go:347 says that AcceptInvite activates the user: an account
\* is active when its invitation has been accepted.
AcceptActivates ==
    [][\A u \in accepted' \ accepted : users'[u].active]_vars

\* Until it has been accepted an invitation opens nothing: its account is
\* inactive, and without replicas it has no authenticator, no setup token and no
\* session, not even when an acceptance was cut off after it had stored a
\* password with which the bearer then logs in (user_service.go:101-115,
\* auth_service.go:90-132, 329-358).
InviteOpensNothing ==
    \A u \in Users : token["invite"][u] > 0 /\ u \notin accepted =>
        /\ ~users[u].active
        /\ Configured = {} => /\ ~Enrolled(users[u])
                              /\ token["totp_setup"][u] = 0
                              /\ token["session"][u] = 0

AbstractRoster == INSTANCE Roster
    WITH People <- Users, admins <- ActiveSuperAdmins(users),
         excused <- raced \/ Configured # {}

\* What user management promises about the active super admins survives the
\* services that write the same rows: no lockout, enrolment or acceptance
\* moves an account on or off the roster, or falsifies what a request of user
\* management has read there (user_service.go:50-150, auth_service.go:90-132,
\* 192-208, 322-358).
KeepsRoster == AbstractRoster!Spec

\* The lockout survives the services that write the same rows: nobody is locked
\* before MAX_FAILED_ATTEMPTS wrong passwords, and without replicas nobody
\* gathers that many and stays unlocked, not even an invitee whose row had been
\* tried and locked before the invitation was sent (auth_service.go:100-107,
\* 347-350, user_service.go:120-150).
LockoutHolds == L!NoPrematureLock /\ L!AttemptsBeforeLock
=============================================================================
