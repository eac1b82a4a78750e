\* One account, a super admin or not, two logins, two requests that enrol and one
\* that manages it.
CONSTANTS
    Users = {u1}
    Replicas = {r1}
    Roles = {"super_admin", "member"}
    Passwords = {p1}
    NoPassword = NoPassword
    Secrets = {s1}
    NoSecret = NoSecret
    MaxTime = 2
    Faults = TRUE
    Logins = {l1, l2}
    MaxFailedAttempts = 1
    LockPeriod = 1
    MFAExpiry = 1
    TOTPSetupExpiry = 1
    DefaultSetupExpiry = 1
    FailureCap = 1
    Enrolments = {e1, e2}
    JWTExpiry = 1
    Procs = {a}
    BootstrapUser = NoUser
    InviteTTL = 2
SPECIFICATION Spec
SYMMETRY Symmetry
INVARIANT TypeOK
INVARIANT MandatoryTwoFactor
INVARIANT LockoutHolds
INVARIANT InviteOpensNothing
PROPERTY SessionForActive
PROPERTY SetupTokensStop
PROPERTY KeepsRoster
CHECK_DEADLOCK FALSE
