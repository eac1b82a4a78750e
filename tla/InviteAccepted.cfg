\* An invitation that is accepted; no statement fails.
CONSTANTS
    Users = {u1}
    Replicas = {}
    Roles = {"member"}
    Passwords = {p1}
    NoPassword = NoPassword
    Secrets = {s1, s2}
    NoSecret = NoSecret
    MaxTime = 2
    Faults = FALSE
    Logins = {l1}
    MaxFailedAttempts = 1
    LockPeriod = 1
    MFAExpiry = 1
    TOTPSetupExpiry = 1
    DefaultSetupExpiry = 1
    FailureCap = 1
    Enrolments = {e1, e2}
    JWTExpiry = 1
    Procs = {a}
    BootstrapUser = NoUser
    InviteTTL = 1
SPECIFICATION Spec
CHECK_DEADLOCK FALSE
PROPERTY AcceptActivates
