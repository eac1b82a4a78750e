\* One account, since requests for two touch different rows; with and without a
\* replica that lags.
CONSTANTS
    Users = {u1}
    Replicas = {r1}
    Roles = {"member"}
    Passwords = {p1, p2}
    NoPassword = NoPassword
    Secrets = {s1}
    NoSecret = NoSecret
    MaxTime = 2
    Faults = TRUE
    Logins = {l1, l2, l3}
    MaxFailedAttempts = 2
    LockPeriod = 1
    MFAExpiry = 1
    TOTPSetupExpiry = 0
    DefaultSetupExpiry = 1
    FailureCap = 3
SPECIFICATION Spec
SYMMETRY Symmetry
INVARIANT AttemptsBeforeLock
INVARIANT NoPrematureLock
\* The clock and the cap on tries end a behaviour; no request has to come.
CHECK_DEADLOCK FALSE
