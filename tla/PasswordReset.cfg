\* Two users and two requests: codes that are replaced, found and redeemed at the
\* same time, and redeemed for somebody else; with and without a replica.
CONSTANTS
    Users = {u1, u2}
    Replicas = {r1}
    Roles = {"member"}
    Passwords = {p1, p2}
    NoPassword = NoPassword
    Secrets = {}
    NoSecret = NoSecret
    MaxTime = 1
    Faults = TRUE
    Requests = {a, b}
    OTPTTL = 0
    ResetTTL = 0
    DefaultResetTTL = 1
    MaxResets = 2
    NoUser = NoUser
SPECIFICATION Spec
SYMMETRY Symmetry
INVARIANT TypeOK
INVARIANT CodeSingleUse
INVARIANT OnePending
PROPERTY OldCodeDead
PROPERTY ChangeNeedsCode
PROPERTY ImplementsOneTimeCode
\* When no account is active and no code can be created, nothing is left to do.
CHECK_DEADLOCK FALSE
