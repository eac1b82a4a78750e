\* Two processes serve two users, one of whom may have lost a role or been
\* invited; session tokens live for one tick of two.
CONSTANTS
    Users = {u1, u2}
    Replicas = {}
    Roles = {"super_admin", "admin"}
    Passwords = {p1}
    NoPassword = NoPassword
    Secrets = {}
    NoSecret = NoSecret
    MaxTime = 1
    Faults = TRUE
    Procs = {a, b}
    BootstrapUser = u0
    InviteTTL = 0
    JWTExpiry = 1
    Callers = {u1}
SPECIFICATION PipelineSpec
SYMMETRY Symmetry
INVARIANT PipelineTypeOK
INVARIANT TrailTruthful
INVARIANT TrailComplete
INVARIANT ActsUnderRecentRole
CHECK_DEADLOCK FALSE
