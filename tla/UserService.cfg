\* Two processes, whose requests race or which crash and start in between; two
\* accounts; with and without a replica that lags.
CONSTANTS
    Users = {u1, u2}
    Replicas = {r1}
    Roles = {"super_admin", "member"}
    Passwords = {p1}
    NoPassword = NoPassword
    Secrets = {}
    NoSecret = NoSecret
    MaxTime = 0
    Faults = TRUE
    Procs = {a, b}
    BootstrapUser = u1
    InviteTTL = 1
SPECIFICATION FairSpec
INVARIANT TypeOK
INVARIANT TokenAfterDisable
PROPERTY LastAdminLostOnlyToRace
PROPERTY ImplementsRoster
PROPERTY BootsEventually
