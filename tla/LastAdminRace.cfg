\* Two requests at once.
CONSTANTS
    Users = {u1, u2}
    Replicas = {}
    Roles = {"super_admin", "member"}
    Passwords = {p1}
    NoPassword = NoPassword
    Secrets = {}
    NoSecret = NoSecret
    MaxTime = 0
    Faults = FALSE
    Procs = {a, b}
    BootstrapUser = u1
    InviteTTL = 1
SPECIFICATION Spec
PROPERTY LastAdminKept
