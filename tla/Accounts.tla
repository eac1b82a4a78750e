------------------------------ MODULE Accounts ------------------------------
(***************************************************************************)
(* The users table, the pools it is read and written through, the clock    *)
(* and the signed tokens: the state the services of internal/services     *)
(* share.  A statement of the user repository is an operator from a table  *)
(* to the table it leaves; the services run one statement per action.      *)
(*                                                                         *)
(* Writes go to the write pool.  Reads go to a replica chosen round robin, *)
(* or to the write pool when no replica is configured, so a read may see   *)
(* an earlier table.  Which replicas are configured is chosen at the start *)
(* of a behaviour: a property is checked on all these deployments, or says *)
(* that it is about the one without replicas.                              *)
(***************************************************************************)
EXTENDS Naturals, FiniteSets

CONSTANTS
    Users,        \* one element per normalised email address
    Replicas,     \* the replicas there are to configure
    Roles,        \* the roles in use in this instance
    Passwords,    \* plaintexts a bcrypt hash can match
    NoPassword,   \* the hash "!" of an invited user, matched by no plaintext
    Secrets,      \* TOTP secrets
    NoSecret,     \* totp_secret IS NULL
    MaxTime,      \* bound: the clock stops here
    Faults        \* TRUE when a statement may fail

UserRoles == {"super_admin", "admin", "manager", "member", "viewer"}
SuperAdmin == "super_admin"
Purposes == {"session", "mfa", "totp_setup", "invite", "pwd_reset"}

ASSUME AccountsAssumption ==
    /\ Roles \subseteq UserRoles
    /\ NoPassword \notin Passwords
    /\ NoSecret \notin Secrets
    /\ MaxTime \in Nat
    /\ Faults \in BOOLEAN

VARIABLES
    users,        \* the table on the write pool
    replica,      \* the table each configured replica has replayed so far
    clock,        \* time.Now() and NOW(), one unit per tick
    token         \* per purpose and user, the latest expiry ever signed

accountVars == <<users, replica, clock, token>>

\* locked = 0 is locked_until IS NULL; a secret is set exactly when
\* totp_enabled is, because SetTOTP is the only writer of either column.
Row == [exists   : BOOLEAN,
        role     : UserRoles,
        active   : BOOLEAN,
        password : Passwords \cup {NoPassword},
        secret   : Secrets \cup {NoSecret},
        failed   : Nat,
        locked   : Nat]

Table == [Users -> Row]

NoRow == [exists |-> FALSE, role |-> "member", active |-> TRUE,
          password |-> NoPassword, secret |-> NoSecret,
          failed |-> 0, locked |-> 0]

AccountsTypeOK ==
    /\ users \in Table
    /\ DOMAIN replica \subseteq Replicas
    /\ replica \in [DOMAIN replica -> Table]
    /\ clock \in 0..MaxTime
    /\ token \in [Purposes -> [Users -> Nat]]

-----------------------------------------------------------------------------
(* Reading. *)

Configured == DOMAIN replica    \* READ_DATABASE_URLS

ReadViews ==
    IF Configured = {} THEN {users} ELSE {replica[r] : r \in Configured}

IsLocked(row) == clock < row.locked
Enrolled(row) == row.secret # NoSecret

ActiveSuperAdmins(table) ==
    {u \in Users : /\ table[u].exists
                   /\ table[u].role = SuperAdmin
                   /\ table[u].active}

CountSuperAdmins(table) == Cardinality(ActiveSuperAdmins(table))

-----------------------------------------------------------------------------
(* Statements.  UPDATE ... WHERE id touches one row, and none when the row *)
(* is missing; rows are never deleted.                                     *)

CreateRow(table, u, role, password) ==
    [table EXCEPT ![u] = [NoRow EXCEPT !.exists = TRUE, !.role = role,
                                       !.password = password]]
IncrFailedAttempts(table, u) == [table EXCEPT ![u].failed = @ + 1]
LockUntil(table, u, until) == [table EXCEPT ![u].locked = until]
ClearLock(table, u) == [table EXCEPT ![u].failed = 0, ![u].locked = 0]
SetTOTP(table, u, secret) == [table EXCEPT ![u].secret = secret]
UpdatePassword(table, u, p) == [table EXCEPT ![u].password = p]
UpdateRole(table, u, role) == [table EXCEPT ![u].role = role]
Deactivate(table, u) == [table EXCEPT ![u].active = FALSE]

\* A statement whose error the caller discards: it takes effect or it does not.
Exec(table) == users' = table \/ (Faults /\ users' = users)

-----------------------------------------------------------------------------
(* Tokens are signed, never stored and never revoked: whoever holds one may *)
(* present it any number of times while now < exp.                         *)

IssueToken(purpose, u, ttl) ==
    token' = [token EXCEPT ![purpose][u] =
                  IF clock + ttl > @ THEN clock + ttl ELSE @]

Bears(purpose, u) == clock < token[purpose][u]

-----------------------------------------------------------------------------
(* The environment of the services. *)

CatchUp(r) ==
    /\ replica' = [replica EXCEPT ![r] = users]
    /\ UNCHANGED <<users, clock, token>>

Tick ==
    /\ clock < MaxTime
    /\ clock' = clock + 1
    /\ UNCHANGED <<users, replica, token>>

Environment == Tick \/ \E r \in Configured : CatchUp(r)

AccountsInit(rows) ==
    /\ users \in [Users -> rows]
    /\ \E used \in SUBSET Replicas : replica = [r \in used |-> users]
    /\ clock = 0
    /\ token = [p \in Purposes |-> [u \in Users |-> 0]]
=============================================================================
