---------------------------- MODULE UserService ----------------------------
(***************************************************************************)
(* UserService (role changes, deactivation, invitation) and the start-up   *)
(* of a process, EnsureBootstrapAdmin included: everything that changes    *)
(* who is an active super admin.                                           *)
(*                                                                         *)
(* A process serves one user-management request at a time.  Two requests   *)
(* in one process share nothing but the database, exactly as two requests  *)
(* in two processes do, so several processes stand for both.               *)
(***************************************************************************)
EXTENDS Accounts

CONSTANTS
    Procs,           \* API processes on the same database
    BootstrapUser,   \* BOOTSTRAP_ADMIN_EMAIL; no user when it is empty
    InviteTTL        \* INVITE_TTL_HOURS

ASSUME UserServiceAssumption ==
    /\ InviteTTL \in Nat
    /\ Passwords # {}

VARIABLES
    proc,    \* what each process is doing
    stale,   \* history: processes whose last read of the roster is out of date
    raced    \* history: such a process has taken somebody off the roster

serviceVars == <<proc, stale, raced>>
vars == <<accountVars, serviceVars>>

Inactive == "inactive"
Changes == Roles \cup {Inactive}

Down == [pc |-> "down"]
Up == [pc |-> "up"]

State == [pc : {"down", "failed", "up"}]
         \cup [pc : IF BootstrapUser \in Users THEN {"create"} ELSE {}]
         \cup [pc : {"count", "write"}, user : Users, change : UserRoles \cup {Inactive}]
         \cup [pc : {"insert", "disable"}, user : Users, change : UserRoles]

\* Slip: Update takes every change for a change of role.
ChangedRole(table, u, change) == UpdateRole(table, u, change)

\* The row once the change a request asks for has been made.
Changed(table, u, change) ==
    IF change = Inactive THEN Deactivate(table, u) ELSE UpdateRole(table, u, change)

\* A change of u's row is visible to whoever reads next, and to nobody who
\* has read already: all other requests under way now decide on old data.
Reading(p) == proc[p].pc \in {"count", "write", "disable"}
Outdate(p) ==
    /\ stale' = IF users' = users THEN stale \ {p}
                ELSE {q \in Procs \ {p} : Reading(q)}
    /\ raced' = (raced \/ (p \in stale /\ users' # users))

-----------------------------------------------------------------------------
(* Start-up. *)

\* Slip: start-up wants a second super admin.
BootCountTwo(p) ==
    /\ proc[p] = Down
    /\ \E view \in ReadViews :
         proc' = [proc EXCEPT ![p] =
             IF BootstrapUser \notin Users \/ CountSuperAdmins(view) > 1
             THEN Up ELSE [pc |-> "create"]]
    /\ UNCHANGED <<accountVars, stale, raced>>

BootCount(p) ==
    /\ proc[p] = Down
    /\ \E view \in ReadViews :
         proc' = [proc EXCEPT ![p] =
             IF BootstrapUser \notin Users \/ CountSuperAdmins(view) > 0
             THEN Up ELSE [pc |-> "create"]]
    /\ UNCHANGED <<accountVars, stale, raced>>

\* INSERT fails on the UNIQUE email when the row is there already, and
\* New(ctx) with it: the process exits.
BootCreate(p) ==
    /\ proc[p].pc = "create"
    /\ IF users[BootstrapUser].exists
       THEN /\ proc' = [proc EXCEPT ![p] = [pc |-> "failed"]]
            /\ users' = users
       ELSE /\ proc' = [proc EXCEPT ![p] = Up]
            /\ \E password \in Passwords :
                 users' = CreateRow(users, BootstrapUser, SuperAdmin, password)
    /\ UNCHANGED <<replica, clock, token, stale, raced>>

Restart(p) ==
    /\ proc[p].pc = "failed"
    /\ proc' = [proc EXCEPT ![p] = Down]
    /\ UNCHANGED <<accountVars, stale, raced>>

-----------------------------------------------------------------------------
(* Update and Deactivate. *)

\* Slip: deactivation goes unguarded, as Invite's own use of it does.
FindTargetUnguarded(p, u, change) ==
    /\ proc[p] = Up
    /\ \E view \in ReadViews :
         /\ view[u].exists
         /\ proc' = [proc EXCEPT ![p] =
               [pc |-> IF /\ view[u].role = SuperAdmin
                          /\ change \notin {SuperAdmin, Inactive}
                       THEN "count" ELSE "write",
                user |-> u, change |-> change]]
    /\ stale' = stale \ {p}
    /\ UNCHANGED <<accountVars, raced>>

\* FindByID; the last super admin is guarded only when the row read is one.
FindTarget(p, u, change) ==
    /\ proc[p] = Up
    /\ \E view \in ReadViews :
         /\ view[u].exists
         /\ proc' = [proc EXCEPT ![p] =
               [pc |-> IF view[u].role = SuperAdmin /\ change # SuperAdmin
                       THEN "count" ELSE "write",
                user |-> u, change |-> change]]
    /\ stale' = stale \ {p}
    /\ UNCHANGED <<accountVars, raced>>

\* Slip: count < 1 instead of count <= 1.
CountAdminsOff(p) ==
    /\ proc[p].pc = "count"
    /\ \E view \in ReadViews :
         proc' = [proc EXCEPT ![p] =
             IF CountSuperAdmins(view) > 0 THEN [@ EXCEPT !.pc = "write"] ELSE Up]
    /\ UNCHANGED <<accountVars, stale, raced>>

\* count <= 1 refuses the request.
CountAdmins(p) ==
    /\ proc[p].pc = "count"
    /\ \E view \in ReadViews :
         proc' = [proc EXCEPT ![p] =
             IF CountSuperAdmins(view) > 1 THEN [@ EXCEPT !.pc = "write"] ELSE Up]
    /\ UNCHANGED <<accountVars, stale, raced>>

Write(p) ==
    /\ proc[p].pc = "write"
    /\ Exec(Changed(users, proc[p].user, proc[p].change))
    /\ proc' = [proc EXCEPT ![p] = Up]
    /\ Outdate(p)
    /\ UNCHANGED <<replica, clock, token>>

-----------------------------------------------------------------------------
(* Invite. *)

FindInvitee(p, u, role) ==
    /\ proc[p] = Up
    /\ role # SuperAdmin
    /\ \E view \in ReadViews : ~view[u].exists
    /\ proc' = [proc EXCEPT ![p] = [pc |-> "insert", user |-> u, change |-> role]]
    /\ UNCHANGED <<accountVars, stale, raced>>

\* The row starts active: is_active BOOLEAN NOT NULL DEFAULT TRUE.
Insert(p) ==
    /\ proc[p].pc = "insert"
    /\ IF users[proc[p].user].exists
       THEN /\ users' = users
            /\ proc' = [proc EXCEPT ![p] = Up]
       ELSE /\ users' = CreateRow(users, proc[p].user, proc[p].change, NoPassword)
            /\ proc' = [proc EXCEPT ![p].pc = "disable"]
    /\ stale' = stale \ {p}
    /\ UNCHANGED <<replica, clock, token, raced>>

\* Slip: Invite goes on although Deactivate failed.
DisableIgnored(p) ==
    /\ proc[p].pc = "disable"
    /\ Exec(Deactivate(users, proc[p].user))
    /\ IssueToken("invite", proc[p].user, InviteTTL)
    /\ proc' = [proc EXCEPT ![p] = Up]
    /\ Outdate(p)
    /\ UNCHANGED <<replica, clock>>

\* Deactivate without the guard, then the invite token.
Disable(p) ==
    /\ proc[p].pc = "disable"
    /\ users' = Deactivate(users, proc[p].user)
    /\ IssueToken("invite", proc[p].user, InviteTTL)
    /\ proc' = [proc EXCEPT ![p] = Up]
    /\ Outdate(p)
    /\ UNCHANGED <<replica, clock>>

-----------------------------------------------------------------------------
(* Failures. *)

\* A statement that fails, or whose answer is lost, ends the request; at
\* start-up it ends the process.
Fail(p) ==
    /\ Faults
    /\ proc[p].pc \notin {"down", "failed", "up"}
    /\ proc' = [proc EXCEPT ![p] =
                    IF proc[p].pc = "create" THEN [pc |-> "failed"] ELSE Up]
    /\ UNCHANGED <<accountVars, stale, raced>>

Crash(p) ==
    /\ Faults
    /\ proc[p] # Down
    /\ proc' = [proc EXCEPT ![p] = Down]
    /\ UNCHANGED <<accountVars, stale, raced>>

-----------------------------------------------------------------------------

ServiceInit ==
    /\ proc = [p \in Procs |-> Down]
    /\ stale = {}
    /\ raced = FALSE

Boot(p) == BootCount(p) \/ BootCreate(p) \/ Restart(p)

ServiceStep(p) ==
    \/ Boot(p)
    \/ \E u \in Users, change \in Changes : FindTarget(p, u, change)
    \/ CountAdmins(p) \/ Write(p)
    \/ \E u \in Users, role \in Roles : FindInvitee(p, u, role)
    \/ Insert(p) \/ Disable(p)
    \/ Fail(p) \/ Crash(p)

\* A fresh database, or one with accounts whose invitation is behind them.
RosterRow ==
    {NoRow} \cup {[NoRow EXCEPT !.exists = TRUE, !.role = d.role,
                                !.active = d.active, !.password = d.password] :
                      d \in [role : Roles, active : BOOLEAN, password : Passwords]}

Init == AccountsInit(RosterRow) /\ ServiceInit

Next == \/ \E p \in Procs : ServiceStep(p)
        \/ Environment /\ UNCHANGED serviceVars

Spec == Init /\ [][Next]_vars

\* The orchestrator restarts a process that has exited, a process that starts
\* runs on and is not cut off at its INSERT every time, and a replica replays
\* what it has been sent; no request has to come.
FairSpec ==
    /\ Spec
    /\ \A p \in Procs : /\ WF_vars(BootCount(p) \/ Restart(p))
                        /\ SF_vars(BootCreate(p))
    /\ \A r \in Replicas : WF_vars(r \in Configured /\ CatchUp(r) /\ UNCHANGED serviceVars)

-----------------------------------------------------------------------------

TypeOK ==
    /\ AccountsTypeOK
    /\ proc \in [Procs -> State]
    /\ stale \subseteq Procs
    /\ raced \in BOOLEAN

\* Nobody but a request whose own reading is out of date takes the last active
\* super admin off the roster: without replicas the guards of Update and
\* Deactivate, and the unguarded Deactivate of Invite, are enough for requests
\* that do not overlap another change of the roster (user_service.go:50-68,
\* 101-104, 133-150).
LastAdminLostOnlyToRace ==
    [][/\ Configured = {}
       /\ ActiveSuperAdmins(users) # {} /\ ActiveSuperAdmins(users)' = {}
       => \E p \in stale : /\ proc[p].pc \in {"write", "disable"}
                           /\ proc'[p] # proc[p]]_vars

\* user_service.go:50 and :133 say that the last super admin is guarded.
LastAdminKept ==
    [][ActiveSuperAdmins(users) # {} => ActiveSuperAdmins(users)' # {}]_vars

\* Whoever holds an invite token belongs to an inactive account: the token is
\* signed only once the row is deactivated (user_service.go:101-115), and
\* nothing here activates a row again.
TokenAfterDisable == \A u \in Users : token["invite"][u] > 0 => ~users[u].active

\* A database with an active super admin, or without the bootstrap account, or
\* a process that is not to create one.
Seedable == \/ BootstrapUser \notin Users
            \/ ActiveSuperAdmins(users) # {} \/ ~users[BootstrapUser].exists

\* As long as the database stays seedable, every process that starts comes up
\* in the end: also when several start at once, all count no super admin and
\* all but one INSERT fails, when a replica has not yet replayed the bootstrap
\* row, and when statements fail or processes crash on the way
\* (auth_service.go:401-422, app.go:70-74).
BootsEventually ==
    []Seedable => \A p \in Procs : proc[p] = Down ~> proc[p] = Up

AbstractRoster == INSTANCE Roster
    WITH People <- Users, admins <- ActiveSuperAdmins(users),
         excused <- raced \/ Configured # {}

\* Requests on the write pool that do not overlap implement the roster of
\* active super admins: they move one account at a time, and the guards of
\* Update, Deactivate and Invite (user_service.go:50-150) keep the last one.
ImplementsRoster == AbstractRoster!Spec
=============================================================================
