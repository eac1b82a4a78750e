-------------------------- MODULE RequestPipeline --------------------------
(***************************************************************************)
(* The routes of user management with their middleware around the service: *)
(* the session token and its role on the way in, the audit row on the way  *)
(* out.  UserService models the handlers; here a request also needs a      *)
(* token and, once its handler has answered, has a row still to be written.*)
(***************************************************************************)
EXTENDS UserService

CONSTANTS
    JWTExpiry,    \* JWT_EXPIRY_HOURS
    Callers       \* bound: the users who sign in

ASSUME PipelineAssumption ==
    /\ JWTExpiry \in Nat
    /\ Callers \subseteq Users

VARIABLES
    session,     \* per user and role, the latest expiry of a session token
    grace,       \* history: until when a role may be used after its loss
    pending,     \* per process, the audit row to write now that it has answered
    trail,       \* audit_logs: the targets of user.deactivate with status 204
    invites,     \* audit_logs: how many rows of user.invite with status 201
    missed       \* history: changes whose audit row has been lost

pipeVars == <<session, grace, pending, trail, invites, missed>>
pipelineVars == <<vars, pipeVars>>

Entries == [action : {"invite", "delete"}, user : Users]

AllowedRoles(route) ==
    IF route = "delete" THEN {SuperAdmin} ELSE {SuperAdmin, "admin"}

RequireRole(role, route) == role \in AllowedRoles(route)

\* An invited account has the hash "!" until its owner accepts.
Invited == {u \in Users : users[u].exists /\ users[u].password = NoPassword}

-----------------------------------------------------------------------------
(* Tokens. *)

\* A login ends in a session with the role of the row it has read.
SignIn(u) ==
    /\ \E view \in ReadViews :
         /\ view[u].exists
         /\ session' = [session EXCEPT ![u][view[u].role] = clock + JWTExpiry]
    /\ UNCHANGED <<vars, grace, pending, trail, invites, missed>>

\* Slip: the expiry of the token is not looked at.
ValidEver(u, role) == session[u][role] > 0

Valid(u, role) == clock < session[u][role]

\* RequireAuth and RequireRole, ahead of the handler's first statement.
Admit(p, u, role, route) ==
    /\ pending[p] = {}
    /\ Valid(u, role)
    /\ RequireRole(role, route)

-----------------------------------------------------------------------------
(* Statements of the handlers. *)

\* Whoever loses a role with a token for it may use it until that expires.
NoteLosses ==
    grace' = [u \in Users |-> [r \in Roles |->
                 IF Valid(u, r) /\ users[u].role = r /\ users'[u].role # r
                 THEN clock + JWTExpiry ELSE grace[u][r]]]

\* The request is over without a row in the audit log.
LeaveUnaudited(entries) ==
    /\ missed' = missed \cup entries
    /\ UNCHANGED <<pending, trail, invites>>

\* Slip: the row is due as soon as the request comes in.
BeginDeleteAudited(p, u, role, target) ==
    /\ Admit(p, u, role, "delete")
    /\ FindTarget(p, target, Inactive)
    /\ trail' = trail \cup {target}
    /\ UNCHANGED <<session, grace, pending, invites, missed>>

BeginDelete(p, u, role, target) ==
    /\ Admit(p, u, role, "delete")
    /\ FindTarget(p, target, Inactive)
    /\ UNCHANGED <<session, grace, pending, trail, invites, missed>>

BeginUpdate(p, u, role, target) ==
    /\ Admit(p, u, role, "update")
    /\ \E change \in Roles : FindTarget(p, target, change)
    /\ UNCHANGED <<session, grace, pending, trail, invites, missed>>

BeginInvite(p, u, role, target) ==
    /\ Admit(p, u, role, "invite")
    /\ \E change \in Roles : FindInvitee(p, target, change)
    /\ UNCHANGED <<session, grace, pending, trail, invites, missed>>

\* A refused request changes nothing; its row, with status 400, is not kept here.
Guard(p) ==
    /\ CountAdmins(p)
    /\ UNCHANGED <<session, grace, pending, trail, invites, missed>>

\* The last statement of Update and Deactivate: answered, and audited when it
\* is a DELETE, or failed with status 500, whatever became of the row.
Change(p) ==
    LET target == proc[p].user
        isDelete == proc[p].change = Inactive
    IN /\ Write(p)
       /\ NoteLosses
       /\ \/ /\ users' = Changed(users, target, proc[p].change)
             /\ isDelete
             /\ pending' = [pending EXCEPT ![p] = {[action |-> "delete", user |-> target]}]
             /\ UNCHANGED <<trail, invites, missed>>
          \/ /\ ~isDelete
             /\ LeaveUnaudited({})
          \/ /\ isDelete /\ Faults
             /\ LeaveUnaudited({[action |-> "delete", user |-> target]})
       /\ UNCHANGED session

\* The first statement of Invite; one that finds the row answers 500.
InsertInvitee(p) ==
    /\ Insert(p)
    /\ UNCHANGED <<session, grace, pending, trail, invites, missed>>

\* Slip: the row is named after the method of the request.
DisableInviteeByMethod(p) ==
    /\ Disable(p)
    /\ pending' = [pending EXCEPT ![p] = {[action |-> "POST", user |-> proc[p].user]}]
    /\ UNCHANGED <<session, grace, trail, invites, missed>>

DisableInvitee(p) ==
    /\ Disable(p)
    /\ pending' = [pending EXCEPT ![p] = {[action |-> "invite", user |-> proc[p].user]}]
    /\ UNCHANGED <<session, grace, trail, invites, missed>>

\* The rows a request under way was going to write.
Unwritten(p) ==
    IF proc[p].pc = "disable" THEN {[action |-> "invite", user |-> proc[p].user]}
    ELSE pending[p]

FailRequest(p) ==
    /\ Fail(p)
    /\ LeaveUnaudited(Unwritten(p))
    /\ UNCHANGED <<session, grace>>

CrashProcess(p) ==
    /\ Crash(p)
    /\ pending' = [pending EXCEPT ![p] = {}]
    /\ missed' = missed \cup Unwritten(p)
    /\ UNCHANGED <<session, grace, trail, invites>>

-----------------------------------------------------------------------------
(* Audit, once the handler has answered. *)

\* Slip: only POST is a write method.
AuditPosts(p) ==
    /\ \E e \in pending[p] :
         invites' = IF e.action = "invite" THEN invites + 1 ELSE invites
    /\ pending' = [pending EXCEPT ![p] = {}]
    /\ UNCHANGED <<vars, session, grace, trail, missed>>

\* One INSERT; the row of an invitation does not name the account.
Audit(p) ==
    /\ \E e \in pending[p] :
         IF e.action = "invite"
         THEN invites' = invites + 1 /\ trail' = trail
         ELSE trail' = trail \cup {e.user} /\ invites' = invites
    /\ pending' = [pending EXCEPT ![p] = {}]
    /\ UNCHANGED <<vars, session, grace, missed>>

\* The INSERT fails, or the client has gone and its context with it; the
\* failure is logged.
AuditFails(p) ==
    /\ Faults
    /\ pending[p] # {}
    /\ pending' = [pending EXCEPT ![p] = {}]
    /\ missed' = missed \cup pending[p]
    /\ UNCHANGED <<vars, session, grace, trail, invites>>

-----------------------------------------------------------------------------

PipelineInit ==
    /\ Init
    /\ session = [u \in Users |-> [r \in Roles |-> 0]]
    /\ grace = [u \in Users |-> [r \in Roles |-> 0]]
    /\ pending = [p \in Procs |-> {}]
    /\ trail = {}
    /\ invites = 0
    /\ missed = {[action |-> "delete", user |-> u] :
                    u \in {v \in Users : users[v].exists /\ ~users[v].active}}

Request(p) ==
    \E u \in Callers, target \in Users, role \in Roles :
        \/ BeginDelete(p, u, role, target)
        \/ BeginUpdate(p, u, role, target)
        \/ BeginInvite(p, u, role, target)

PipelineStep(p) ==
    \/ Request(p)
    \/ Guard(p) \/ Change(p) \/ InsertInvitee(p) \/ DisableInvitee(p)
    \/ Audit(p) \/ AuditFails(p)
    \/ FailRequest(p) \/ CrashProcess(p)
    \/ Boot(p) /\ UNCHANGED pipeVars

PipelineNext ==
    \/ \E p \in Procs : PipelineStep(p)
    \/ \E u \in Callers : SignIn(u)
    \/ Environment /\ UNCHANGED <<serviceVars, pipeVars>>

PipelineSpec == PipelineInit /\ [][PipelineNext]_pipelineVars

-----------------------------------------------------------------------------

PipelineTypeOK ==
    /\ TypeOK
    /\ session \in [Users -> [Roles -> Nat]]
    /\ grace \in [Users -> [Roles -> Nat]]
    /\ pending \in [Procs -> SUBSET Entries]
    /\ trail \subseteq Users
    /\ invites \in Nat
    /\ missed \subseteq Entries

\* A session token admits a request only under a role its user has, or has
\* lost within the life of a token: a demotion takes hold after JWTExpiry at
\* the latest, although no middleware looks at the table
\* (auth.go:37-80, require_role.go:11-28).
ActsUnderRecentRole ==
    Configured = {} =>
        \A u \in Users, role \in Roles :
            Valid(u, role) =>
                users[u].exists /\ (users[u].role = role \/ clock < grace[u][role])

\* The rows of requests that succeeded tell no lies: who is named as deactivated
\* is inactive, and there are no more rows of invitations than invited accounts
\* (audit.go:19-26).  Rows of refused requests are not kept here.
TrailTruthful ==
    /\ \A u \in trail : users[u].exists /\ ~users[u].active
    /\ invites <= Cardinality(Invited)

InFlight == UNION {Unwritten(p) : p \in Procs}

\* Nor do they leave out what happened: every deactivation and every
\* invitation has its row, is about to get it, or is one whose statement or
\* audit row failed or whose process died (audit.go:22-26, 56-62).
TrailComplete ==
    /\ \A u \in Users :
           users[u].exists /\ ~users[u].active /\ u \notin Invited =>
               \/ u \in trail
               \/ [action |-> "delete", user |-> u] \in missed \cup InFlight
    /\ Cardinality(Invited) =
           invites + Cardinality({e \in missed \cup InFlight : e.action = "invite"})
=============================================================================
