----------------------- MODULE RequestPipelineProofs -----------------------
(* That the routes run user management as it is written, how long a lost   *)
(* role can be used, and that the audit log is right and complete.         *)
EXTENDS RequestPipeline, UserServiceProofs

USE AccountsAssumption, UserServiceAssumption, PipelineAssumption

-----------------------------------------------------------------------------
(* The middleware adds to user management and changes nothing in it. *)

\* A step of a process is one of its handlers, or leaves the service alone.
LEMMA PipelineServes ==
    ASSUME NEW p \in Procs, PipelineStep(p)
    PROVE  ServiceStep(p) \/ UNCHANGED vars
  <1>1. CASE Request(p)
    <2>1. PICK u \in Callers, target \in Users, role \in Roles :
              \/ BeginDelete(p, u, role, target)
              \/ BeginUpdate(p, u, role, target)
              \/ BeginInvite(p, u, role, target)
      BY <1>1 DEF Request
    <2>2. CASE BeginDelete(p, u, role, target)
      BY <2>2 DEF BeginDelete, ServiceStep, Changes
    <2>3. CASE BeginUpdate(p, u, role, target)
      BY <2>3 DEF BeginUpdate, ServiceStep, Changes
    <2>4. CASE BeginInvite(p, u, role, target)
      BY <2>4 DEF BeginInvite, ServiceStep
    <2> QED
      BY <2>1, <2>2, <2>3, <2>4
  <1>2. CASE Guard(p) \/ Change(p) \/ InsertInvitee(p) \/ DisableInvitee(p)
    BY <1>2 DEF Guard, Change, InsertInvitee, DisableInvitee, ServiceStep
  <1>3. CASE Audit(p) \/ AuditFails(p)
    BY <1>3 DEF Audit, AuditFails
  <1>4. CASE FailRequest(p) \/ CrashProcess(p)
    BY <1>4 DEF FailRequest, CrashProcess, ServiceStep
  <1>5. CASE Boot(p)
    BY <1>5 DEF ServiceStep
  <1> QED
    BY <1>1, <1>2, <1>3, <1>4, <1>5 DEF PipelineStep

LEMMA PipelineNextServes == [PipelineNext]_pipelineVars => [Next]_vars
  <1> SUFFICES ASSUME [PipelineNext]_pipelineVars PROVE [Next]_vars
    OBVIOUS
  <1>1. ASSUME NEW p \in Procs, PipelineStep(p) PROVE [Next]_vars
    BY <1>1, PipelineServes DEF Next
  <1>2. ASSUME NEW u \in Callers, SignIn(u) PROVE [Next]_vars
    BY <1>2 DEF SignIn
  <1>3. CASE Environment /\ UNCHANGED <<serviceVars, pipeVars>>
    BY <1>3 DEF Next
  <1>4. CASE UNCHANGED pipelineVars
    BY <1>4 DEF pipelineVars
  <1> QED
    BY <1>1, <1>2, <1>3, <1>4 DEF PipelineNext

\* The routes implement user management: whatever UserService guarantees holds
\* behind the middleware.
THEOREM PipelineRunsService == PipelineSpec => Spec
  <1>1. PipelineInit => Init
    BY DEF PipelineInit
  <1> QED
    BY <1>1, PipelineNextServes, PTL DEF PipelineSpec, Spec

\* So the roster of super admins behaves as the abstract Roster says also behind
\* the routes: what they add to a request neither moves anybody on or off it nor
\* falsifies a reading of it (routes.go:104-138, user_service.go:50-150).
THEOREM PipelineKeepsRoster == PipelineSpec => ImplementsRoster
  BY PipelineRunsService, RosterImplemented, PTL

-----------------------------------------------------------------------------
(* Types. *)

PipeTypeOK ==
    /\ session \in [Users -> [Roles -> Nat]]
    /\ grace \in [Users -> [Roles -> Nat]]
    /\ pending \in [Procs -> SUBSET Entries]
    /\ trail \subseteq Users
    /\ invites \in Nat
    /\ missed \subseteq Entries

\* What a request has not written yet are entries.
LEMMA UnwrittenType ==
    ASSUME TypeOK, PipeTypeOK, NEW p \in Procs
    PROVE  Unwritten(p) \subseteq Entries
  <1>1. proc[p] \in State
    BY DEF TypeOK
  <1>2. CASE proc[p].pc = "disable"
    BY <1>1, <1>2, StateFields DEF Unwritten, Entries
  <1>3. CASE proc[p].pc # "disable"
    BY <1>3 DEF Unwritten, PipeTypeOK
  <1> QED
    BY <1>2, <1>3

LEMMA PipeTypeStep ==
    ASSUME TypeOK, PipeTypeOK, [PipelineNext]_pipelineVars
    PROVE  PipeTypeOK'
  <1>a. /\ proc \in [Procs -> State] /\ clock \in Nat
    BY DEF TypeOK, AccountsTypeOK, AccountsAssumption
  <1> USE DEF PipeTypeOK
  <1>1. ASSUME NEW p \in Procs, Request(p)
        PROVE  PipeTypeOK'
    BY <1>1 DEF Request, BeginDelete, BeginUpdate, BeginInvite
  <1>2. ASSUME NEW p \in Procs, Guard(p) \/ InsertInvitee(p)
        PROVE  PipeTypeOK'
    BY <1>2 DEF Guard, InsertInvitee
  <1>3. ASSUME NEW p \in Procs, Change(p)
        PROVE  PipeTypeOK'
    <2>1. [action |-> "delete", user |-> proc[p].user] \in Entries
      BY <1>3, <1>a, StateFields DEF Change, Write, Entries
    <2>2. grace' \in [Users -> [Roles -> Nat]]
      <3>1. clock + JWTExpiry \in Nat
        BY <1>a DEF PipelineAssumption
      <3> QED
        BY <1>3, <3>1 DEF Change, NoteLosses
    <2> QED
      BY <1>3, <2>1, <2>2 DEF Change, LeaveUnaudited
  <1>4. ASSUME NEW p \in Procs, DisableInvitee(p)
        PROVE  PipeTypeOK'
    <2>1. [action |-> "invite", user |-> proc[p].user] \in Entries
      BY <1>4, <1>a, StateFields DEF DisableInvitee, Disable, Entries
    <2> QED
      BY <1>4, <2>1 DEF DisableInvitee
  <1>5. ASSUME NEW p \in Procs, Audit(p)
        PROVE  PipeTypeOK'
    <2>1. PICK e \in pending[p] :
              IF e.action = "invite"
              THEN invites' = invites + 1 /\ trail' = trail
              ELSE trail' = trail \cup {e.user} /\ invites' = invites
      BY <1>5 DEF Audit
    <2>2. e.user \in Users
      BY <2>1 DEF Entries
    <2> QED
      BY <1>5, <2>1, <2>2 DEF Audit
  <1>6. ASSUME NEW p \in Procs, AuditFails(p) \/ FailRequest(p) \/ CrashProcess(p)
        PROVE  PipeTypeOK'
    <2>1. Unwritten(p) \subseteq Entries /\ pending[p] \subseteq Entries
      BY UnwrittenType
    <2>2. CASE AuditFails(p)
      BY <2>1, <2>2 DEF AuditFails
    <2>3. CASE FailRequest(p)
      BY <2>1, <2>3 DEF FailRequest, LeaveUnaudited
    <2>4. CASE CrashProcess(p)
      BY <2>1, <2>4 DEF CrashProcess
    <2> QED
      BY <1>6, <2>2, <2>3, <2>4
  <1>7. ASSUME NEW u \in Callers, SignIn(u)
        PROVE  PipeTypeOK'
    <2>1. clock + JWTExpiry \in Nat /\ u \in Users
      BY <1>a DEF PipelineAssumption
    <2>2. PICK r : session' = [session EXCEPT ![u][r] = clock + JWTExpiry]
      BY <1>7 DEF SignIn
    <2>3. [session[u] EXCEPT ![r] = clock + JWTExpiry] \in [Roles -> Nat]
      BY <2>1
    <2>4. session' \in [Users -> [Roles -> Nat]]
      BY <2>1, <2>2, <2>3
    <2> QED
      BY <1>7, <2>4 DEF SignIn
  <1>8. CASE UNCHANGED pipeVars
    BY <1>8 DEF pipeVars
  <1> QED
    BY <1>1, <1>2, <1>3, <1>4, <1>5, <1>6, <1>7, <1>8
       DEF PipelineNext, PipelineStep, pipelineVars

LEMMA PipeTypeInit == PipelineInit => PipeTypeOK
  BY DEF PipelineInit, PipeTypeOK, Entries

\* The state of the pipeline is well formed.
THEOREM PipelineTypeCorrect == PipelineSpec => []PipelineTypeOK
  <1>1. TypeOK /\ PipeTypeOK => PipelineTypeOK
    BY DEF PipeTypeOK, PipelineTypeOK
  <1> QED
    BY <1>1, PipeTypeInit, PipeTypeStep, PipelineRunsService, UserServiceTypeCorrect,
       PTL DEF PipelineSpec

-----------------------------------------------------------------------------
(* Roles in tokens. *)

\* No token outlives its issue by more than JWTExpiry, and one for a role its
\* owner has no more has expired or expires within the grace noted at the loss.
RecentSessions ==
    /\ \A u \in Users, r \in Roles : session[u][r] <= clock + JWTExpiry
    /\ Configured = {} =>
           \A u \in Users, r \in Roles :
               session[u][r] > 0 =>
                   /\ users[u].exists
                   /\ \/ users[u].role = r
                      \/ session[u][r] <= clock
                      \/ session[u][r] <= grace[u][r]

\* A role changes only by the statement that notes the loss.
LEMMA RoleKept ==
    ASSUME TypeOK, NEW p \in Procs, ServiceStep(p), ~Write(p) \/ users' = users,
           NEW u \in Users, users[u].exists
    PROVE  users'[u].role = users[u].role
  <1>a. users \in Table /\ proc \in [Procs -> State]
    BY DEF TypeOK, AccountsTypeOK
  <1>1. CASE BootCreate(p)
    BY <1>1, <1>a, BootstrapConfigured DEF BootCreate, CreateRow, Table
  <1>2. CASE Insert(p)
    BY <1>2, <1>a DEF Insert, CreateRow, Table
  <1>3. CASE Disable(p)
    BY <1>3, <1>a DEF Disable, Deactivate, Table, Row
  <1> QED
    BY <1>1, <1>2, <1>3 DEF ServiceStep, Boot, BootCount, Restart,
       FindTarget, CountAdmins, FindInvitee, Fail, Crash, accountVars

LEMMA ServiceKeepsClock ==
    ASSUME NEW p \in Procs, ServiceStep(p)
    PROVE  clock' = clock
  BY DEF ServiceStep, Boot, BootCount, BootCreate, Restart, FindTarget, CountAdmins,
         Write, FindInvitee, Insert, Disable, Fail, Crash, accountVars

LEMMA RecentStep ==
    ASSUME TypeOK, PipeTypeOK, RecentSessions, [PipelineNext]_pipelineVars
    PROVE  RecentSessions'
  <1>a. /\ users \in Table /\ clock \in Nat /\ JWTExpiry \in Nat
        /\ session \in [Users -> [Roles -> Nat]] /\ grace \in [Users -> [Roles -> Nat]]
    BY DEF TypeOK, AccountsTypeOK, PipeTypeOK, AccountsAssumption, PipelineAssumption
  <1>1. ASSUME NEW p \in Procs, Change(p)
        PROVE  RecentSessions'
    <2>1. ServiceStep(p) /\ session' = session /\ NoteLosses
      BY <1>1 DEF Change, ServiceStep
    <2>2. clock' = clock /\ Configured' = Configured
      BY <2>1, ServiceKeepsClock, ServiceKeepsReplicas
    <2>3. ASSUME Configured = {}, NEW u \in Users, NEW r \in Roles, session[u][r] > 0
          PROVE  /\ users'[u].exists
                 /\ \/ users'[u].role = r
                    \/ session[u][r] <= clock
                    \/ session[u][r] <= grace'[u][r]
      <3>1. users[u].exists
        BY <2>3 DEF RecentSessions
      <3>2. users'[u].exists
        BY <2>1, <3>1, RowsStay
      <3>3. grace'[u][r] = IF Valid(u, r) /\ users[u].role = r /\ users'[u].role # r
                           THEN clock + JWTExpiry ELSE grace[u][r]
        BY <2>1 DEF NoteLosses
      <3>4. /\ session[u][r] <= clock + JWTExpiry
            /\ \/ users[u].role = r
               \/ session[u][r] <= clock
               \/ session[u][r] <= grace[u][r]
        BY <2>3 DEF RecentSessions
      <3>5. session[u][r] \in Nat
        BY <1>a
      <3> QED
        BY <1>a, <3>2, <3>3, <3>4, <3>5 DEF Valid
    <2> QED
      BY <2>1, <2>2, <2>3 DEF RecentSessions
  <1>2. ASSUME NEW p \in Procs, PipelineStep(p), ~Change(p)
        PROVE  RecentSessions'
    <2>1. /\ session' = session /\ grace' = grace
          /\ ~Write(p) \/ users' = users
      <3>1. CASE Request(p)
        BY <3>1 DEF Request, BeginDelete, BeginUpdate, BeginInvite, FindTarget,
                    FindInvitee, Write, Up
      <3>2. CASE Guard(p) \/ InsertInvitee(p) \/ DisableInvitee(p)
        BY <3>2 DEF Guard, InsertInvitee, DisableInvitee, CountAdmins, Insert, Disable,
                    Write
      <3>3. CASE Audit(p) \/ AuditFails(p)
        BY <3>3 DEF Audit, AuditFails, vars, accountVars
      <3>4. CASE FailRequest(p) \/ CrashProcess(p)
        BY <3>4 DEF FailRequest, CrashProcess, Fail, Crash, accountVars
      <3>5. CASE Boot(p) /\ UNCHANGED pipeVars
        BY <3>5 DEF pipeVars, Boot, BootCount, BootCreate, Restart, Down, Write
      <3> QED
        BY <1>2, <3>1, <3>2, <3>3, <3>4, <3>5 DEF PipelineStep
    <2>2. CASE UNCHANGED vars
      BY <2>1, <2>2 DEF vars, accountVars, RecentSessions, Configured
    <2>3. CASE ServiceStep(p)
      <3>1. clock' = clock /\ Configured' = Configured
        BY <2>3, ServiceKeepsClock, ServiceKeepsReplicas
      <3>2. \A u \in Users : users[u].exists =>
                users'[u].exists /\ users'[u].role = users[u].role
        BY <2>1, <2>3, RowsStay, RoleKept
      <3> QED
        BY <2>1, <3>1, <3>2 DEF RecentSessions
    <2> QED
      BY <1>2, <2>1, <2>2, <2>3, PipelineServes
  <1>3. ASSUME NEW u \in Callers, SignIn(u)
        PROVE  RecentSessions'
    <2>1. PICK view \in ReadViews :
              /\ view[u].exists
              /\ session' = [session EXCEPT ![u][view[u].role] = clock + JWTExpiry]
      BY <1>3 DEF SignIn
    <2>2. UNCHANGED <<users, clock, grace>> /\ Configured' = Configured
      BY <1>3 DEF SignIn, vars, accountVars, Configured
    <2>3. ASSUME NEW v \in Users, NEW r \in Roles
          PROVE  \/ session'[v][r] = session[v][r]
                 \/ /\ v = u /\ r = view[u].role
                    /\ session'[v][r] = clock + JWTExpiry
      BY <1>a, <2>1
    <2>4. Configured = {} => view = users
      BY <2>1 DEF ReadViews
    <2>5. \A v \in Users, r \in Roles : session'[v][r] <= clock + JWTExpiry
      BY <1>a, <2>3 DEF RecentSessions
    <2>6. Configured = {} =>
              \A v \in Users, r \in Roles :
                  session'[v][r] > 0 =>
                      /\ users[v].exists
                      /\ \/ users[v].role = r
                         \/ session'[v][r] <= clock
                         \/ session'[v][r] <= grace[v][r]
      BY <2>1, <2>3, <2>4 DEF RecentSessions
    <2> QED
      BY <2>2, <2>5, <2>6 DEF RecentSessions
  <1>4. CASE Environment /\ UNCHANGED <<serviceVars, pipeVars>>
    <2>1. /\ users' = users /\ session' = session /\ grace' = grace
          /\ Configured' = Configured
      BY <1>4, EnvironmentType DEF TypeOK, pipeVars
    <2>2. clock' = clock \/ clock' = clock + 1
      BY <1>4 DEF Environment, Tick, CatchUp
    <2>3. ASSUME NEW u \in Users, NEW r \in Roles
          PROVE  /\ session[u][r] <= clock' + JWTExpiry
                 /\ session[u][r] <= clock => session[u][r] <= clock'
      <3>1. session[u][r] \in Nat /\ session[u][r] <= clock + JWTExpiry
        BY <1>a DEF RecentSessions
      <3> QED
        BY <1>a, <2>2, <3>1
    <2> QED
      BY <2>1, <2>3 DEF RecentSessions
  <1>5. CASE UNCHANGED pipelineVars
    BY <1>5 DEF pipelineVars, pipeVars, vars, accountVars, RecentSessions, Configured
  <1> QED
    BY <1>1, <1>2, <1>3, <1>4, <1>5 DEF PipelineNext

\* Without replicas a lost role is good for JWTExpiry more and no longer, for
\* any users, roles and processes and any interleaving of their requests.
THEOREM RolesExpire == PipelineSpec => []ActsUnderRecentRole
  <1>1. PipelineInit => RecentSessions
    BY DEF PipelineInit, Init, AccountsInit, RecentSessions, PipelineAssumption
  <1>2. TypeOK /\ PipeTypeOK /\ RecentSessions => ActsUnderRecentRole
    <2> SUFFICES ASSUME TypeOK, PipeTypeOK, RecentSessions, Configured = {},
                        NEW u \in Users, NEW r \in Roles, Valid(u, r)
                 PROVE  users[u].exists /\ (users[u].role = r \/ clock < grace[u][r])
      BY DEF ActsUnderRecentRole
    <2>1. /\ clock \in Nat /\ session[u][r] \in Nat /\ grace[u][r] \in Nat
      BY DEF TypeOK, AccountsTypeOK, PipeTypeOK, AccountsAssumption
    <2> QED
      BY <2>1 DEF Valid, RecentSessions
  <1> QED
    BY <1>1, <1>2, PipeTypeInit, PipeTypeStep, RecentStep, PipelineRunsService,
       UserServiceTypeCorrect, PTL DEF PipelineSpec

-----------------------------------------------------------------------------
(* Who is deactivated, who is invited. *)

\* A row that a replica or a request has seen is there.
Known ==
    /\ \A r \in Configured, u \in Users : replica[r][u].exists => users[u].exists
    /\ \A p \in Procs : proc[p].pc \in {"count", "write", "disable"}
                            => users[proc[p].user].exists

LEMMA ServiceKeepsReplica ==
    ASSUME NEW p \in Procs, ServiceStep(p)
    PROVE  replica' = replica
  BY DEF ServiceStep, Boot, BootCount, BootCreate, Restart, FindTarget, CountAdmins,
         Write, FindInvitee, Insert, Disable, Fail, Crash, accountVars

LEMMA KnownStep ==
    ASSUME TypeOK, Known, [Next]_vars
    PROVE  Known'
  <1>a. users \in Table /\ proc \in [Procs -> State]
    BY DEF TypeOK, AccountsTypeOK
  <1>b. \A view \in ReadViews, u \in Users : view[u].exists => users[u].exists
    BY DEF ReadViews, Known
  <1>1. ASSUME NEW p \in Procs, ServiceStep(p)
        PROVE  Known'
    <2>1. replica' = replica /\ Configured' = Configured
      BY <1>1, ServiceKeepsReplica, ServiceKeepsReplicas
    <2>2. \A u \in Users : users[u].exists => users'[u].exists
      BY <1>1, RowsStay
    <2>3. ASSUME NEW q \in Procs, proc'[q].pc \in {"count", "write", "disable"}
          PROVE  proc'[q].user \in Users /\ users'[proc'[q].user].exists
      <3>1. CASE proc'[q].pc = proc[q].pc /\ proc'[q].user = proc[q].user
        BY <1>a, <2>2, <2>3, <3>1, StateFields DEF Known
      <3>2. ASSUME NEW u \in Users, NEW change \in Changes, FindTarget(p, u, change),
                   q = p
            PROVE  proc'[q].user \in Users /\ users'[proc'[q].user].exists
        BY <1>a, <1>b, <2>2, <3>2 DEF FindTarget
      <3>3. CASE CountAdmins(p) /\ q = p
        <4>1. /\ proc[p] = [pc |-> "count", user |-> proc[p].user,
                            change |-> proc[p].change]
              /\ proc[p].user \in Users /\ users[proc[p].user].exists
          BY <1>a, <3>3, StateFields DEF CountAdmins, Known
        <4>2. proc'[p].user = proc[p].user
          BY <1>a, <2>3, <3>3, <4>1 DEF CountAdmins, Up
        <4> QED
          BY <2>2, <3>3, <4>1, <4>2
      <3>4. CASE Insert(p) /\ q = p
        <4>1. /\ proc[p].user \in Users /\ proc'[p].user = proc[p].user
              /\ users' = CreateRow(users, proc[p].user, proc[p].change, NoPassword)
          BY <1>a, <2>3, <3>4, StateFields DEF Insert, Up
        <4> QED
          BY <1>a, <3>4, <4>1 DEF CreateRow, Table, Row
      <3>5. CASE q # p
        BY <1>1, <1>a, <3>1, <3>5 DEF ServiceStep, Boot, BootCount, BootCreate, Restart,
           FindTarget, CountAdmins, Write, FindInvitee, Insert, Disable, Fail, Crash
      <3>6. CASE q = p /\ (Boot(p) \/ Write(p) \/ Disable(p) \/ Fail(p) \/ Crash(p)
                           \/ \E u \in Users, role \in Roles : FindInvitee(p, u, role))
        BY <1>a, <2>3, <3>6 DEF Boot, BootCount, BootCreate, Restart, Write, Disable,
           Fail, Crash, FindInvitee, Up, Down
      <3> QED
        BY <1>1, <3>2, <3>3, <3>4, <3>5, <3>6 DEF ServiceStep
    <2> QED
      BY <2>1, <2>2, <2>3, <1>a DEF Known
  <1>2. CASE Environment /\ UNCHANGED serviceVars
    <2>1. users' = users /\ proc' = proc /\ Configured' = Configured
      BY <1>2, EnvironmentType DEF TypeOK, serviceVars
    <2>2. \A r \in Configured : replica'[r] = replica[r] \/ replica'[r] = users
      BY <1>2 DEF Environment, Tick, CatchUp, Configured
    <2> QED
      BY <2>1, <2>2 DEF Known
  <1>3. CASE UNCHANGED vars
    BY <1>3 DEF vars, accountVars, serviceVars, Known, Configured
  <1> QED
    BY <1>1, <1>2, <1>3 DEF Next

\* Only the INSERT of an invitation adds an account without a password, and
\* no statement of these routes gives one a password.
LEMMA InvitedStep ==
    ASSUME TypeOK, NEW p \in Procs, ServiceStep(p)
    PROVE  \/ Invited' = Invited
           \/ /\ Insert(p)
              /\ ~users[proc[p].user].exists
              /\ Invited' = Invited \cup {proc[p].user}
  <1>a. users \in Table /\ proc \in [Procs -> State]
    BY DEF TypeOK, AccountsTypeOK
  <1>1. CASE BootCreate(p) /\ users' # users
    <2>1. PICK password \in Passwords :
              users' = CreateRow(users, BootstrapUser, SuperAdmin, password)
      BY <1>1 DEF BootCreate
    <2>2. ~users[BootstrapUser].exists /\ BootstrapUser \in Users
      BY <1>1, <1>a, BootstrapConfigured DEF BootCreate
    <2>3. \A v \in Users : v # BootstrapUser => users'[v] = users[v]
      BY <1>a, <2>1 DEF CreateRow, Table
    <2>4. users'[BootstrapUser].password # NoPassword
      BY <1>a, <2>1, <2>2 DEF CreateRow, Table, NoRow, AccountsAssumption
    <2> QED
      BY <2>2, <2>3, <2>4 DEF Invited
  <1>2. CASE Insert(p) /\ ~users[proc[p].user].exists
    <2> DEFINE u == proc[p].user
    <2>1. u \in Users /\ users' = CreateRow(users, u, proc[p].change, NoPassword)
      BY <1>2, <1>a, StateFields DEF Insert
    <2>2. \A v \in Users : v # u => users'[v] = users[v]
      BY <1>a, <2>1 DEF CreateRow, Table
    <2>3. users'[u].exists /\ users'[u].password = NoPassword
      BY <1>a, <2>1 DEF CreateRow, Table, NoRow
    <2>4. Invited' = Invited \cup {u}
      BY <2>1, <2>2, <2>3 DEF Invited
    <2> QED
      BY <1>2, <2>4
  <1>3. CASE Write(p) \/ Disable(p)
    <2>1. \A v \in Users : /\ users'[v].exists = users[v].exists
                           /\ users'[v].password = users[v].password
      BY <1>3, <1>a DEF Write, Disable, Exec, Changed, Deactivate, UpdateRole, Table, Row
    <2> QED
      BY <2>1 DEF Invited
  <1>4. CASE users' = users
    BY <1>4 DEF Invited
  <1> QED
    BY <1>1, <1>2, <1>3, <1>4 DEF ServiceStep, Boot, BootCount, BootCreate, Restart,
       FindTarget, CountAdmins, FindInvitee, Insert, Fail, Crash, accountVars

\* Nobody becomes inactive but the target of a deactivation or an invitee.
LEMMA InactiveStep ==
    ASSUME TypeOK, NEW p \in Procs, ServiceStep(p), NEW u \in Users,
           users'[u].exists, ~users'[u].active
    PROVE  \/ users[u].exists /\ ~users[u].active
           \/ /\ Write(p) /\ proc[p].change = Inactive /\ proc[p].user = u
              /\ users' = Changed(users, u, Inactive)
           \/ Disable(p) /\ proc[p].user = u
  <1>a. users \in Table /\ proc \in [Procs -> State]
    BY DEF TypeOK, AccountsTypeOK
  \* a row that is created is active
  <1>b. ASSUME NEW v \in Users, NEW role, NEW password,
               users' = users \/ users' = CreateRow(users, v, role, password)
        PROVE  users[u].exists /\ ~users[u].active
    <2>1. CreateRow(users, v, role, password)[u] = users[u]
              \/ CreateRow(users, v, role, password)[u].active = TRUE
      BY <1>a DEF CreateRow, NoRow, Table
    <2>2. users'[u] = users[u] \/ users'[u].active = TRUE
      BY <1>b, <2>1
    <2> QED
      BY <2>2
  <1>1. CASE BootCreate(p)
    <2>1. \/ users' = users
          \/ \E password \in Passwords :
                 users' = CreateRow(users, BootstrapUser, SuperAdmin, password)
      BY <1>1 DEF BootCreate
    <2>2. ASSUME NEW password \in Passwords,
                 users' = CreateRow(users, BootstrapUser, SuperAdmin, password)
          PROVE  users[u].exists /\ ~users[u].active
      <3>1. BootstrapUser \in Users
        BY <1>1, <1>a, BootstrapConfigured
      <3> QED
        BY <1>b, <2>2, <3>1
    <2>3. CASE users' = users
      BY <2>3
    <2> QED
      BY <2>1, <2>2, <2>3
  <1>2. CASE Insert(p)
    <2>1. /\ proc[p].user \in Users
          /\ \/ users' = users
             \/ users' = CreateRow(users, proc[p].user, proc[p].change, NoPassword)
      BY <1>2, <1>a, StateFields DEF Insert
    <2> QED
      BY <1>b, <2>1
  <1>3. CASE Write(p)
    <2> DEFINE v == proc[p].user
               change == proc[p].change
    <2>1. /\ v \in Users
          /\ users' = users \/ users' = Changed(users, v, change)
      BY <1>3, <1>a, StateFields DEF Write, Exec
    <2>2. CASE users' = users
      BY <2>2
    <2>3. CASE u # v
      BY <1>a, <2>1, <2>3, StatementRows DEF Changed
    <2>4. CASE change # Inactive
      BY <1>a, <2>1, <2>4 DEF Changed, UpdateRole, Table, Row
    <2> QED
      BY <1>3, <2>1, <2>2, <2>3, <2>4
  <1>4. CASE Disable(p)
    BY <1>4, <1>a DEF Disable, Deactivate, Table, Row
  <1> QED
    BY <1>1, <1>2, <1>3, <1>4 DEF ServiceStep, Boot, BootCount, Restart,
       FindTarget, CountAdmins, FindInvitee, Fail, Crash, accountVars

-----------------------------------------------------------------------------
(* The rows of the audit log that are still to be written. *)

\* A process has at most one row to write, and then no request under way.
OneRow ==
    \A p \in Procs : pending[p] # {} => proc[p] = Up /\ \E e \in Entries : pending[p] = {e}

InviteRow(u) == [action |-> "invite", user |-> u]
DeleteRow(u) == [action |-> "delete", user |-> u]

\* What a step of p does to the rows outstanding.
Quiet(p) ==
    /\ Unwritten(p)' = Unwritten(p)
    /\ UNCHANGED <<missed, invites, trail>>
    /\ ~Write(p) \/ users' = users
    /\ Invited' = Invited

Invites(p) ==
    /\ Insert(p)
    /\ proc[p].user \in Users \ Invited
    /\ Invited' = Invited \cup {proc[p].user}
    /\ Unwritten(p) = {} /\ Unwritten(p)' = {InviteRow(proc[p].user)}
    /\ UNCHANGED <<missed, invites, trail>>

Alters(p) ==
    /\ Write(p)
    /\ Invited' = Invited
    /\ Unwritten(p) = {}
    /\ UNCHANGED <<invites, trail>>
    /\ \/ /\ proc[p].change = Inactive
          /\ users' = Changed(users, proc[p].user, Inactive)
          /\ Unwritten(p)' = {DeleteRow(proc[p].user)} /\ missed' = missed
       \/ /\ proc[p].change = Inactive
          /\ Unwritten(p)' = {} /\ missed' = missed \cup {DeleteRow(proc[p].user)}
       \/ /\ proc[p].change # Inactive
          /\ Unwritten(p)' = {} /\ missed' = missed

Audits(p) ==
    /\ UNCHANGED <<vars, missed>>
    /\ Unwritten(p)' = {}
    /\ \E e \in Entries :
         /\ Unwritten(p) = {e}
         /\ IF e.action = "invite"
            THEN invites' = invites + 1 /\ trail' = trail
            ELSE trail' = trail \cup {e.user} /\ invites' = invites

Loses(p) ==
    /\ users' = users
    /\ Unwritten(p)' = {}
    /\ missed' = missed \cup Unwritten(p)
    /\ UNCHANGED <<invites, trail>>

\* Nobody else's rows are touched.
LEMMA OthersKeepRows ==
    ASSUME TypeOK, PipeTypeOK, NEW p \in Procs, PipelineStep(p),
           NEW q \in Procs, q # p
    PROVE  Unwritten(q)' = Unwritten(q) /\ pending'[q] = pending[q] /\ proc'[q] = proc[q]
  <1>a. proc \in [Procs -> State] /\ pending \in [Procs -> SUBSET Entries]
    BY DEF TypeOK, PipeTypeOK
  <1>1. proc'[q] = proc[q]
    <2>1. CASE ServiceStep(p)
      BY <2>1, <1>a DEF ServiceStep, Boot, BootCount, BootCreate, Restart, FindTarget,
         CountAdmins, Write, FindInvitee, Insert, Disable, Fail, Crash
    <2>2. CASE UNCHANGED vars
      BY <2>2 DEF vars, serviceVars
    <2> QED
      BY <2>1, <2>2, PipelineServes
  <1>2. pending'[q] = pending[q]
    BY <1>a DEF PipelineStep, Request, BeginDelete, BeginUpdate, BeginInvite, Guard,
       Change, LeaveUnaudited, InsertInvitee, DisableInvitee, Audit, AuditFails,
       FailRequest, CrashProcess, pipeVars
  <1> QED
    BY <1>1, <1>2 DEF Unwritten

\* A step of a process is of one of the five kinds.
LEMMA RowSteps ==
    ASSUME TypeOK, PipeTypeOK, OneRow, NEW p \in Procs, PipelineStep(p)
    PROVE  /\ Quiet(p) \/ Invites(p) \/ Alters(p) \/ Audits(p) \/ Loses(p)
           /\ pending'[p] # {} => proc'[p] = Up /\ \E e \in Entries : pending'[p] = {e}
  <1>a. /\ proc \in [Procs -> State] /\ pending \in [Procs -> SUBSET Entries]
        /\ Up.pc = "up" /\ Down.pc = "down"
    BY DEF TypeOK, PipeTypeOK, Up, Down
  <1>b. proc[p].pc # "up" => pending[p] = {}
    BY <1>a DEF OneRow
  <1>1. CASE Request(p)
    <2>1. /\ pending[p] = {} /\ UNCHANGED <<pending, missed, invites, trail, users>>
          /\ proc[p] = Up /\ proc'[p].pc # "disable"
      BY <1>1, <1>a DEF Request, BeginDelete, BeginUpdate, BeginInvite, Admit, FindTarget,
         FindInvitee, accountVars
    <2> QED
      BY <1>a, <2>1 DEF Quiet, Unwritten, Invited
  <1>2. CASE Guard(p)
    <2>1. /\ proc[p].pc = "count" /\ proc'[p].pc # "disable"
          /\ UNCHANGED <<pending, missed, invites, trail, users>>
      BY <1>2, <1>a, StateFields DEF Guard, CountAdmins, accountVars
    <2> QED
      BY <1>b, <2>1 DEF Quiet, Unwritten, Invited
  <1>3. CASE Change(p)
    <2>1. /\ proc[p].pc = "write" /\ proc'[p] = Up /\ pending[p] = {}
          /\ proc[p].user \in Users
      BY <1>3, <1>a, <1>b, StateFields DEF Change, Write
    <2>2. Write(p) /\ UNCHANGED <<invites, trail>>
      BY <1>3 DEF Change, LeaveUnaudited
    <2>3. ServiceStep(p) /\ ~Insert(p)
      BY <2>1, <2>2 DEF ServiceStep, Insert
    <2>4. Invited' = Invited
      BY <2>3, InvitedStep
    <2>5. Unwritten(p) = {} /\ Unwritten(p)' = pending'[p]
      BY <1>a, <2>1 DEF Unwritten
    <2>6. \/ /\ users' = Changed(users, proc[p].user, proc[p].change)
             /\ proc[p].change = Inactive
             /\ pending'[p] = {DeleteRow(proc[p].user)} /\ missed' = missed
          \/ /\ proc[p].change # Inactive
             /\ pending'[p] = {} /\ missed' = missed
          \/ /\ proc[p].change = Inactive
             /\ pending'[p] = {} /\ missed' = missed \cup {DeleteRow(proc[p].user)}
      BY <1>3, <1>a, <2>1 DEF Change, LeaveUnaudited, DeleteRow
    <2>7. Alters(p)
      BY <2>2, <2>4, <2>5, <2>6 DEF Alters
    <2>8. DeleteRow(proc[p].user) \in Entries
      BY <2>1 DEF DeleteRow, Entries
    <2> QED
      BY <2>1, <2>6, <2>7, <2>8
  <1>4. CASE InsertInvitee(p)
    <2>1. /\ proc[p].pc = "insert" /\ pending[p] = {} /\ proc[p].user \in Users
          /\ UNCHANGED <<pending, missed, invites, trail>> /\ Insert(p)
          /\ proc[p] = [pc |-> "insert", user |-> proc[p].user, change |-> proc[p].change]
      BY <1>4, <1>a, <1>b, StateFields DEF InsertInvitee, Insert
    <2>2. CASE users[proc[p].user].exists
      BY <1>a, <2>1, <2>2 DEF Insert, Quiet, Unwritten, Invited
    <2>3. CASE ~users[proc[p].user].exists
      <3>1. Invited' = Invited \cup {proc[p].user}
        <4>1. users' = CreateRow(users, proc[p].user, proc[p].change, NoPassword)
          BY <2>1, <2>3 DEF Insert
        <4>2. users'[proc[p].user].exists /\ users'[proc[p].user].password = NoPassword
          BY <2>1, <4>1 DEF CreateRow, NoRow, TypeOK, AccountsTypeOK, Table
        <4>3. proc[p].user \in Invited'
          BY <2>1, <4>2 DEF Invited
        <4> QED
          BY <2>1, <4>3, InvitedStep DEF ServiceStep
      <3>2. proc'[p].pc = "disable" /\ proc'[p].user = proc[p].user
        BY <1>a, <2>1, <2>3 DEF Insert
      <3>3. Unwritten(p) = {} /\ Unwritten(p)' = {InviteRow(proc[p].user)}
        BY <2>1, <3>2 DEF Unwritten, InviteRow
      <3>4. proc[p].user \notin Invited
        BY <2>3 DEF Invited
      <3> QED
        BY <2>1, <3>1, <3>3, <3>4 DEF Invites
    <2> QED
      BY <2>2, <2>3
  <1>5. CASE DisableInvitee(p)
    <2>1. /\ proc[p].pc = "disable" /\ proc'[p] = Up /\ proc[p].user \in Users
          /\ pending'[p] = {InviteRow(proc[p].user)}
          /\ UNCHANGED <<missed, invites, trail>> /\ Disable(p)
      BY <1>5, <1>a, StateFields DEF DisableInvitee, Disable, InviteRow
    <2>2. Unwritten(p)' = Unwritten(p)
      BY <1>a, <2>1 DEF Unwritten, InviteRow
    <2>3. Invited' = Invited /\ ~Write(p)
      BY <2>1, InvitedStep DEF ServiceStep, Insert, Write
    <2>4. InviteRow(proc[p].user) \in Entries
      BY <2>1 DEF InviteRow, Entries
    <2> QED
      BY <2>1, <2>2, <2>3, <2>4 DEF Quiet
  <1>6. CASE Audit(p)
    <2>1. PICK e \in pending[p] :
              IF e.action = "invite"
              THEN invites' = invites + 1 /\ trail' = trail
              ELSE trail' = trail \cup {e.user} /\ invites' = invites
      BY <1>6 DEF Audit
    <2>2. proc[p] = Up /\ pending[p] = {e} /\ e \in Entries
      BY <2>1, <1>a DEF OneRow
    <2>3. UNCHANGED <<vars, missed>> /\ pending'[p] = {} /\ proc' = proc
      BY <1>6, <1>a DEF Audit, vars, serviceVars
    <2>4. Unwritten(p) = {e} /\ Unwritten(p)' = {}
      BY <1>a, <2>2, <2>3 DEF Unwritten
    <2> QED
      BY <2>1, <2>2, <2>3, <2>4 DEF Audits
  <1>7. CASE AuditFails(p)
    <2>1. proc[p] = Up /\ pending'[p] = {} /\ proc' = proc /\ users' = users
      BY <1>7, <1>a DEF AuditFails, vars, serviceVars, accountVars, OneRow
    <2> QED
      BY <1>7, <1>a, <2>1 DEF AuditFails, Loses, Unwritten
  <1>8. CASE FailRequest(p)
    <2>1. /\ pending[p] = {} /\ pending' = pending /\ users' = users
          /\ proc'[p].pc # "disable"
      BY <1>8, <1>a, <1>b DEF FailRequest, Fail, LeaveUnaudited, accountVars
    <2>2. Unwritten(p)' = {}
      BY <2>1 DEF Unwritten
    <2> QED
      BY <1>8, <2>1, <2>2 DEF FailRequest, LeaveUnaudited, Loses
  <1>9. CASE CrashProcess(p)
    <2>1. pending'[p] = {} /\ proc'[p] = Down /\ users' = users
      BY <1>9, <1>a DEF CrashProcess, Crash, accountVars
    <2>2. Unwritten(p)' = {}
      BY <1>a, <2>1 DEF Unwritten
    <2> QED
      BY <1>9, <2>1, <2>2 DEF CrashProcess, Loses
  <1>10. CASE Boot(p) /\ UNCHANGED pipeVars
    <2>1. /\ proc[p].pc # "up" /\ proc[p].pc # "disable" /\ proc'[p].pc # "disable"
          /\ ~Write(p) /\ ~Insert(p) /\ ServiceStep(p)
      BY <1>10, <1>a DEF Boot, BootCount, BootCreate, Restart, Write, Insert, ServiceStep
    <2>2. UNCHANGED <<pending, missed, invites, trail>> /\ pending[p] = {}
      BY <1>10, <1>b, <2>1 DEF pipeVars
    <2>3. Invited' = Invited
      BY <2>1, InvitedStep
    <2> QED
      BY <2>1, <2>2, <2>3 DEF Quiet, Unwritten
  <1> QED
    BY <1>1, <1>2, <1>3, <1>4, <1>5, <1>6, <1>7, <1>8, <1>9, <1>10 DEF PipelineStep

-----------------------------------------------------------------------------
(* The ledger: what was done against what is written or known to be lost. *)

RowsOfOthers(p) == UNION {Unwritten(q) : q \in Procs \ {p}}

Outstanding == missed \cup InFlight
Owed == {e \in Outstanding : e.action = "invite"}

\* An invitation is written once, outstanding at one process, or lost.
InviteLedger ==
    /\ OneRow
    /\ \A e \in Owed : e.user \in Invited
    /\ \A p \in Procs : \A e \in Unwritten(p) :
           e.action = "invite" =>
               e \notin missed /\ e \notin RowsOfOthers(p)
    /\ IsFiniteSet(Invited) /\ IsFiniteSet(Owed)
    /\ Cardinality(Invited) = invites + Cardinality(Owed)

\* Outstanding before and after a step of p.
LEMMA OutstandingSplit ==
    ASSUME TypeOK, PipeTypeOK, NEW p \in Procs, PipelineStep(p)
    PROVE  /\ Outstanding = missed \cup Unwritten(p) \cup RowsOfOthers(p)
           /\ Outstanding' = missed' \cup Unwritten(p)' \cup RowsOfOthers(p)
  <1>1. \A q \in Procs \ {p} : Unwritten(q)' = Unwritten(q)
    BY OthersKeepRows
  <1>2. InFlight = Unwritten(p) \cup RowsOfOthers(p)
    BY DEF InFlight, RowsOfOthers
  <1>3. InFlight' = Unwritten(p)' \cup RowsOfOthers(p)
    BY <1>1 DEF InFlight, RowsOfOthers
  <1> QED
    BY <1>2, <1>3 DEF Outstanding

\* What a step does to the invitations outstanding.
LEMMA OwedStep ==
    ASSUME TypeOK, PipeTypeOK, InviteLedger, NEW p \in Procs, PipelineStep(p)
    PROVE  \/ /\ Owed' = Owed /\ Invited' = Invited /\ invites' = invites
           \/ /\ Owed' = Owed \cup {InviteRow(proc[p].user)}
              /\ InviteRow(proc[p].user) \notin Owed
              /\ proc[p].user \notin Invited
              /\ Invited' = Invited \cup {proc[p].user} /\ invites' = invites
           \/ \E e \in Owed : /\ Owed' = Owed \ {e}
                             /\ Invited' = Invited /\ invites' = invites + 1
  <1>a. /\ Outstanding = missed \cup Unwritten(p) \cup RowsOfOthers(p)
        /\ Outstanding' = missed' \cup Unwritten(p)' \cup RowsOfOthers(p)
    BY OutstandingSplit
  <1>b. OneRow
    BY DEF InviteLedger
  <1>1. CASE Quiet(p)
    <2>1. Outstanding' = Outstanding
      BY <1>1, <1>a DEF Quiet
    <2> QED
      BY <1>1, <2>1 DEF Quiet, Owed
  <1>2. CASE Invites(p)
    <2> DEFINE e == InviteRow(proc[p].user)
    <2>1. Outstanding' = Outstanding \cup {e}
      BY <1>2, <1>a DEF Invites
    <2>2. e.action = "invite" /\ e.user = proc[p].user
      BY DEF InviteRow
    <2>3. e \notin Owed
      BY <1>2, <2>2 DEF Invites, InviteLedger
    <2>4. Owed' = Owed \cup {e}
      BY <2>1, <2>2 DEF Owed
    <2> QED
      BY <1>2, <2>3, <2>4 DEF Invites
  <1>3. CASE Alters(p)
    <2>1. Outstanding' = Outstanding \/ Outstanding' = Outstanding \cup {DeleteRow(proc[p].user)}
      BY <1>3, <1>a DEF Alters
    <2>2. DeleteRow(proc[p].user).action # "invite"
      BY DEF DeleteRow
    <2>3. Owed' = Owed
      BY <2>1, <2>2 DEF Owed
    <2> QED
      BY <1>3, <2>3 DEF Alters
  <1>4. CASE Audits(p)
    <2>1. PICK e \in Entries :
              /\ Unwritten(p) = {e}
              /\ IF e.action = "invite"
                 THEN invites' = invites + 1 /\ trail' = trail
                 ELSE trail' = trail \cup {e.user} /\ invites' = invites
      BY <1>4 DEF Audits
    <2>2. /\ missed' = missed /\ Unwritten(p)' = {} /\ Invited' = Invited
      BY <1>4 DEF Audits, vars, accountVars, Invited
    <2>3. CASE e.action = "invite"
      <3>1. e \notin missed /\ e \notin RowsOfOthers(p)
        BY <2>1, <2>3 DEF InviteLedger
      <3>2. Outstanding' = Outstanding \ {e} /\ e \in Outstanding
        BY <1>a, <2>1, <2>2, <3>1
      <3>3. Owed' = Owed \ {e} /\ e \in Owed
        BY <2>3, <3>2 DEF Owed
      <3> QED
        BY <2>1, <2>2, <2>3, <3>3
    <2>4. CASE e.action # "invite"
      <3>1. \A x : x # e => (x \in Outstanding' <=> x \in Outstanding)
        BY <1>a, <2>1, <2>2
      <3>2. Owed' = Owed
        BY <2>4, <3>1 DEF Owed
      <3> QED
        BY <2>1, <2>2, <2>4, <3>2
    <2> QED
      BY <2>3, <2>4
  <1>5. CASE Loses(p)
    <2>1. Outstanding' = Outstanding
      BY <1>5, <1>a DEF Loses
    <2> QED
      BY <1>5, <2>1 DEF Loses, Owed, Invited
  <1> QED
    BY <1>1, <1>2, <1>3, <1>4, <1>5, <1>b, RowSteps

\* A row of an invitation stays with the one process that has to write it.
LEMMA RowsApart ==
    ASSUME TypeOK, PipeTypeOK, InviteLedger, NEW p \in Procs, PipelineStep(p),
           NEW r \in Procs, NEW e \in Unwritten(r)', e.action = "invite"
    PROVE  e \notin missed' /\ \A s \in Procs \ {r} : e \notin Unwritten(s)'
  <1>a. \A s \in Procs \ {p} : Unwritten(s)' = Unwritten(s)
    BY OthersKeepRows
  <1>b. \A s \in Procs : Unwritten(s) \subseteq Outstanding
    BY DEF Outstanding, InFlight
  <1>c. \A s \in Procs : \A x \in Unwritten(s) :
            x.action = "invite" =>
                /\ x \notin missed /\ x.user \in Invited
                /\ \A t \in Procs \ {s} : x \notin Unwritten(t)
    BY <1>b DEF InviteLedger, RowsOfOthers, Owed
  <1>d. \A u : /\ InviteRow(u).user = u /\ InviteRow(u).action = "invite"
               /\ DeleteRow(u).action # "invite"
    BY DEF InviteRow, DeleteRow
  <1>1. CASE Invites(p)
    <2> DEFINE new == InviteRow(proc[p].user)
    <2>1. /\ new \notin missed /\ missed' = missed
          /\ \A s \in Procs : new \notin Unwritten(s)
          /\ Unwritten(p)' = {new} /\ Unwritten(p) = {}
      <3>1. new.user \notin Invited /\ new.action = "invite"
        BY <1>1, <1>d DEF Invites
      <3>2. new \notin Outstanding
        BY <3>1 DEF InviteLedger, Owed
      <3> QED
        BY <1>1, <1>b, <3>2 DEF Invites, Outstanding
    <2>2. CASE r = p
      BY <1>a, <2>1, <2>2
    <2>3. CASE r # p
      BY <1>a, <1>c, <2>1, <2>3
    <2> QED
      BY <2>2, <2>3
  <1>2. CASE Quiet(p)
    BY <1>2, <1>a, <1>c DEF Quiet
  <1>3. CASE Alters(p)
    <2>1. r # p
      BY <1>3, <1>d DEF Alters
    <2>2. e \in Unwritten(r)
      BY <1>a, <2>1
    <2>3. e \notin missed' /\ e \notin Unwritten(p)'
      BY <1>3, <1>c, <1>d, <2>2 DEF Alters
    <2> QED
      BY <1>a, <1>c, <2>1, <2>2, <2>3
  <1>4. CASE Audits(p) \/ Loses(p)
    <2>1. /\ Unwritten(p)' = {}
          /\ missed' \subseteq missed \cup Unwritten(p)
      BY <1>4 DEF Audits, Loses
    <2>2. r # p /\ e \in Unwritten(r)
      BY <1>a, <2>1
    <2> QED
      BY <1>a, <1>c, <2>1, <2>2
  <1>5. OneRow
    BY DEF InviteLedger
  <1> QED
    BY <1>1, <1>2, <1>3, <1>4, <1>5, RowSteps

LEMMA LedgerStep ==
    ASSUME TypeOK, PipeTypeOK, InviteLedger, NEW p \in Procs, PipelineStep(p)
    PROVE  InviteLedger'
  <1>1. OneRow'
    <2>1. OneRow
      BY DEF InviteLedger
    <2> QED
      BY <2>1, RowSteps, OthersKeepRows DEF OneRow
  <1>2. \A r \in Procs : \A e \in Unwritten(r)' :
            e.action = "invite" => e \notin missed' /\ e \notin RowsOfOthers(r)'
    BY RowsApart DEF RowsOfOthers
  <1>3. /\ \A e \in Owed' : e.user \in Invited'
        /\ IsFiniteSet(Invited') /\ IsFiniteSet(Owed')
        /\ Cardinality(Invited') = invites' + Cardinality(Owed')
    <2>a. /\ IsFiniteSet(Invited) /\ IsFiniteSet(Owed) /\ invites \in Nat
          /\ \A e \in Owed : e.user \in Invited
          /\ Cardinality(Invited) = invites + Cardinality(Owed)
      BY DEF InviteLedger, PipeTypeOK
    <2>b. Cardinality(Owed) \in Nat
      BY <2>a, FS_CardinalityType
    <2>1. CASE Owed' = Owed /\ Invited' = Invited /\ invites' = invites
      BY <2>1, <2>a
    <2>2. CASE /\ Owed' = Owed \cup {InviteRow(proc[p].user)}
               /\ InviteRow(proc[p].user) \notin Owed
               /\ proc[p].user \notin Invited
               /\ Invited' = Invited \cup {proc[p].user} /\ invites' = invites
      <3>1. /\ IsFiniteSet(Owed') /\ Cardinality(Owed') = Cardinality(Owed) + 1
            /\ IsFiniteSet(Invited') /\ Cardinality(Invited') = Cardinality(Invited) + 1
        BY <2>2, <2>a, FS_AddElement
      <3>2. InviteRow(proc[p].user).user = proc[p].user
        BY DEF InviteRow
      <3> QED
        BY <2>2, <2>a, <2>b, <3>1, <3>2
    <2>3. ASSUME NEW e \in Owed, Owed' = Owed \ {e}, Invited' = Invited,
                 invites' = invites + 1
          PROVE  /\ \A x \in Owed' : x.user \in Invited'
                 /\ IsFiniteSet(Invited') /\ IsFiniteSet(Owed')
                 /\ Cardinality(Invited') = invites' + Cardinality(Owed')
      <3>1. IsFiniteSet(Owed') /\ Cardinality(Owed') = Cardinality(Owed) - 1
        BY <2>3, <2>a, FS_RemoveElement
      <3> QED
        BY <2>3, <2>a, <2>b, <3>1
    <2> QED
      BY <2>1, <2>2, <2>3, OwedStep
  <1> QED
    BY <1>1, <1>2, <1>3 DEF InviteLedger

-----------------------------------------------------------------------------
(* The two invariants of the log. *)

\* Rows written and about to be written name inactive accounts, and every
\* inactive account that was not invited has such a row or has lost it.
DeleteLedger ==
    /\ \A u \in trail : users[u].exists /\ ~users[u].active
    /\ \A p \in Procs : \A e \in pending[p] :
           e.action = "delete" => users[e.user].exists /\ ~users[e.user].active
    /\ \A u \in Users :
           users[u].exists /\ ~users[u].active /\ u \notin Invited =>
               u \in trail \/ DeleteRow(u) \in Outstanding

\* An account stays deactivated.
LEMMA InactiveStays ==
    ASSUME TypeOK, NEW p \in Procs, PipelineStep(p),
           NEW u \in Users, users[u].exists, ~users[u].active
    PROVE  users'[u].exists /\ ~users'[u].active
  <1>1. CASE ServiceStep(p)
    BY <1>1, RowsStay
  <1>2. CASE UNCHANGED vars
    BY <1>2 DEF vars, accountVars
  <1> QED
    BY <1>1, <1>2, PipelineServes

\* What was outstanding is so after the step or has been written.
LEMMA OutstandingStays ==
    ASSUME TypeOK, PipeTypeOK, OneRow, NEW p \in Procs, PipelineStep(p),
           NEW u \in Users, DeleteRow(u) \in Outstanding
    PROVE  u \in trail' \/ DeleteRow(u) \in Outstanding'
  <1>a. /\ Outstanding = missed \cup Unwritten(p) \cup RowsOfOthers(p)
        /\ Outstanding' = missed' \cup Unwritten(p)' \cup RowsOfOthers(p)
    BY OutstandingSplit
  <1>1. CASE Quiet(p) \/ Invites(p) \/ Alters(p) \/ Loses(p)
    BY <1>1, <1>a DEF Quiet, Invites, Alters, Loses
  <1>2. CASE Audits(p)
    <2>1. PICK e \in Entries :
              /\ Unwritten(p) = {e}
              /\ e.action # "invite" => trail' = trail \cup {e.user}
      BY <1>2 DEF Audits
    <2>2. DeleteRow(u).action # "invite" /\ DeleteRow(u).user = u
      BY DEF DeleteRow
    <2> QED
      BY <1>2, <1>a, <2>1, <2>2 DEF Audits
  <1> QED
    BY <1>1, <1>2, RowSteps

\* A row of a deactivation yet to be written is one that has taken place.
LEMMA DeletesDone ==
    ASSUME DeleteLedger, NEW p \in Procs, NEW e \in Unwritten(p), e.action # "invite",
           PipeTypeOK
    PROVE  e.user \in Users /\ users[e.user].exists /\ ~users[e.user].active
  <1>1. e \in pending[p] /\ e \in Entries
    BY DEF Unwritten, PipeTypeOK
  <1>2. e.action = "delete" /\ e.user \in Users
    BY <1>1 DEF Entries
  <1> QED
    BY <1>1, <1>2 DEF DeleteLedger

LEMMA DeleteLedgerStep ==
    ASSUME TypeOK, PipeTypeOK, Known, InviteLedger, DeleteLedger,
           NEW p \in Procs, PipelineStep(p)
    PROVE  DeleteLedger'
  <1>a. /\ users \in Table /\ proc \in [Procs -> State]
        /\ pending \in [Procs -> SUBSET Entries] /\ trail \subseteq Users
    BY DEF TypeOK, AccountsTypeOK, PipeTypeOK
  <1>b. \A u \in Users : users[u].exists /\ ~users[u].active =>
                             users'[u].exists /\ ~users'[u].active
    BY InactiveStays
  <1>c. /\ OneRow
        /\ Quiet(p) \/ Invites(p) \/ Alters(p) \/ Audits(p) \/ Loses(p)
        /\ pending'[p] # {} => proc'[p] = Up
    BY RowSteps DEF InviteLedger
  <1>1. \A u \in trail' : users'[u].exists /\ ~users'[u].active
    <2>1. CASE trail' = trail
      BY <1>a, <1>b, <2>1 DEF DeleteLedger
    <2>2. CASE trail' # trail
      <3>1. PICK e \in Unwritten(p) : e.action # "invite" /\ trail' = trail \cup {e.user}
        BY <1>c, <2>2 DEF Quiet, Invites, Alters, Audits, Loses
      <3> QED
        BY <1>a, <1>b, <3>1, DeletesDone DEF DeleteLedger
    <2> QED
      BY <2>1, <2>2
  <1>2. ASSUME NEW q \in Procs, NEW e \in pending'[q], e.action = "delete"
        PROVE  users'[e.user].exists /\ ~users'[e.user].active
    <2>1. CASE q # p
      <3>1. e \in pending[q] /\ e.user \in Users
        BY <1>a, <1>2, <2>1, OthersKeepRows DEF Entries
      <3> QED
        BY <1>b, <1>2, <3>1 DEF DeleteLedger
    <2>2. CASE q = p
      <3>1. e \in Unwritten(p)'
        BY <1>c, <1>2, <2>2 DEF Unwritten, Up
      <3>2. CASE e \in Unwritten(p)
        BY <1>b, <1>2, <3>2, DeletesDone
      <3>3. CASE e \notin Unwritten(p)
        <4>1. /\ Alters(p) /\ e = DeleteRow(proc[p].user)
              /\ users' = Changed(users, proc[p].user, Inactive)
          BY <1>c, <1>2, <3>1, <3>3 DEF Quiet, Invites, Alters, Audits, Loses, InviteRow
        <4>2. proc[p].pc = "write"
          BY <4>1 DEF Alters, Write
        <4>3. proc[p].user \in Users /\ users[proc[p].user].exists
          BY <1>a, <4>2, StateFields DEF Known
        <4>4. /\ users'[proc[p].user].exists /\ ~users'[proc[p].user].active
              /\ e.user = proc[p].user
          BY <1>a, <4>1, <4>3 DEF Changed, Deactivate, Table, Row, DeleteRow
        <4> QED
          BY <4>4
      <3> QED
        BY <3>2, <3>3
    <2> QED
      BY <2>1, <2>2
  <1>3. ASSUME NEW u \in Users, users'[u].exists, ~users'[u].active, u \notin Invited'
        PROVE  u \in trail' \/ DeleteRow(u) \in Outstanding'
    <2>1. Invited \subseteq Invited'
      <3>1. CASE ServiceStep(p)
        BY <3>1, InvitedStep
      <3>2. CASE UNCHANGED vars
        BY <3>2 DEF vars, accountVars, Invited
      <3> QED
        BY <3>1, <3>2, PipelineServes
    <2>2. CASE users[u].exists /\ ~users[u].active
      <3>1. u \in trail \/ DeleteRow(u) \in Outstanding
        BY <1>3, <2>1, <2>2 DEF DeleteLedger
      <3>2. trail \subseteq trail'
        BY <1>c DEF Quiet, Invites, Alters, Audits, Loses
      <3> QED
        BY <1>c, <3>1, <3>2, OutstandingStays
    <2>3. CASE ~(users[u].exists /\ ~users[u].active)
      <3>1. ServiceStep(p)
        BY <1>3, <2>3, PipelineServes DEF vars, accountVars
      <3>2. CASE Disable(p) /\ proc[p].user = u
        <4>1. InviteRow(u) \in Unwritten(p)
          BY <3>2 DEF Disable, Unwritten, InviteRow
        <4>2. InviteRow(u) \in Owed
          BY <4>1 DEF Owed, Outstanding, InFlight, InviteRow
        <4>3. u \in Invited
          BY <4>2 DEF InviteLedger, InviteRow
        <4> QED
          BY <1>3, <2>1, <4>3
      <3>3. CASE /\ Write(p) /\ proc[p].change = Inactive /\ proc[p].user = u
                 /\ users' = Changed(users, u, Inactive)
        <4>1. users' # users /\ ~Insert(p)
          BY <1>3, <2>3, <3>3 DEF Write, Insert
        <4>2. Alters(p)
          BY <1>c, <3>3, <4>1 DEF Quiet, Invites, Audits, Loses, vars, accountVars
        <4>3. DeleteRow(u) \in missed' \cup Unwritten(p)'
          BY <3>3, <4>2 DEF Alters
        <4> QED
          BY <4>3, OutstandingSplit
      <3> QED
        BY <1>3, <2>3, <3>1, <3>2, <3>3, InactiveStep
    <2> QED
      BY <2>2, <2>3
  <1> QED
    BY <1>1, <1>2, <1>3 DEF DeleteLedger

Ledger == Known /\ InviteLedger /\ DeleteLedger

LEMMA LedgerInit == PipelineInit => Ledger
  <1> SUFFICES ASSUME PipelineInit PROVE Ledger
    OBVIOUS
  <1>1. /\ Configured \subseteq Replicas /\ \A r \in Configured : replica[r] = users
        /\ \A p \in Procs : proc[p] = Down /\ pending[p] = {}
        /\ trail = {} /\ invites = 0
        /\ missed = {DeleteRow(u) : u \in {v \in Users : users[v].exists /\ ~users[v].active}}
    BY DEF PipelineInit, Init, AccountsInit, ServiceInit, Configured, DeleteRow
  <1>2. \A p \in Procs : Unwritten(p) = {}
    BY <1>1 DEF Unwritten, Down
  <1>3. Known
    BY <1>1 DEF Known, Down
  <1>4. Invited = {}
    <2> SUFFICES ASSUME NEW u \in Users, users[u].exists PROVE users[u].password # NoPassword
      BY DEF Invited
    <2>1. users[u] \in RosterRow /\ users[u] # NoRow
      BY DEF PipelineInit, Init, AccountsInit, NoRow
    <2>2. PICK d \in [role : Roles, active : BOOLEAN, password : Passwords] :
              users[u] = [NoRow EXCEPT !.exists = TRUE, !.role = d.role,
                                       !.active = d.active, !.password = d.password]
      BY <2>1 DEF RosterRow
    <2>3. users[u].password \in Passwords
      BY <2>2 DEF NoRow
    <2> QED
      BY <2>3 DEF AccountsAssumption
  <1>5. Owed = {}
    BY <1>1, <1>2 DEF Owed, Outstanding, InFlight, DeleteRow
  <1>6. InviteLedger
    BY <1>1, <1>2, <1>4, <1>5, FS_EmptySet DEF InviteLedger, OneRow
  <1>7. DeleteLedger
    BY <1>1 DEF DeleteLedger, Outstanding
  <1> QED
    BY <1>3, <1>6, <1>7 DEF Ledger

LEMMA LedgerNext ==
    ASSUME TypeOK, PipeTypeOK, Ledger, [PipelineNext]_pipelineVars
    PROVE  Ledger'
  <1>1. Known'
    BY KnownStep, PipelineNextServes DEF Ledger
  <1>2. ASSUME NEW p \in Procs, PipelineStep(p)
        PROVE  InviteLedger' /\ DeleteLedger'
    BY <1>2, LedgerStep, DeleteLedgerStep DEF Ledger
  <1>3. CASE UNCHANGED <<users, proc, pending, trail, invites, missed>>
    <2>1. UNCHANGED <<Invited, Outstanding, Owed>>
          /\ \A p \in Procs : Unwritten(p)' = Unwritten(p)
      BY <1>3 DEF Invited, Outstanding, Owed, InFlight, Unwritten
    <2>2. \A p \in Procs : RowsOfOthers(p)' = RowsOfOthers(p)
      BY <2>1 DEF RowsOfOthers
    <2>3. InviteLedger'
      BY <1>3, <2>1, <2>2 DEF Ledger, InviteLedger, OneRow
    <2>4. DeleteLedger'
      BY <1>3, <2>1 DEF Ledger, DeleteLedger
    <2> QED
      BY <1>1, <2>3, <2>4 DEF Ledger
  <1>4. \A u \in Callers : SignIn(u) => UNCHANGED <<users, proc, pending, trail, invites, missed>>
    BY DEF SignIn, vars, accountVars, serviceVars
  <1>5. (Environment /\ UNCHANGED <<serviceVars, pipeVars>>) \/ UNCHANGED pipelineVars
            => UNCHANGED <<users, proc, pending, trail, invites, missed>>
    BY DEF Environment, Tick, CatchUp, serviceVars, pipeVars, pipelineVars, vars, accountVars
  <1>6. \/ \E p \in Procs : PipelineStep(p)
        \/ UNCHANGED <<users, proc, pending, trail, invites, missed>>
    BY <1>4, <1>5 DEF PipelineNext
  <1> QED
    BY <1>1, <1>2, <1>3, <1>6 DEF Ledger

\* The audit log names as deactivated only who is, and holds no more rows of
\* invitations than accounts were invited.
THEOREM TrailIsTruthful == PipelineSpec => []TrailTruthful
  <1>1. PipeTypeOK /\ Ledger => TrailTruthful
    <2> SUFFICES ASSUME PipeTypeOK, Ledger PROVE TrailTruthful
      OBVIOUS
    <2>1. Cardinality(Owed) \in Nat /\ invites \in Nat
      BY FS_CardinalityType DEF Ledger, InviteLedger, PipeTypeOK
    <2>2. invites <= Cardinality(Invited)
      BY <2>1 DEF Ledger, InviteLedger
    <2> QED
      BY <2>2 DEF Ledger, DeleteLedger, TrailTruthful
  <1> QED
    BY <1>1, LedgerInit, LedgerNext, PipeTypeInit, PipeTypeStep, PipelineRunsService,
       UserServiceTypeCorrect, PTL DEF PipelineSpec

\* Every deactivation and every invitation has its row in the audit log, is
\* about to get it, or is one whose row is known to be lost, with any number
\* of processes, of failures and of crashes.
THEOREM TrailIsComplete == PipelineSpec => []TrailComplete
  <1>1. Ledger => TrailComplete
    BY DEF Ledger, InviteLedger, DeleteLedger, TrailComplete, Owed, Outstanding, DeleteRow
  <1> QED
    BY <1>1, LedgerInit, LedgerNext, PipeTypeInit, PipeTypeStep, PipelineRunsService,
       UserServiceTypeCorrect, PTL DEF PipelineSpec
=============================================================================
