------------------------- MODULE UserServiceProofs -------------------------
(* UserService: type correctness, and that the last active super admin is  *)
(* lost only to a request that decided on an out-of-date reading.          *)
EXTENDS UserService, AccountsProofs, FiniteSetTheorems

USE AccountsAssumption, UserServiceAssumption

-----------------------------------------------------------------------------
(* Types. *)

\* The states a process can be put in.
LEMMA StateShapes ==
    /\ Down \in State /\ Up \in State
    /\ [pc |-> "failed"] \in State
    /\ BootstrapUser \in Users => [pc |-> "create"] \in State
    /\ \A pc \in {"count", "write"}, u \in Users, change \in UserRoles \cup {Inactive} :
           [pc |-> pc, user |-> u, change |-> change] \in State
    /\ \A pc \in {"insert", "disable"}, u \in Users, change \in UserRoles :
           [pc |-> pc, user |-> u, change |-> change] \in State
  BY DEF State, Down, Up

\* What a request under way remembers.
LEMMA StateFields ==
    ASSUME NEW state \in State
    PROVE  /\ state.pc \in {"count", "write"} =>
                  /\ state.user \in Users
                  /\ state.change \in UserRoles \cup {Inactive}
                  /\ state = [pc |-> state.pc, user |-> state.user,
                              change |-> state.change]
           /\ state.pc \in {"insert", "disable"} =>
                  /\ state.user \in Users
                  /\ state.change \in UserRoles
                  /\ state = [pc |-> state.pc, user |-> state.user,
                              change |-> state.change]
  BY DEF State

\* Only a process that is configured to creates the first super admin.
LEMMA BootstrapConfigured ==
    ASSUME proc \in [Procs -> State], NEW p \in Procs, BootCreate(p)
    PROVE  BootstrapUser \in Users
  <1>1. proc[p] \in State /\ proc[p].pc = "create"
    BY DEF BootCreate
  <1> QED
    BY <1>1 DEF State

LEMMA RosterRowType == RosterRow \subseteq Row
  <1> SUFFICES ASSUME NEW row \in RosterRow PROVE row \in Row
    OBVIOUS
  <1>1. CASE row = NoRow
    BY <1>1 DEF NoRow, Row, UserRoles
  <1>2. CASE row # NoRow
    <2>1. PICK d \in [role : Roles, active : BOOLEAN, password : Passwords] :
            row = [NoRow EXCEPT !.exists = TRUE, !.role = d.role,
                                !.active = d.active, !.password = d.password]
      BY <1>2 DEF RosterRow
    <2>2. d.role \in UserRoles
      BY DEF AccountsAssumption
    <2> QED
      BY <2>1, <2>2 DEF Row, NoRow
  <1> QED
    BY <1>1, <1>2

\* A change of role or a deactivation leaves a well-formed table.
LEMMA ChangedType ==
    ASSUME NEW table \in Table, NEW u \in Users, NEW change \in UserRoles \cup {Inactive}
    PROVE  Changed(table, u, change) \in Table
  BY StatementTypes DEF Changed

\* Requests and start-ups keep the state typed.
LEMMA ServiceStepType ==
    ASSUME TypeOK, NEW p \in Procs, ServiceStep(p)
    PROVE  TypeOK'
  <1> USE StateShapes
  <1>a. /\ users \in Table /\ proc \in [Procs -> State] /\ stale \subseteq Procs
        /\ \A x \in Changes : x \in UserRoles \cup {Inactive}
    BY DEF TypeOK, AccountsTypeOK, Changes, AccountsAssumption
  <1>1. CASE BootCount(p)
    BY <1>1, <1>a DEF BootCount, TypeOK, AccountsTypeOK, accountVars
  <1>2. CASE BootCreate(p)
    <2>1. users' \in Table
      <3>1. SuperAdmin \in UserRoles
        BY DEF SuperAdmin, UserRoles
      <3> QED
        BY <1>2, <1>a, <3>1, BootstrapConfigured, CreateRowType DEF BootCreate
    <2> QED
      BY <1>2, <1>a, <2>1 DEF BootCreate, TypeOK, AccountsTypeOK
  <1>3. CASE Restart(p)
    BY <1>3, <1>a DEF Restart, TypeOK, AccountsTypeOK, accountVars
  <1>4. ASSUME NEW u \in Users, NEW change \in Changes, FindTarget(p, u, change)
        PROVE  TypeOK'
    <2>1. proc' \in [Procs -> State]
      BY <1>4, <1>a DEF FindTarget
    <2> QED
      BY <1>4, <1>a, <2>1 DEF FindTarget, TypeOK, AccountsTypeOK, accountVars
  <1>5. CASE CountAdmins(p)
    <2>1. proc[p].pc = "count" /\ proc[p].user \in Users
          /\ proc[p].change \in UserRoles \cup {Inactive}
          /\ proc[p] = [pc |-> "count", user |-> proc[p].user,
                        change |-> proc[p].change]
      BY <1>5, <1>a, StateFields DEF CountAdmins
    <2>2. [proc[p] EXCEPT !.pc = "write"] \in State
      BY <2>1
    <2>3. proc' \in [Procs -> State]
      BY <1>5, <1>a, <2>2 DEF CountAdmins
    <2> QED
      BY <1>5, <1>a, <2>3 DEF CountAdmins, TypeOK, AccountsTypeOK, accountVars
  <1>6. CASE Write(p)
    <2>1. users' \in Table
      BY <1>6, <1>a, StateFields, ChangedType DEF Write, Exec
    <2>2. stale' \subseteq Procs /\ raced' \in BOOLEAN
      BY <1>6, <1>a DEF Write, Outdate, TypeOK
    <2> QED
      BY <1>6, <1>a, <2>1, <2>2 DEF Write, TypeOK, AccountsTypeOK
  <1>7. ASSUME NEW u \in Users, NEW role \in Roles, FindInvitee(p, u, role)
        PROVE  TypeOK'
    <2>1. role \in UserRoles
      BY DEF AccountsAssumption
    <2>2. proc' \in [Procs -> State]
      BY <1>7, <1>a, <2>1 DEF FindInvitee
    <2> QED
      BY <1>7, <1>a, <2>2 DEF FindInvitee, TypeOK, AccountsTypeOK, accountVars
  <1>8. CASE Insert(p)
    <2>1. proc[p].pc = "insert" /\ proc[p].user \in Users
          /\ proc[p].change \in UserRoles
          /\ proc[p] = [pc |-> "insert", user |-> proc[p].user,
                        change |-> proc[p].change]
      BY <1>8, <1>a, StateFields DEF Insert
    <2>2. users' \in Table
      BY <1>8, <1>a, <2>1, CreateRowType DEF Insert
    <2>3. [proc[p] EXCEPT !.pc = "disable"] \in State
      BY <2>1
    <2>4. proc' \in [Procs -> State]
      BY <1>8, <1>a, <2>3 DEF Insert
    <2> QED
      BY <1>8, <1>a, <2>2, <2>4 DEF Insert, TypeOK, AccountsTypeOK
  <1>9. CASE Disable(p)
    <2>1. proc[p].user \in Users
      BY <1>9, <1>a, StateFields DEF Disable
    <2>2. users' \in Table
      BY <1>9, <1>a, <2>1, StatementTypes DEF Disable
    <2>3. token' \in [Purposes -> [Users -> Nat]]
      BY <1>9, <2>1, IssueTokenType DEF Disable, TypeOK, Purposes, UserServiceAssumption
    <2>4. stale' \subseteq Procs /\ raced' \in BOOLEAN
      BY <1>9, <1>a DEF Disable, Outdate, TypeOK
    <2> QED
      BY <1>9, <1>a, <2>2, <2>3, <2>4 DEF Disable, TypeOK, AccountsTypeOK
  <1>10. CASE Fail(p)
    BY <1>10, <1>a DEF Fail, TypeOK, AccountsTypeOK, accountVars
  <1>11. CASE Crash(p)
    BY <1>11, <1>a DEF Crash, TypeOK, AccountsTypeOK, accountVars
  <1> QED
    BY <1>1, <1>2, <1>3, <1>4, <1>5, <1>6, <1>7, <1>8, <1>9, <1>10, <1>11
       DEF ServiceStep, Boot

\* Every state of user management is well formed.
THEOREM UserServiceTypeCorrect == Spec => []TypeOK
  <1>1. Init => TypeOK
    <2> SUFFICES ASSUME Init PROVE TypeOK
      OBVIOUS
    <2>1. users \in Table
      BY RosterRowType DEF Init, AccountsInit, Table
    <2>2. AccountsTypeOK
      BY <2>1 DEF Init, AccountsInit, AccountsTypeOK, AccountsAssumption
    <2> QED
      BY <2>2, StateShapes DEF Init, ServiceInit, TypeOK
  <1>2. TypeOK /\ [Next]_vars => TypeOK'
    <2> SUFFICES ASSUME TypeOK, [Next]_vars PROVE TypeOK'
      OBVIOUS
    <2>1. ASSUME NEW p \in Procs, ServiceStep(p) PROVE TypeOK'
      BY <2>1, ServiceStepType
    <2>2. CASE Environment /\ UNCHANGED serviceVars
      BY <2>2, EnvironmentType DEF TypeOK, serviceVars
    <2>3. CASE UNCHANGED vars
      BY <2>3 DEF TypeOK, AccountsTypeOK, vars, accountVars, serviceVars
    <2> QED
      BY <2>1, <2>2, <2>3 DEF Next
  <1> QED
    BY <1>1, <1>2, PTL DEF Spec

-----------------------------------------------------------------------------
(* The last active super admin. *)

\* What a request knows when nobody has written since it read: its row is
\* there, and taking it off the roster would leave another super admin.
Spares(table, state) ==
    /\ table[state.user].exists
    /\ state.pc = "write" /\ state.change # SuperAdmin =>
           \/ table[state.user].role # SuperAdmin
           \/ \E w \in ActiveSuperAdmins(table) : w # state.user
    /\ state.pc = "disable" => table[state.user].role # SuperAdmin

FreshReadings ==
    Configured = {} =>
        \A p \in Procs :
            /\ p \notin stale /\ Reading(p) => Spares(users, proc[p])
            /\ proc[p].pc \in {"insert", "disable"} => proc[p].change # SuperAdmin

\* More than one super admin means one besides u.
LEMMA AnotherAdmin ==
    ASSUME NEW table, CountSuperAdmins(table) > 1, NEW u
    PROVE  \E w \in ActiveSuperAdmins(table) : w # u
  <1> SUFFICES ASSUME ActiveSuperAdmins(table) \subseteq {u} PROVE FALSE
    OBVIOUS
  <1>1. IsFiniteSet({u}) /\ Cardinality({u}) = 1
    BY FS_Singleton
  <1>2. Cardinality(ActiveSuperAdmins(table)) <= 1
    BY <1>1, FS_Subset
  <1>3. Cardinality(ActiveSuperAdmins(table)) \in Nat
    BY <1>1, FS_Subset, FS_CardinalityType
  <1> QED
    BY <1>2, <1>3 DEF CountSuperAdmins

\* Inserting a row changes no row that is there, so takes nobody off.
LEMMA InsertKeeps ==
    ASSUME NEW table \in Table, NEW u \in Users, ~table[u].exists,
           NEW role \in UserRoles, NEW password \in Passwords \cup {NoPassword}
    PROVE  LET new == CreateRow(table, u, role, password)
           IN  /\ \A v \in Users : table[v].exists => new[v] = table[v]
               /\ ActiveSuperAdmins(table) \subseteq ActiveSuperAdmins(new)
               /\ new[u].exists /\ new[u].role = role
  BY DEF CreateRow, NoRow, ActiveSuperAdmins, Table, Row

\* A request that spares somebody leaves an active super admin behind.
LEMMA SpareLeaves ==
    ASSUME NEW table \in Table, ActiveSuperAdmins(table) # {},
           NEW u \in Users, NEW change \in UserRoles \cup {Inactive},
           change # SuperAdmin =>
               \/ table[u].role # SuperAdmin
               \/ \E w \in ActiveSuperAdmins(table) : w # u
    PROVE  ActiveSuperAdmins(Changed(table, u, change)) # {}
  <1>1. CASE change = SuperAdmin
    <2>1. \A x \in Users : x \in ActiveSuperAdmins(table)
              => x \in ActiveSuperAdmins(UpdateRole(table, u, SuperAdmin))
      BY DEF ActiveSuperAdmins, UpdateRole, Table, Row
    <2>2. SuperAdmin # Inactive
      BY DEF SuperAdmin, Inactive
    <2>3. ActiveSuperAdmins(table) \subseteq Users
      BY DEF ActiveSuperAdmins
    <2> QED
      BY <1>1, <2>1, <2>2, <2>3 DEF Changed
  <1>2. CASE change # SuperAdmin
    <2>1. PICK w \in ActiveSuperAdmins(table) : w # u
      BY <1>2 DEF ActiveSuperAdmins
    <2>2. Changed(table, u, change)[w] = table[w]
      BY <2>1, StatementRows DEF Changed, ActiveSuperAdmins
    <2> QED
      BY <2>1, <2>2 DEF ActiveSuperAdmins
  <1> QED
    BY <1>1, <1>2

\* No request touches the replicas.
LEMMA ServiceKeepsReplicas ==
    ASSUME NEW p \in Procs, ServiceStep(p)
    PROVE  Configured' = Configured
  BY DEF ServiceStep, Boot, BootCount, BootCreate, Restart, FindTarget, CountAdmins,
         Write, FindInvitee, Insert, Disable, Fail, Crash, accountVars, Configured

\* A step of p leaves what the others know alone, unless it outdates them.
LEMMA FreshStep ==
    ASSUME Configured = {}, TypeOK, FreshReadings, NEW p \in Procs, ServiceStep(p)
    PROVE  FreshReadings'
  <1> USE StateShapes
  <1>a. /\ users \in Table /\ proc \in [Procs -> State] /\ stale \subseteq Procs
        /\ ReadViews = {users}
    BY DEF TypeOK, AccountsTypeOK, ReadViews
  <1> DEFINE Knows(tab, st, q, state) ==
                 /\ q \notin st /\ state.pc \in {"count", "write", "disable"}
                        => Spares(tab, state)
                 /\ state.pc \in {"insert", "disable"} => state.change # SuperAdmin
  <1>b. \A q \in Procs : Knows(users, stale, q, proc[q])
    BY DEF FreshReadings, Reading
  <1> SUFFICES \A q \in Procs : Knows(users', stale', q, proc'[q])
    BY DEF FreshReadings, Reading
  <1>c. \* p moves to a state without a reading, everything else as it was
        ASSUME users' = users, stale' = stale, NEW state,
               state.pc \notin {"count", "write", "disable", "insert"},
               proc' = [proc EXCEPT ![p] = state]
        PROVE  \A q \in Procs : Knows(users', stale', q, proc'[q])
    BY <1>a, <1>b, <1>c
  <1>d. Down.pc = "down" /\ Up.pc = "up"
    BY DEF Down, Up
  <1>1. CASE Boot(p) /\ users' = users
    <2>1. PICK state : /\ state.pc \notin {"count", "write", "disable", "insert"}
                       /\ proc' = [proc EXCEPT ![p] = state]
                       /\ stale' = stale
      <3>1. CASE BootCount(p)
        BY <3>1, <1>a, <1>d DEF BootCount
      <3>2. CASE BootCreate(p)
        BY <3>2, <1>d DEF BootCreate
      <3>3. CASE Restart(p)
        BY <3>3, <1>d DEF Restart
      <3> QED
        BY <1>1, <3>1, <3>2, <3>3 DEF Boot
    <2> QED
      BY <1>1, <1>c, <2>1
  <1>2. CASE Boot(p) /\ users' # users
    <2>1. /\ BootCreate(p) /\ ~users[BootstrapUser].exists
          /\ proc' = [proc EXCEPT ![p] = Up] /\ stale' = stale
      BY <1>2 DEF Boot, BootCount, BootCreate, Restart, accountVars
    <2>2. PICK password \in Passwords :
              users' = CreateRow(users, BootstrapUser, SuperAdmin, password)
      BY <1>2, <2>1 DEF BootCreate
    <2>3. SuperAdmin \in UserRoles /\ BootstrapUser \in Users
      BY <1>a, <2>1, BootstrapConfigured DEF SuperAdmin, UserRoles
    <2>4. /\ \A v \in Users : users[v].exists => users'[v] = users[v]
          /\ ActiveSuperAdmins(users) \subseteq ActiveSuperAdmins(users')
      BY <1>a, <2>1, <2>2, <2>3, InsertKeeps
    <2>5. ASSUME NEW q \in Procs \ {p}, Spares(users, proc[q]),
                 proc[q].pc \in {"count", "write", "disable"}
          PROVE  Spares(users', proc[q])
      <3>1. proc[q].user \in Users
        BY <2>5, <1>a, StateFields
      <3> QED
        BY <2>4, <2>5, <3>1 DEF Spares
    <2> QED
      BY <1>a, <1>b, <1>d, <2>1, <2>5
  <1>3. ASSUME NEW u \in Users, NEW change \in Changes, FindTarget(p, u, change)
        PROVE  \A q \in Procs : Knows(users', stale', q, proc'[q])
    <2>1. /\ users' = users /\ stale' = stale \ {p} /\ users[u].exists
          /\ proc' = [proc EXCEPT ![p] =
                 [pc |-> IF users[u].role = SuperAdmin /\ change # SuperAdmin
                         THEN "count" ELSE "write",
                  user |-> u, change |-> change]]
      BY <1>3, <1>a DEF FindTarget, accountVars
    <2>2. Knows(users, stale', p, proc'[p])
      BY <1>a, <2>1 DEF Spares
    <2> QED
      BY <1>a, <1>b, <2>1, <2>2
  <1>4. CASE CountAdmins(p)
    <2>1. users' = users /\ stale' = stale /\ proc[p].pc = "count"
      BY <1>4 DEF CountAdmins, accountVars
    <2>2. CASE proc' = [proc EXCEPT ![p] = Up]
      BY <1>c, <1>d, <2>1, <2>2
    <2>3. CASE /\ CountSuperAdmins(users) > 1
               /\ proc' = [proc EXCEPT ![p] = [proc[p] EXCEPT !.pc = "write"]]
      <3>1. proc[p] = [pc |-> "count", user |-> proc[p].user,
                       change |-> proc[p].change]
        BY <1>a, <2>1, StateFields
      <3>2. /\ proc'[p].pc = "write" /\ proc'[p].user = proc[p].user
            /\ proc'[p].change = proc[p].change
        BY <1>a, <2>3, <3>1
      <3>3. \E w \in ActiveSuperAdmins(users) : w # proc[p].user
        BY <2>3, AnotherAdmin
      <3>4. Knows(users, stale, p, proc'[p])
        BY <1>b, <2>1, <3>2, <3>3 DEF Spares
      <3> QED
        BY <1>a, <1>b, <2>1, <2>3, <3>4
    <2> QED
      BY <1>4, <1>a, <2>2, <2>3 DEF CountAdmins
  <1>5. CASE Write(p) \/ Disable(p)
    <2>1. proc' = [proc EXCEPT ![p] = Up] /\ Outdate(p)
      BY <1>5 DEF Write, Disable
    <2>2. CASE users' = users
      BY <1>a, <1>b, <1>d, <2>1, <2>2 DEF Outdate
    <2>3. CASE users' # users
      <3>1. \A q \in Procs \ {p} :
               q \notin stale' => proc[q].pc \notin {"count", "write", "disable"}
        BY <2>1, <2>3 DEF Outdate, Reading
      <3> QED
        BY <1>a, <1>b, <1>d, <2>1, <3>1
    <2> QED
      BY <2>2, <2>3
  <1>6. ASSUME NEW u \in Users, NEW role \in Roles, FindInvitee(p, u, role)
        PROVE  \A q \in Procs : Knows(users', stale', q, proc'[q])
    <2>1. /\ users' = users /\ stale' = stale /\ role # SuperAdmin
          /\ proc' = [proc EXCEPT ![p] =
                          [pc |-> "insert", user |-> u, change |-> role]]
      BY <1>6 DEF FindInvitee, accountVars
    <2> QED
      BY <1>a, <1>b, <2>1
  <1>7. CASE Insert(p)
    <2> DEFINE v == proc[p].user
               role == proc[p].change
    <2>1. /\ proc[p].pc = "insert" /\ v \in Users /\ role \in UserRoles
          /\ role # SuperAdmin /\ stale' = stale \ {p}
          /\ proc[p] = [pc |-> "insert", user |-> v, change |-> role]
      BY <1>7, <1>a, <1>b, StateFields DEF Insert
    <2>2. CASE users[v].exists
      <3>1. users' = users /\ proc' = [proc EXCEPT ![p] = Up]
        BY <1>7, <2>2 DEF Insert
      <3> QED
        BY <1>a, <1>b, <1>d, <2>1, <3>1
    <2>3. CASE ~users[v].exists
      <3>1. /\ users' = CreateRow(users, v, role, NoPassword)
            /\ proc' = [proc EXCEPT ![p] = [proc[p] EXCEPT !.pc = "disable"]]
        BY <1>7, <1>a, <2>3 DEF Insert
      <3>2. /\ \A w \in Users : users[w].exists => users'[w] = users[w]
            /\ ActiveSuperAdmins(users) \subseteq ActiveSuperAdmins(users')
            /\ users'[v].exists /\ users'[v].role = role
        BY <1>a, <2>1, <2>3, <3>1, InsertKeeps
      <3>3. /\ proc'[p].pc = "disable" /\ proc'[p].user = v /\ proc'[p].change = role
        BY <1>a, <2>1, <3>1
      <3>4. Knows(users', stale', p, proc'[p])
        BY <2>1, <3>2, <3>3 DEF Spares
      <3>5. ASSUME NEW q \in Procs \ {p}, Spares(users, proc[q]),
                   proc[q].pc \in {"count", "write", "disable"}
            PROVE  Spares(users', proc[q])
        <4>1. proc[q].user \in Users
          BY <3>5, <1>a, StateFields
        <4> QED
          BY <3>2, <3>5, <4>1 DEF Spares
      <3>6. \A q \in Procs \ {p} : proc'[q] = proc[q]
        BY <1>a, <3>1
      <3> QED
        BY <1>b, <2>1, <3>4, <3>5, <3>6
    <2> QED
      BY <2>2, <2>3
  <1>8. CASE Fail(p)
    <2>1. PICK state : /\ state.pc \notin {"count", "write", "disable", "insert"}
                       /\ proc' = [proc EXCEPT ![p] = state]
      BY <1>8, <1>d DEF Fail
    <2> QED
      BY <1>8, <1>c, <2>1 DEF Fail, accountVars
  <1>9. CASE Crash(p)
    BY <1>9, <1>c, <1>d DEF Crash, accountVars
  <1> QED
    BY <1>1, <1>2, <1>3, <1>4, <1>5, <1>6, <1>7, <1>8, <1>9 DEF ServiceStep

\* A step that empties the roster is the write of an out-of-date request.
LEMMA LastAdminStep ==
    ASSUME Configured = {}, TypeOK, FreshReadings, NEW p \in Procs, ServiceStep(p),
           ActiveSuperAdmins(users) # {}, ActiveSuperAdmins(users') = {}
    PROVE  /\ raced' /\ p \in stale
           /\ proc[p].pc \in {"write", "disable"} /\ proc'[p] # proc[p]
  <1>a. users \in Table /\ proc \in [Procs -> State]
    BY DEF TypeOK, AccountsTypeOK
  <1>b. users' # users
    OBVIOUS
  <1>1. CASE BootCreate(p)
    <2>1. PICK password \in Passwords :
              /\ ~users[BootstrapUser].exists
              /\ users' = CreateRow(users, BootstrapUser, SuperAdmin, password)
      BY <1>1, <1>b DEF BootCreate
    <2>2. SuperAdmin \in UserRoles /\ BootstrapUser \in Users
      BY <1>a, <1>1, BootstrapConfigured DEF SuperAdmin, UserRoles
    <2> QED
      BY <1>a, <2>1, <2>2, InsertKeeps
  <1>2. CASE Insert(p)
    <2>1. /\ proc[p].pc = "insert"
          /\ proc[p].user \in Users /\ proc[p].change \in UserRoles
      BY <1>2, <1>a, StateFields DEF Insert
    <2>2. /\ ~users[proc[p].user].exists
          /\ users' = CreateRow(users, proc[p].user, proc[p].change, NoPassword)
      BY <1>2, <1>b DEF Insert
    <2> QED
      BY <1>a, <2>1, <2>2, InsertKeeps
  <1>3. CASE Write(p)
    <2>1. /\ proc[p].pc = "write" /\ proc[p].user \in Users
          /\ proc[p].change \in UserRoles \cup {Inactive}
          /\ users' = Changed(users, proc[p].user, proc[p].change)
      BY <1>3, <1>a, <1>b, StateFields DEF Write, Exec
    <2>2. CASE p \in stale
      <3>1. raced'
        BY <1>3, <1>b, <2>2 DEF Write, Outdate
      <3>2. proc'[p] = Up
        BY <1>3, <1>a DEF Write
      <3>3. proc'[p] # proc[p]
        BY <2>1, <3>2 DEF Up
      <3> QED
        BY <2>1, <2>2, <3>1, <3>3
    <2>3. CASE p \notin stale
      <3>1. Spares(users, proc[p])
        BY <2>1, <2>3 DEF FreshReadings, Reading
      <3> QED
        BY <1>a, <2>1, <3>1, SpareLeaves DEF Spares
    <2> QED
      BY <2>2, <2>3
  <1>4. CASE Disable(p)
    <2>1. /\ proc[p].pc = "disable" /\ proc[p].user \in Users
          /\ users' = Deactivate(users, proc[p].user)
      BY <1>4, <1>a, StateFields DEF Disable
    <2>2. CASE p \in stale
      <3>1. raced'
        BY <1>4, <1>b, <2>2 DEF Disable, Outdate
      <3>2. proc'[p] = Up
        BY <1>4, <1>a DEF Disable
      <3>3. proc'[p] # proc[p]
        BY <2>1, <3>2 DEF Up
      <3> QED
        BY <2>1, <2>2, <3>1, <3>3
    <2>3. CASE p \notin stale
      <3>1. users[proc[p].user].role # SuperAdmin
        BY <2>1, <2>3 DEF FreshReadings, Reading, Spares
      <3>2. users' = Changed(users, proc[p].user, Inactive)
        BY <2>1 DEF Changed
      <3> QED
        BY <1>a, <2>1, <3>1, <3>2, SpareLeaves
    <2> QED
      BY <2>2, <2>3
  <1> QED
    BY <1>b, <1>1, <1>2, <1>3, <1>4 DEF ServiceStep, Boot, BootCount, Restart,
       FindTarget, CountAdmins, FindInvitee, Fail, Crash, accountVars

\* What requests know stays true of the table until somebody else writes.
LEMMA FreshReadingsHold == Spec => []FreshReadings
  <1>1. Init => FreshReadings
    BY DEF Init, ServiceInit, FreshReadings, Reading, Down
  <1>2. TypeOK /\ FreshReadings /\ [Next]_vars => FreshReadings'
    <2> SUFFICES ASSUME TypeOK, FreshReadings, [Next]_vars PROVE FreshReadings'
      OBVIOUS
    <2>1. ASSUME NEW p \in Procs, ServiceStep(p) PROVE FreshReadings'
      <3>1. Configured' = Configured
        BY <2>1, ServiceKeepsReplicas
      <3>2. CASE Configured = {}
        BY <2>1, <3>2, FreshStep
      <3> QED
        BY <3>1, <3>2 DEF FreshReadings
    <2>2. CASE Environment /\ UNCHANGED serviceVars
      BY <2>2, EnvironmentType DEF TypeOK, serviceVars, FreshReadings, Reading
    <2>3. CASE UNCHANGED vars
      BY <2>3 DEF vars, accountVars, serviceVars, FreshReadings, Reading, Configured
    <2> QED
      BY <2>1, <2>2, <2>3 DEF Next
  <1> QED
    BY <1>1, <1>2, UserServiceTypeCorrect, PTL DEF Spec

\* Without replicas the last active super admin goes only through a request
\* that read the roster before another request changed it, for any number of
\* accounts and processes, with failures and restarts.
THEOREM LastAdminSafe == Spec => LastAdminLostOnlyToRace
  <1> DEFINE Excused == \E p \in stale : /\ proc[p].pc \in {"write", "disable"}
                                         /\ proc'[p] # proc[p]
  <1>1. TypeOK /\ FreshReadings /\ [Next]_vars
            => [/\ Configured = {}
                /\ ActiveSuperAdmins(users) # {} /\ ActiveSuperAdmins(users)' = {}
                => Excused]_vars
    <2> SUFFICES ASSUME TypeOK, FreshReadings, Next, Configured = {},
                        ActiveSuperAdmins(users) # {}, ActiveSuperAdmins(users') = {}
                 PROVE  Excused
      OBVIOUS
    <2>1. ASSUME NEW p \in Procs, ServiceStep(p) PROVE Excused
      BY <2>1, LastAdminStep
    <2>2. CASE Environment /\ UNCHANGED serviceVars
      BY <2>2, EnvironmentType DEF TypeOK
    <2> QED
      BY <2>1, <2>2 DEF Next
  <1> QED
    BY <1>1, FreshReadingsHold, UserServiceTypeCorrect, PTL
       DEF Spec, LastAdminLostOnlyToRace

-----------------------------------------------------------------------------
(* Invite tokens. *)

\* The bearer of an invite token has a row, and Invite disables a row that is
\* there: rows are inserted active, so either could bring one back otherwise.
InviteesDisabled ==
    /\ \A u \in Users : token["invite"][u] > 0 => users[u].exists
    /\ \A p \in Procs : proc[p].pc = "disable" => users[proc[p].user].exists
    /\ TokenAfterDisable

\* No statement of user management removes a row, or makes one active again.
LEMMA RowsStay ==
    ASSUME TypeOK, NEW p \in Procs, ServiceStep(p), NEW u \in Users, users[u].exists
    PROVE  users'[u].exists /\ (users'[u].active => users[u].active)
  <1>a. users \in Table /\ proc \in [Procs -> State]
    BY DEF TypeOK, AccountsTypeOK
  <1>1. CASE BootCreate(p)
    BY <1>1, <1>a, BootstrapConfigured DEF BootCreate, CreateRow, Table
  <1>2. CASE Insert(p)
    BY <1>2, <1>a DEF Insert, CreateRow, Table
  <1>3. CASE Write(p)
    BY <1>3, <1>a DEF Write, Exec, Changed, Deactivate, UpdateRole, Table, Row
  <1>4. CASE Disable(p)
    BY <1>4, <1>a DEF Disable, Deactivate, Table, Row
  <1> QED
    BY <1>1, <1>2, <1>3, <1>4 DEF ServiceStep, Boot, BootCount, Restart,
       FindTarget, CountAdmins, FindInvitee, Fail, Crash, accountVars

LEMMA InviteesStep ==
    ASSUME TypeOK, InviteesDisabled, NEW p \in Procs, ServiceStep(p)
    PROVE  InviteesDisabled'
  <1>a. users \in Table /\ proc \in [Procs -> State]
        /\ token \in [Purposes -> [Users -> Nat]] /\ "invite" \in Purposes
    BY DEF TypeOK, AccountsTypeOK, Purposes
  <1>b. \A u \in Users : users[u].exists =>
            users'[u].exists /\ (users'[u].active => users[u].active)
    BY RowsStay
  <1>1. CASE Disable(p)
    <2>1. /\ proc[p].pc = "disable" /\ proc[p].user \in Users
          /\ users' = Deactivate(users, proc[p].user)
          /\ proc' = [proc EXCEPT ![p] = Up]
          /\ IssueToken("invite", proc[p].user, InviteTTL)
      BY <1>1, <1>a, StateFields DEF Disable
    <2>2. users'[proc[p].user].exists /\ ~users'[proc[p].user].active
      BY <1>a, <2>1 DEF InviteesDisabled, Deactivate, Table, Row
    <2>3. \A u \in Users : u # proc[p].user => token'["invite"][u] = token["invite"][u]
      BY <1>a, <2>1 DEF IssueToken
    <2>4. ASSUME NEW q \in Procs, proc'[q].pc = "disable"
          PROVE  users'[proc'[q].user].exists
      <3>1. q # p /\ proc'[q] = proc[q]
        BY <1>a, <2>1, <2>4 DEF Up
      <3> QED
        BY <1>a, <1>b, <2>4, <3>1, StateFields DEF InviteesDisabled
    <2> QED
      BY <1>b, <2>2, <2>3, <2>4 DEF InviteesDisabled, TokenAfterDisable
  <1>2. CASE ~Disable(p)
    <2>1. token' = token
      BY <1>2 DEF ServiceStep, Boot, BootCount, BootCreate, Restart, FindTarget,
         CountAdmins, Write, FindInvitee, Insert, Fail, Crash, accountVars
    <2>2. ASSUME NEW q \in Procs, proc'[q].pc = "disable"
          PROVE  users'[proc'[q].user].exists
      <3>1. CASE q # p \/ proc'[q] = proc[q]
        <4>1. proc'[q] = proc[q]
          BY <1>2, <1>a, <3>1 DEF ServiceStep, Boot, BootCount, BootCreate, Restart,
             FindTarget, CountAdmins, Write, FindInvitee, Insert, Fail, Crash
        <4> QED
          BY <1>a, <1>b, <2>2, <4>1, StateFields DEF InviteesDisabled
      <3>2. CASE q = p /\ proc'[q] # proc[q]
        <4>1. Insert(p)
          BY <1>2, <1>a, <2>2, <3>2, StateFields
             DEF ServiceStep, Boot, BootCount, BootCreate, Restart, FindTarget,
                 CountAdmins, Write, FindInvitee, Fail, Crash, Up, Down
        <4>2. /\ proc[p].user \in Users /\ proc'[p].user = proc[p].user
              /\ users' = CreateRow(users, proc[p].user, proc[p].change, NoPassword)
          BY <1>a, <2>2, <3>2, <4>1, StateFields DEF Insert, Up
        <4> QED
          BY <1>a, <3>2, <4>2 DEF CreateRow, Table, Row
      <3> QED
        BY <3>1, <3>2
    <2> QED
      BY <1>b, <2>1, <2>2 DEF InviteesDisabled, TokenAfterDisable
  <1> QED
    BY <1>1, <1>2

\* Whatever processes race, and wherever an invitation is cut off, an invite
\* token names an account that was disabled first and is disabled still.
THEOREM TokenAfterDisableSafe == Spec => []TokenAfterDisable
  <1>1. Init => InviteesDisabled
    BY DEF Init, AccountsInit, ServiceInit, InviteesDisabled, TokenAfterDisable,
           Purposes, Down
  <1>2. TypeOK /\ InviteesDisabled /\ [Next]_vars => InviteesDisabled'
    <2> SUFFICES ASSUME TypeOK, InviteesDisabled, [Next]_vars PROVE InviteesDisabled'
      OBVIOUS
    <2>1. ASSUME NEW p \in Procs, ServiceStep(p) PROVE InviteesDisabled'
      BY <2>1, InviteesStep
    <2>2. CASE Environment /\ UNCHANGED serviceVars
      BY <2>2, EnvironmentType
         DEF TypeOK, serviceVars, InviteesDisabled, TokenAfterDisable
    <2>3. CASE UNCHANGED vars
      BY <2>3 DEF vars, accountVars, serviceVars, InviteesDisabled, TokenAfterDisable
    <2> QED
      BY <2>1, <2>2, <2>3 DEF Next
  <1>3. InviteesDisabled => TokenAfterDisable
    BY DEF InviteesDisabled
  <1> QED
    BY <1>1, <1>2, <1>3, UserServiceTypeCorrect, PTL DEF Spec

-----------------------------------------------------------------------------
(* User management implements the abstract Roster. *)

\* A statement for u moves nobody on or off the roster but u.
LEMMA OneMoves ==
    ASSUME NEW table \in Table, NEW new \in Table, NEW u \in Users,
           \A v \in Users : v # u => new[v] = table[v]
    PROVE  \/ ActiveSuperAdmins(new) = ActiveSuperAdmins(table)
           \/ ActiveSuperAdmins(new) = ActiveSuperAdmins(table) \cup {u}
           \/ ActiveSuperAdmins(new) = ActiveSuperAdmins(table) \ {u}
  <1>1. \A v \in Users : v # u =>
            (v \in ActiveSuperAdmins(new) <=> v \in ActiveSuperAdmins(table))
    BY DEF ActiveSuperAdmins
  <1>2. ActiveSuperAdmins(new) \subseteq Users /\ ActiveSuperAdmins(table) \subseteq Users
    BY DEF ActiveSuperAdmins
  <1>3. CASE u \in ActiveSuperAdmins(new)
    <2>1. ActiveSuperAdmins(new) = ActiveSuperAdmins(table) \cup {u}
      BY <1>1, <1>2, <1>3
    <2> QED
      BY <2>1
  <1>4. CASE u \notin ActiveSuperAdmins(new)
    <2>1. ActiveSuperAdmins(new) = ActiveSuperAdmins(table) \ {u}
      BY <1>1, <1>2, <1>4
    <2> QED
      BY <2>1
  <1> QED
    BY <1>3, <1>4

\* A step of a process changes one row at most, and what is excused stays so.
LEMMA OneRowStep ==
    ASSUME TypeOK, NEW p \in Procs, ServiceStep(p)
    PROVE  /\ raced => raced'
           /\ users' # users =>
                  \E u \in Users : \A v \in Users : v # u => users'[v] = users[v]
           /\ users' = users => raced' = raced
  <1>a. users \in Table /\ proc \in [Procs -> State]
    BY DEF TypeOK, AccountsTypeOK
  <1>1. CASE BootCreate(p)
    <2>1. BootstrapUser \in Users
      BY <1>a, <1>1, BootstrapConfigured DEF BootCreate
    <2>2. raced' = raced
      BY <1>1 DEF BootCreate
    <2>3. \A v \in Users : v # BootstrapUser => users'[v] = users[v]
      BY <1>1, <1>a DEF BootCreate, CreateRow, Table
    <2> QED
      BY <2>1, <2>2, <2>3
  <1>2. CASE Write(p)
    <2> DEFINE u == proc[p].user
    <2>1. /\ u \in Users /\ raced' = (raced \/ (p \in stale /\ users' # users))
          /\ users' = users \/ users' = Changed(users, u, proc[p].change)
      BY <1>2, <1>a, StateFields DEF Write, Exec, Outdate
    <2>2. \A v \in Users : v # u => users'[v] = users[v]
      BY <1>a, <2>1, StatementRows DEF Changed
    <2> HIDE DEF u
    <2>3. raced => raced'
      BY <2>1
    <2>4. users' = users => raced' = raced
      BY <2>1, TypeOK DEF TypeOK
    <2> QED
      BY <2>1, <2>2, <2>3, <2>4
  <1>3. CASE Insert(p)
    <2> DEFINE u == proc[p].user
    <2>1. /\ u \in Users /\ raced' = raced
          /\ users' = users \/ users' = CreateRow(users, u, proc[p].change, NoPassword)
      BY <1>3, <1>a, StateFields DEF Insert
    <2>2. \A v \in Users : v # u => users'[v] = users[v]
      BY <1>a, <2>1 DEF CreateRow, Table
    <2> HIDE DEF u
    <2> QED
      BY <2>1, <2>2
  <1>4. CASE Disable(p)
    <2> DEFINE u == proc[p].user
    <2>1. /\ u \in Users /\ raced' = (raced \/ (p \in stale /\ users' # users))
          /\ users' = Deactivate(users, u)
      BY <1>4, <1>a, StateFields DEF Disable, Outdate
    <2>2. \A v \in Users : v # u => users'[v] = users[v]
      BY <1>a, <2>1, StatementRows
    <2> HIDE DEF u
    <2>3. raced => raced'
      BY <2>1
    <2>4. users' = users => raced' = raced
      BY <2>1, TypeOK DEF TypeOK
    <2> QED
      BY <2>1, <2>2, <2>3, <2>4
  <1> QED
    BY <1>1, <1>2, <1>3, <1>4 DEF ServiceStep, Boot, BootCount, Restart,
       FindTarget, CountAdmins, FindInvitee, Fail, Crash, accountVars

\* A step of a process moves one account on or off the roster at most, and
\* takes the last one off only when that is excused, which it then remains.
LEMMA RosterMoves ==
    ASSUME TypeOK, TypeOK', FreshReadings, NEW p \in Procs, ServiceStep(p)
    PROVE  /\ Configured' = Configured
           /\ raced => raced'
           /\ \/ ActiveSuperAdmins(users') = ActiveSuperAdmins(users)
              \/ \E u \in Users :
                    \/ ActiveSuperAdmins(users') = ActiveSuperAdmins(users) \cup {u}
                    \/ /\ ActiveSuperAdmins(users') = ActiveSuperAdmins(users) \ {u}
                       /\ ActiveSuperAdmins(users) = {u} => raced' \/ Configured # {}
  <1>1. Configured' = Configured /\ (raced => raced')
    BY ServiceKeepsReplicas, OneRowStep
  <1>2. ASSUME ActiveSuperAdmins(users') # ActiveSuperAdmins(users)
        PROVE  \E u \in Users :
                  \/ ActiveSuperAdmins(users') = ActiveSuperAdmins(users) \cup {u}
                  \/ /\ ActiveSuperAdmins(users') = ActiveSuperAdmins(users) \ {u}
                     /\ ActiveSuperAdmins(users) = {u} => raced' \/ Configured # {}
    <2>1. PICK u \in Users : \A v \in Users : v # u => users'[v] = users[v]
      BY <1>2, OneRowStep
    <2>2. \/ ActiveSuperAdmins(users') = ActiveSuperAdmins(users) \cup {u}
          \/ ActiveSuperAdmins(users') = ActiveSuperAdmins(users) \ {u}
      BY <1>2, <2>1, OneMoves DEF TypeOK, AccountsTypeOK
    <2>3. ActiveSuperAdmins(users') = {} /\ ActiveSuperAdmins(users) # {}
              => raced' \/ Configured # {}
      BY LastAdminStep
    <2> QED
      BY <2>2, <2>3
  <1> QED
    BY <1>1, <1>2

\* The roster of active super admins, read off the users table, behaves as the
\* abstract Roster says: members come and go one at a time and the last one
\* stays, but for out-of-date readings (user_service.go:50-150).
THEOREM RosterImplemented == Spec => ImplementsRoster
  <1> DEFINE admins == ActiveSuperAdmins(users)
             excused == raced \/ Configured # {}
  <1>1. Init => AbstractRoster!Init
    BY DEF Init, ServiceInit, AbstractRoster!Init, ActiveSuperAdmins
  <1>2. TypeOK /\ TypeOK' /\ FreshReadings /\ [Next]_vars => [AbstractRoster!Next]_<<admins, excused>>
    <2> SUFFICES ASSUME TypeOK, TypeOK', FreshReadings, Next, <<admins, excused>>' # <<admins, excused>>
                 PROVE  AbstractRoster!Next
      BY DEF vars, accountVars, serviceVars, Configured
    <2>1. PICK p \in Procs : ServiceStep(p)
      BY EnvironmentType DEF Next, TypeOK, serviceVars
    <2>2. (excused => excused') /\ excused' \in BOOLEAN
      BY <2>1, RosterMoves
    <2>3. CASE admins' = admins
      <3>1. excused' = TRUE
        BY <2>2, <2>3
      <3> QED
        BY <2>2, <2>3, <3>1 DEF AbstractRoster!Next, AbstractRoster!Excuse
    <2>4. CASE admins' # admins
      <3>1. PICK u \in Users : \/ admins' = admins \cup {u}
                               \/ /\ admins' = admins \ {u}
                                  /\ admins = {u} => excused'
        BY <2>1, <2>4, RosterMoves
      <3> QED
        BY <2>2, <3>1 DEF AbstractRoster!Next, AbstractRoster!Join, AbstractRoster!Leave
    <2> QED
      BY <2>3, <2>4
  <1> QED
    BY <1>1, <1>2, FreshReadingsHold, UserServiceTypeCorrect, PTL
       DEF Spec, ImplementsRoster, AbstractRoster!Spec
=============================================================================
