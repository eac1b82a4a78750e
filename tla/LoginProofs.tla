---------------------------- MODULE LoginProofs ----------------------------
(* Login: type correctness, the bound on the failures an account can       *)
(* gather before it is locked, and that no lock comes early.               *)
EXTENDS Login, AccountsProofs, FiniteSetTheorems

USE AccountsAssumption, LoginAssumption

-----------------------------------------------------------------------------
(* Types. *)

\* The states a request can be put in.
LEMMA SlotShapes ==
    /\ Idle \in Slot
    /\ \A u \in Users, pc \in {"incr", "recount"} : [pc |-> pc, user |-> u] \in Slot
    /\ \A u \in Users, t \in Nat :
           t # 0 => [pc |-> "lock", user |-> u, until |-> t] \in Slot
    /\ \A u \in Users, e \in BOOLEAN :
           [pc |-> "clear", user |-> u, enrolled |-> e] \in Slot
  BY DEF Slot, Idle

\* What a request that is under way remembers.
LEMMA SlotFields ==
    ASSUME NEW slot \in Slot
    PROVE  /\ slot # Idle => slot.user \in Users
           /\ slot.pc # "idle" => slot.user \in Users
           /\ slot.pc = "lock" => slot.until \in Nat \ {0}
  BY DEF Slot, Idle

\* A request's statement keeps the table, the slots and the histories typed.
LEMMA LoginStepType ==
    ASSUME TypeOK, NEW s \in Logins, LoginStep(s)
    PROVE  TypeOK'
  <1> USE SlotShapes
  <1>1. ASSUME NEW u \in Users, NEW password \in Passwords, Find(s, u, password)
        PROVE  TypeOK'
    <2>1. \A view \in ReadViews : Enrolled(view[u]) \in BOOLEAN
      BY DEF Enrolled
    <2>2. PICK slot : slot \in Slot /\ login' = [login EXCEPT ![s] = slot]
      BY <1>1, <2>1 DEF Find
    <2>3. login' \in [Logins -> Slot]
      BY <2>2 DEF TypeOK
    <2> QED
      BY <1>1, <2>3 DEF Find, TypeOK, AccountsTypeOK, accountVars
  <1>2. CASE Incr(s)
    <2>1. login[s].user \in Users
      BY <1>2, SlotFields DEF Incr, TypeOK
    <2>2. users' \in Table
      BY <1>2, <2>1, StatementTypes DEF Incr, Exec, TypeOK, AccountsTypeOK
    <2>3. [pc |-> "recount", user |-> login[s].user] \in Slot
      BY <2>1
    <2>4. login' \in [Logins -> Slot]
      BY <1>2, <2>3 DEF Incr, TypeOK
    <2>5. misses' \in [Users -> Nat]
      BY <1>2, <2>1 DEF Incr, TypeOK
    <2> QED
      BY <1>2, <2>2, <2>4, <2>5 DEF Incr, TypeOK, AccountsTypeOK
  <1>3. CASE Recount(s)
    <2>1. login[s].user \in Users
      BY <1>3, SlotFields DEF Recount, TypeOK
    <2>a. clock + LockPeriod \in Nat \ {0}
      BY DEF TypeOK, AccountsTypeOK, LoginAssumption, AccountsAssumption
    <2>2. login' \in [Logins -> Slot]
      BY <1>3, <2>1, <2>a DEF Recount, TypeOK
    <2> QED
      BY <1>3, <2>2 DEF Recount, TypeOK, AccountsTypeOK, accountVars
  <1>4. CASE Lock(s)
    <2>1. login[s].user \in Users /\ login[s].until \in Nat
      BY <1>4, SlotFields DEF Lock, TypeOK
    <2>2. users' \in Table
      BY <1>4, <2>1, StatementTypes DEF Lock, TypeOK, AccountsTypeOK
    <2> QED
      BY <1>4, <2>2 DEF Lock, TypeOK, AccountsTypeOK
  <1>5. CASE Clear(s)
    <2>1. login[s].user \in Users
      BY <1>5, SlotFields DEF Clear, TypeOK
    <2>2. users' \in Table
      BY <1>5, <2>1, StatementTypes DEF Clear, Exec, TypeOK, AccountsTypeOK
    <2>3. SetupTTL \in Nat /\ {"mfa", "totp_setup"} \subseteq Purposes
      BY DEF SetupTTL, Purposes
    <2>4. token' \in [Purposes -> [Users -> Nat]]
      BY <1>5, <2>1, <2>3, IssueTokenType DEF Clear, TypeOK
    <2> QED
      BY <1>5, <2>2, <2>4 DEF Clear, TypeOK, AccountsTypeOK
  <1>6. CASE Abort(s)
    <2>1. login[s].user \in Users
      BY <1>6, SlotFields DEF Abort, TypeOK
    <2> QED
      BY <1>6, <2>1 DEF Abort, TypeOK, AccountsTypeOK, accountVars
  <1> QED
    BY <1>1, <1>2, <1>3, <1>4, <1>5, <1>6 DEF LoginStep

\* The accounts a behaviour starts from: well formed, no failure recorded.
LEMMA StoredRowType ==
    ASSUME NEW row \in StoredRow
    PROVE  row \in Row /\ row.failed = 0 /\ row.locked = 0
  <1>1. PICK d \in [role : Roles, active : BOOLEAN,
                    password : Passwords \cup {NoPassword},
                    secret : Secrets \cup {NoSecret}] :
          row = [NoRow EXCEPT !.exists = TRUE, !.role = d.role,
                              !.active = d.active, !.password = d.password,
                              !.secret = d.secret]
    BY DEF StoredRow
  <1>2. d.role \in UserRoles
    BY DEF AccountsAssumption
  <1> QED
    BY <1>1, <1>2 DEF Row, NoRow

\* Every state of the login component is well formed.
THEOREM LoginTypeCorrect == Spec => []TypeOK
  <1>1. Init => TypeOK
    <2> SUFFICES ASSUME Init PROVE TypeOK
      OBVIOUS
    <2>1. users \in [Users -> StoredRow]
      BY DEF Init, AccountsInit
    <2>3. users \in Table
      BY <2>1, StoredRowType DEF Table
    <2>4. AccountsTypeOK
      BY <2>3 DEF Init, AccountsInit, AccountsTypeOK, AccountsAssumption
    <2> QED
      BY <2>4, SlotShapes DEF Init, LoginInit, TypeOK
  <1>2. TypeOK /\ [Next]_vars => TypeOK'
    <2> SUFFICES ASSUME TypeOK, [Next]_vars PROVE TypeOK'
      OBVIOUS
    <2>1. ASSUME NEW s \in Logins, LoginStep(s) PROVE TypeOK'
      BY <2>1, LoginStepType
    <2>2. CASE Environment /\ UNCHANGED loginVars
      BY <2>2, EnvironmentType DEF TypeOK, loginVars
    <2>3. CASE UNCHANGED vars
      BY <2>3 DEF TypeOK, AccountsTypeOK, vars, accountVars, loginVars
    <2> QED
      BY <2>1, <2>2, <2>3 DEF Next
  <1> QED
    BY <1>1, <1>2, PTL DEF Spec

-----------------------------------------------------------------------------
(* The failures gathered before a lock. *)

\* There are finitely many requests, of which some are about to lock.
LEMMA PendingFinite ==
    ASSUME NEW u
    PROVE  IsFiniteSet(Pending(u)) /\ Cardinality(Pending(u)) \in Nat
  <1>1. Pending(u) \subseteq Logins
    BY DEF Pending
  <1> QED
    BY <1>1, FS_Subset, FS_CardinalityType DEF LoginAssumption

\* How moving one request changes the set of those about to lock an account.
LEMMA PendingMoves ==
    ASSUME TypeOK, NEW s \in Logins, NEW slot \in Slot, NEW u \in Users,
           login' = [login EXCEPT ![s] = slot]
    PROVE  /\ Cardinality(Pending(u)) \in Nat
           /\ Cardinality(Pending(u)') \in Nat
           /\ (AboutToLock(login[s], u) <=> AboutToLock(slot, u))
                  => Pending(u)' = Pending(u)
           /\ ~AboutToLock(login[s], u) /\ AboutToLock(slot, u)
                  => Cardinality(Pending(u)') = Cardinality(Pending(u)) + 1
           /\ AboutToLock(login[s], u) /\ ~AboutToLock(slot, u)
                  => Cardinality(Pending(u)') = Cardinality(Pending(u)) - 1
  <1>1. /\ IsFiniteSet(Pending(u)) /\ Cardinality(Pending(u)) \in Nat
        /\ s \in Pending(u) <=> AboutToLock(login[s], u)
    BY PendingFinite DEF Pending
  <1>2. login'[s] = slot /\ \A t \in Logins \ {s} : login'[t] = login[t]
    BY DEF TypeOK
  <1>3. Pending(u)' = {t \in Logins : AboutToLock(login'[t], u)}
    BY DEF Pending
  <1>4. AboutToLock(slot, u) => Pending(u)' = Pending(u) \cup {s}
    BY <1>2, <1>3 DEF Pending
  <1>5. ~AboutToLock(slot, u) => Pending(u)' = Pending(u) \ {s}
    BY <1>2, <1>3 DEF Pending
  <1>6. CASE AboutToLock(slot, u) /\ s \in Pending(u)
    <2>1. Pending(u)' = Pending(u)
      BY <1>4, <1>6
    <2> QED
      BY <1>1, <1>6, <2>1
  <1>7. CASE AboutToLock(slot, u) /\ s \notin Pending(u)
    <2>1. Cardinality(Pending(u)') = Cardinality(Pending(u)) + 1
      BY <1>1, <1>4, <1>7, FS_AddElement
    <2> QED
      BY <1>1, <1>7, <2>1
  <1>8. CASE ~AboutToLock(slot, u) /\ s \in Pending(u)
    <2>1. /\ Cardinality(Pending(u)') = Cardinality(Pending(u)) - 1
          /\ Cardinality(Pending(u)') \in Nat
      BY <1>1, <1>5, <1>8, FS_RemoveElement, FS_CardinalityType
    <2> QED
      BY <1>1, <1>8, <2>1
  <1>9. CASE ~AboutToLock(slot, u) /\ s \notin Pending(u)
    <2>1. Pending(u)' = Pending(u)
      BY <1>5, <1>9
    <2> QED
      BY <1>1, <1>9, <2>1
  <1> QED
    BY <1>6, <1>7, <1>8, <1>9

LEMMA AttemptsStep ==
    ASSUME Configured = {}, TypeOK, AttemptsBeforeLock, NEW s \in Logins, LoginStep(s)
    PROVE  AttemptsBeforeLock'
  <1> SUFFICES ASSUME NEW u \in Users, users'[u].locked = 0
               PROVE  users'[u].failed <= MaxFailedAttempts - 1
                          + Cardinality(Pending(u)') + abandoned'[u]
    BY DEF AttemptsBeforeLock
  <1> USE SlotShapes
  <1> DEFINE bound == MaxFailedAttempts - 1 + Cardinality(Pending(u)) + abandoned[u]
  <1>a. /\ users[u].failed \in Nat /\ users[u].locked \in Nat
        /\ abandoned[u] \in Nat /\ MaxFailedAttempts \in Nat \ {0}
        /\ users[u].locked = 0 => users[u].failed <= bound
    BY DEF TypeOK, AccountsTypeOK, Table, Row, AttemptsBeforeLock, LoginAssumption
  <1>b. ReadViews = {users}
    BY DEF ReadViews
  <1>1. ASSUME NEW v \in Users, NEW password \in Passwords, Find(s, v, password)
        PROVE  users'[u].failed <= MaxFailedAttempts - 1
                          + Cardinality(Pending(u)') + abandoned'[u]
    <2>1. PICK slot \in Slot : /\ login' = [login EXCEPT ![s] = slot]
                               /\ slot.pc \in {"clear", "incr"}
      BY <1>1 DEF Find, Enrolled
    <2>2. login[s].pc = "idle"
      BY <1>1 DEF Find, Idle
    <2>3. Pending(u)' = Pending(u)
      BY <2>1, <2>2, PendingMoves DEF AboutToLock
    <2> QED
      BY <1>1, <1>a, <2>3 DEF Find, accountVars
  <1>2. CASE Incr(s)
    <2> DEFINE v == login[s].user
               slot == [pc |-> "recount", user |-> v]
    <2>1. login[s].pc = "incr" /\ v \in Users
      BY <1>2, SlotFields DEF Incr, TypeOK
    <2>2. slot \in Slot /\ login' = [login EXCEPT ![s] = slot]
      BY <1>2, <2>1 DEF Incr
    <2>3. /\ Cardinality(Pending(u)) \in Nat
          /\ u = v => Cardinality(Pending(u)') = Cardinality(Pending(u)) + 1
          /\ u # v => Pending(u)' = Pending(u)
      <3>1. ~AboutToLock(login[s], u) /\ (AboutToLock(slot, u) <=> u = v)
        BY <2>1 DEF AboutToLock
      <3>2. slot \in Slot /\ login' = [login EXCEPT ![s] = slot]
        BY <2>2
      <3> HIDE DEF slot, v
      <3> QED
        BY <3>1, <3>2, PendingMoves
    <2>4. /\ users'[u].locked = users[u].locked
          /\ u # v => users'[u].failed = users[u].failed
          /\ users'[u].failed <= users[u].failed + 1
      <3>1. users' = users \/ users' = IncrFailedAttempts(users, v)
        BY <1>2 DEF Incr, Exec
      <3>2. users \in Table
        BY DEF TypeOK, AccountsTypeOK
      <3> QED
        <4>1. CASE users' = users
          BY <1>a, <4>1
        <4>2. CASE users' = IncrFailedAttempts(users, v) /\ u = v
          BY <1>a, <2>1, <3>2, <4>2, LockoutRow
        <4>3. CASE users' = IncrFailedAttempts(users, v) /\ u # v
          <5>1. IncrFailedAttempts(users, v)[u] = users[u]
            BY <2>1, <3>2, <4>3, StatementRows
          <5> QED
            BY <1>a, <4>3, <5>1
        <4> QED
          BY <3>1, <4>1, <4>2, <4>3
    <2>5. abandoned' = abandoned /\ users'[u].failed \in Nat
      BY <1>2, LoginStepType DEF Incr, TypeOK, AccountsTypeOK, Table, Row
    <2> QED
      BY <1>a, <2>3, <2>4, <2>5
  <1>3. CASE Recount(s)
    <2> DEFINE v == login[s].user
    <2>1. login[s].pc = "recount" /\ v \in Users /\ clock + LockPeriod \in Nat \ {0}
      BY <1>3, SlotFields DEF Recount, TypeOK, AccountsTypeOK, LoginAssumption
    <2>b. AboutToLock(login[s], u) <=> u = v
      BY <2>1 DEF AboutToLock
    <2>2. users' = users /\ abandoned' = abandoned
      BY <1>3 DEF Recount, accountVars
    <2>3. CASE users[v].failed >= MaxFailedAttempts
      <3> DEFINE slot == [pc |-> "lock", user |-> v, until |-> clock + LockPeriod]
      <3>1. slot \in Slot /\ login' = [login EXCEPT ![s] = slot]
        BY <1>3, <1>b, <2>1, <2>3 DEF Recount
      <3>a. AboutToLock(slot, u) <=> u = v
        BY DEF AboutToLock
      <3>2. Pending(u)' = Pending(u)
        <4> HIDE DEF slot, v
        <4> QED
          BY <2>b, <3>1, <3>a, PendingMoves
      <3> QED
        BY <1>a, <2>2, <3>2
    <2>4. CASE ~(users[v].failed >= MaxFailedAttempts)
      <3>1. login' = [login EXCEPT ![s] = Idle] /\ Idle.pc = "idle"
        BY <1>3, <1>b, <2>4 DEF Recount, Idle
      <3>2. /\ Cardinality(Pending(u)') \in Nat
            /\ u # v => Pending(u)' = Pending(u)
        <4>1. Idle \in Slot /\ ~AboutToLock(Idle, u)
          BY <3>1 DEF AboutToLock
        <4> HIDE DEF v
        <4> QED
          BY <2>b, <3>1, <4>1, PendingMoves
      <3>3. CASE u = v
        BY <1>a, <2>2, <2>4, <3>2, <3>3
      <3>4. CASE u # v
        BY <1>a, <2>2, <3>2, <3>4
      <3> QED
        BY <3>3, <3>4
    <2> QED
      BY <2>3, <2>4
  <1>4. CASE Lock(s)
    <2> DEFINE v == login[s].user
    <2>1. login[s].pc = "lock" /\ v \in Users /\ login[s].until \in Nat \ {0}
      BY <1>4, SlotFields DEF Lock, TypeOK
    <2>2. u # v
      BY <1>4, <2>1 DEF Lock, LockUntil, TypeOK, AccountsTypeOK, Table, Row
    <2>3. users'[u] = users[u] /\ abandoned' = abandoned
      BY <1>4, <2>1, <2>2 DEF Lock, LockUntil, TypeOK, AccountsTypeOK, Table
    <2>4. login' = [login EXCEPT ![s] = Idle] /\ Idle.pc = "idle"
      BY <1>4 DEF Lock, Idle
    <2>5. Pending(u)' = Pending(u)
      BY <2>1, <2>2, <2>4, PendingMoves DEF AboutToLock
    <2> QED
      BY <1>a, <2>3, <2>5
  <1>5. CASE Clear(s)
    <2> DEFINE v == login[s].user
    <2>1. login[s].pc = "clear" /\ v \in Users
      BY <1>5, SlotFields DEF Clear, TypeOK
    <2>2. login' = [login EXCEPT ![s] = Idle] /\ Idle.pc = "idle"
      BY <1>5 DEF Clear, Idle
    <2>3. Pending(u)' = Pending(u) /\ Cardinality(Pending(u)) \in Nat
      BY <2>1, <2>2, PendingMoves DEF AboutToLock
    <2>4. users'[u] = users[u] \/ users'[u].failed = 0
      <3>1. users' = users \/ users' = ClearLock(users, v)
        BY <1>5 DEF Clear, Exec
      <3>2. users \in Table
        BY DEF TypeOK, AccountsTypeOK
      <3> QED
        <4>1. CASE u = v
          BY <2>1, <3>1, <3>2, <4>1, LockoutRow
        <4>2. CASE u # v
          <5>1. ClearLock(users, v)[u] = users[u]
            BY <2>1, <3>2, <4>2, StatementRows
          <5> QED
            BY <3>1, <5>1
        <4> QED
          BY <4>1, <4>2
    <2>5. abandoned' = abandoned
      BY <1>5 DEF Clear
    <2> QED
      BY <1>a, <2>3, <2>4, <2>5
  <1>6. CASE Abort(s)
    <2> DEFINE v == login[s].user
               cut == login[s].pc \in {"recount", "lock"}
    <2>1. v \in Users
      BY <1>6, SlotFields DEF Abort, TypeOK
    <2>2. login' = [login EXCEPT ![s] = Idle] /\ Idle.pc = "idle"
      BY <1>6 DEF Abort, Idle
    <2>3. /\ Cardinality(Pending(u)) \in Nat
          /\ cut /\ u = v =>
                 Cardinality(Pending(u)') = Cardinality(Pending(u)) - 1
          /\ ~(cut /\ u = v) => Pending(u)' = Pending(u)
      <3>1. AboutToLock(login[s], u) <=> cut /\ u = v
        BY DEF AboutToLock
      <3>2. Idle \in Slot /\ ~AboutToLock(Idle, u)
        BY <2>2 DEF AboutToLock
      <3> HIDE DEF v, cut
      <3> QED
        BY <2>2, <3>1, <3>2, PendingMoves
    <2>4. /\ cut /\ u = v => abandoned'[u] = abandoned[u] + 1
          /\ ~(cut /\ u = v) => abandoned'[u] = abandoned[u]
      BY <1>6, <2>1 DEF Abort, TypeOK
    <2>5. users' = users
      BY <1>6 DEF Abort, accountVars
    <2> QED
      BY <1>a, <2>3, <2>4, <2>5
  <1> QED
    BY <1>1, <1>2, <1>3, <1>4, <1>5, <1>6 DEF LoginStep

\* Without replicas, an account gathers at most MAX_FAILED_ATTEMPTS - 1
\* failures, and one for each request about to lock it or cut off before that,
\* for any number of accounts and of requests at once.
THEOREM AttemptsBounded == Spec => []AttemptsBeforeLock
  <1>1. Init => AttemptsBeforeLock
    <2> SUFFICES ASSUME Init, NEW u \in Users
                 PROVE  users[u].failed <= MaxFailedAttempts - 1
                            + Cardinality(Pending(u)) + abandoned[u]
      BY DEF AttemptsBeforeLock
    <2>1. users[u].failed = 0 /\ abandoned[u] = 0
      BY StoredRowType DEF Init, AccountsInit, LoginInit
    <2>2. Pending(u) = {}
      BY DEF Init, LoginInit, Pending, AboutToLock, Idle
    <2>3. Cardinality(Pending(u)) = 0
      BY <2>2, FS_EmptySet
    <2> QED
      BY <2>1, <2>3 DEF LoginAssumption
  <1>2. TypeOK /\ AttemptsBeforeLock /\ [Next]_vars => AttemptsBeforeLock'
    <2> SUFFICES ASSUME TypeOK, AttemptsBeforeLock, [Next]_vars
                 PROVE  AttemptsBeforeLock'
      OBVIOUS
    <2>1. ASSUME NEW s \in Logins, LoginStep(s) PROVE AttemptsBeforeLock'
      <3>1. Configured' = Configured
        BY <2>1 DEF LoginStep, Find, Incr, Recount, Lock, Clear, Abort, accountVars,
           Configured
      <3>2. CASE Configured = {}
        BY <2>1, <3>2, AttemptsStep
      <3> QED
        BY <3>1, <3>2 DEF AttemptsBeforeLock
    <2>2. CASE Environment /\ UNCHANGED loginVars
      BY <2>2, EnvironmentType DEF TypeOK, loginVars, AttemptsBeforeLock,
         Pending, AboutToLock
    <2>3. CASE UNCHANGED vars
      BY <2>3 DEF vars, accountVars, loginVars, AttemptsBeforeLock, Pending,
         AboutToLock, Configured
    <2> QED
      BY <2>1, <2>2, <2>3 DEF Next
  <1> QED
    BY <1>1, <1>2, LoginTypeCorrect, PTL DEF Spec

-----------------------------------------------------------------------------
(* No lock comes early. *)

\* No counter, on the write pool or replayed, is ahead of the failures there
\* have been, and a request decides to lock on a counter that was at the limit.
CountersHonest ==
    /\ \A u \in Users : users[u].failed <= misses[u]
    /\ \A r \in Configured, u \in Users : replica[r][u].failed <= misses[u]
    /\ \A s \in Logins : login[s].pc = "lock" => misses[login[s].user] >= MaxFailedAttempts
    /\ NoPrematureLock

\* Failures are never forgotten.
LEMMA MissesGrow ==
    ASSUME TypeOK, NEW s \in Logins, LoginStep(s)
    PROVE  /\ \A u \in Users : misses'[u] >= misses[u]
           /\ replica' = replica /\ Configured' = Configured
  <1>1. misses \in [Users -> Nat]
    BY DEF TypeOK
  <1>2. \A u \in Users : misses'[u] >= misses[u]
    <2>1. CASE Incr(s)
      BY <1>1, <2>1 DEF Incr
    <2>2. CASE ~Incr(s)
      BY <1>1, <2>2 DEF LoginStep, Find, Recount, Lock, Clear, Abort
    <2> QED
      BY <2>1, <2>2
  <1> QED
    BY <1>2 DEF LoginStep, Find, Incr, Recount, Lock, Clear, Abort, accountVars, Configured

LEMMA CountersStep ==
    ASSUME TypeOK, CountersHonest, NEW s \in Logins, LoginStep(s)
    PROVE  CountersHonest'
  <1>a. /\ users \in Table /\ login \in [Logins -> Slot] /\ misses \in [Users -> Nat]
        /\ replica \in [Configured -> Table]
        /\ MaxFailedAttempts \in Nat
        /\ Idle.pc = "idle"
    BY DEF TypeOK, AccountsTypeOK, LoginAssumption, Configured, Idle
  <1>b. \A u \in Users : misses'[u] >= misses[u] /\ misses'[u] \in Nat
    BY MissesGrow, LoginStepType DEF TypeOK
  <1>c. \A r \in Configured', u \in Users : replica'[r][u].failed <= misses'[u]
    <2> SUFFICES ASSUME NEW r \in Configured, NEW u \in Users
                 PROVE  replica[r][u].failed <= misses'[u]
      BY MissesGrow
    <2>1. replica[r][u].failed \in Nat /\ replica[r][u].failed <= misses[u]
      BY <1>a DEF CountersHonest, Table, Row
    <2> QED
      BY <1>a, <1>b, <2>1
  <1>d. ASSUME users' = users, NEW slot, slot.pc # "lock",
               login' = [login EXCEPT ![s] = slot]
        PROVE  CountersHonest'
    <2>1. \A u \in Users : users[u].failed \in Nat
      BY <1>a DEF Table, Row
    <2>2. \A u \in Users : users'[u].failed <= misses'[u]
      BY <1>a, <1>b, <1>d, <2>1 DEF CountersHonest
    <2>3. ASSUME NEW t \in Logins, login'[t].pc = "lock"
          PROVE  misses'[login'[t].user] >= MaxFailedAttempts
      <3>1. login'[t] = login[t]
        BY <1>a, <1>d, <2>3
      <3>2. login[t].user \in Users
        BY <1>a, <2>3, <3>1, SlotFields
      <3> QED
        BY <1>a, <1>b, <2>3, <3>1, <3>2 DEF CountersHonest
    <2>4. NoPrematureLock'
      BY <1>a, <1>b, <1>d DEF CountersHonest, NoPrematureLock
    <2> QED
      BY <1>c, <2>2, <2>3, <2>4 DEF CountersHonest
  <1>e. \* the other requests' locks stay founded, and so does one just decided
        ASSUME NEW slot, login' = [login EXCEPT ![s] = slot], slot.pc # "lock"
        PROVE  \A t \in Logins : login'[t].pc = "lock" =>
                   misses'[login'[t].user] >= MaxFailedAttempts
    <2> SUFFICES ASSUME NEW t \in Logins, login'[t].pc = "lock"
                 PROVE  misses'[login'[t].user] >= MaxFailedAttempts
      OBVIOUS
    <2>1. login'[t] = login[t]
      BY <1>a, <1>e
    <2>2. login[t].user \in Users
      BY <1>a, <2>1, SlotFields
    <2> QED
      BY <1>a, <1>b, <2>1, <2>2 DEF CountersHonest
  <1>1. ASSUME NEW u \in Users, NEW password \in Passwords, Find(s, u, password)
        PROVE  CountersHonest'
    <2>1. PICK slot : slot.pc # "lock" /\ login' = [login EXCEPT ![s] = slot]
      BY <1>1 DEF Find
    <2> QED
      BY <1>1, <1>d, <2>1 DEF Find, accountVars
  <1>2. CASE Incr(s)
    <2> DEFINE v == login[s].user
    <2>1. /\ v \in Users
          /\ login' = [login EXCEPT ![s] = [pc |-> "recount", user |-> v]]
          /\ \/ users' = users
             \/ users' = IncrFailedAttempts(users, v)
          /\ misses' = IF users' = users THEN misses
                                         ELSE [misses EXCEPT ![v] = misses[v] + 1]
      BY <1>2, <1>a, SlotFields DEF Incr, Exec
    <2>2. CASE users' = users
      BY <1>d, <2>1, <2>2
    <2>3. CASE users' # users
      <3>1. \A u \in Users : users[u].failed \in Nat /\ users[u].failed <= misses[u]
        BY <1>a DEF CountersHonest, Table, Row
      <3>2. \A u \in Users : u # v => users'[u] = users[u]
        BY <1>a, <2>1, <2>3, StatementRows
      <3>3. /\ users'[v].failed = users[v].failed + 1 /\ users'[v].locked = users[v].locked
            /\ misses'[v] = misses[v] + 1
        BY <1>a, <2>1, <2>3, LockoutRow
      <3>4. \A u \in Users : users'[u].failed <= misses'[u]
        BY <1>a, <1>b, <2>1, <2>3, <3>1, <3>2, <3>3
      <3>5. NoPrematureLock'
        BY <1>a, <1>b, <3>2, <3>3 DEF CountersHonest, NoPrematureLock
      <3>6. \A t \in Logins : login'[t].pc = "lock" =>
                misses'[login'[t].user] >= MaxFailedAttempts
        <4> DEFINE slot == [pc |-> "recount", user |-> v]
        <4>1. login' = [login EXCEPT ![s] = slot] /\ slot.pc # "lock"
          BY <2>1
        <4> HIDE DEF slot
        <4> QED
          BY <1>e, <4>1
      <3> QED
        BY <1>c, <3>4, <3>5, <3>6 DEF CountersHonest
    <2> QED
      BY <2>2, <2>3
  <1>3. CASE Recount(s)
    <2> DEFINE v == login[s].user
    <2>1. /\ v \in Users /\ users' = users /\ misses' = misses
      BY <1>3, <1>a, SlotFields DEF Recount, accountVars
    <2>2. PICK view \in ReadViews :
              login' = [login EXCEPT ![s] =
                  IF view[v].failed >= MaxFailedAttempts
                  THEN [pc |-> "lock", user |-> v, until |-> clock + LockPeriod]
                  ELSE Idle]
      BY <1>3 DEF Recount
    <2>3. view[v].failed \in Nat /\ view[v].failed <= misses[v]
      BY <1>a, <2>1 DEF ReadViews, CountersHonest, Table, Row
    <2>4. CASE view[v].failed >= MaxFailedAttempts
      <3>1. login' = [login EXCEPT ![s] =
                          [pc |-> "lock", user |-> v, until |-> clock + LockPeriod]]
        BY <2>2, <2>4
      <3>2. misses[v] >= MaxFailedAttempts
        BY <1>a, <2>1, <2>3, <2>4
      <3>3. \A t \in Logins : login'[t].pc = "lock" =>
                misses[login'[t].user] >= MaxFailedAttempts
        BY <1>a, <3>1, <3>2 DEF CountersHonest
      <3> QED
        BY <1>c, <2>1, <3>3 DEF CountersHonest, NoPrematureLock
    <2>5. CASE ~(view[v].failed >= MaxFailedAttempts)
      BY <1>a, <1>d, <2>1, <2>2, <2>5
    <2> QED
      BY <2>4, <2>5
  <1>4. CASE Lock(s)
    <2> DEFINE v == login[s].user
    <2>1. /\ v \in Users /\ misses' = misses /\ login' = [login EXCEPT ![s] = Idle]
          /\ users' = LockUntil(users, v, login[s].until)
          /\ misses[v] >= MaxFailedAttempts
      BY <1>4, <1>a, SlotFields DEF Lock, CountersHonest
    <2>2. \A u \in Users : users'[u].failed = users[u].failed
      BY <1>a, <2>1, StatementRows, LockoutRow
    <2>3. \A u \in Users : u # v => users'[u] = users[u]
      BY <1>a, <2>1, StatementRows
    <2> QED
      BY <1>a, <1>c, <1>e, <2>1, <2>2, <2>3 DEF CountersHonest, NoPrematureLock
  <1>5. CASE Clear(s)
    <2> DEFINE v == login[s].user
    <2>1. /\ v \in Users /\ misses' = misses /\ login' = [login EXCEPT ![s] = Idle]
          /\ users' = users \/ users' = ClearLock(users, v)
      BY <1>5, <1>a, SlotFields DEF Clear, Exec
    <2>2. CASE users' = users
      BY <1>a, <1>d, <2>1, <2>2
    <2>3. CASE users' = ClearLock(users, v)
      <3>1. users'[v].failed = 0 /\ users'[v].locked = 0
        BY <1>a, <2>1, <2>3, LockoutRow
      <3>2. \A u \in Users : u # v => users'[u] = users[u]
        BY <1>a, <2>1, <2>3, StatementRows
      <3> QED
        BY <1>a, <1>c, <1>e, <2>1, <3>1, <3>2 DEF CountersHonest, NoPrematureLock
    <2> QED
      BY <2>1, <2>2, <2>3
  <1>6. CASE Abort(s)
    BY <1>6, <1>a, <1>d DEF Abort, accountVars
  <1> QED
    BY <1>1, <1>2, <1>3, <1>4, <1>5, <1>6 DEF LoginStep

\* An account is locked only after MAX_FAILED_ATTEMPTS recorded failures, for
\* any limit, any number of racing requests and replicas however far behind.
THEOREM NoPrematureLockSafe == Spec => []NoPrematureLock
  <1>1. Init => CountersHonest
    <2> SUFFICES ASSUME Init PROVE CountersHonest
      OBVIOUS
    <2>1. /\ \A u \in Users : users[u].failed = 0 /\ users[u].locked = 0 /\ misses[u] = 0
          /\ \A r \in Configured : replica[r] = users
          /\ \A s \in Logins : login[s].pc = "idle"
      BY StoredRowType DEF Init, AccountsInit, LoginInit, Configured, Idle
    <2> QED
      BY <2>1 DEF CountersHonest, NoPrematureLock
  <1>2. TypeOK /\ CountersHonest /\ [Next]_vars => CountersHonest'
    <2> SUFFICES ASSUME TypeOK, CountersHonest, [Next]_vars PROVE CountersHonest'
      OBVIOUS
    <2>1. ASSUME NEW s \in Logins, LoginStep(s) PROVE CountersHonest'
      BY <2>1, CountersStep
    <2>2. CASE Environment /\ UNCHANGED loginVars
      <3>1. /\ users' = users /\ Configured' = Configured
            /\ login' = login /\ misses' = misses
        BY <2>2, EnvironmentType DEF TypeOK, loginVars
      <3>2. \A r \in Configured : replica'[r] = replica[r] \/ replica'[r] = users
        BY <2>2 DEF Environment, Tick, CatchUp, Configured
      <3> QED
        BY <3>1, <3>2 DEF CountersHonest, NoPrematureLock
    <2>3. CASE UNCHANGED vars
      BY <2>3 DEF vars, accountVars, loginVars, CountersHonest, NoPrematureLock, Configured
    <2> QED
      BY <2>1, <2>2, <2>3 DEF Next
  <1>3. CountersHonest => NoPrematureLock
    BY DEF CountersHonest
  <1> QED
    BY <1>1, <1>2, <1>3, LoginTypeCorrect, PTL DEF Spec

-----------------------------------------------------------------------------
(* Next to other services. *)

\* A step that is none of Login's and leaves the failures and the lock of every
\* row, or resets both, keeps what Login promises of them.
LEMMA CountersFrame ==
    ASSUME TypeOK, TypeOK', CountersHonest, AttemptsBeforeLock,
           UNCHANGED <<login, misses, abandoned>>, Configured' = Configured,
           \A r \in Configured : replica'[r] = replica[r] \/ replica'[r] = users,
           \A u \in Users :
              \/ users'[u].failed = users[u].failed /\ users'[u].locked = users[u].locked
              \/ users'[u].failed = 0 /\ users'[u].locked = 0
    PROVE  CountersHonest' /\ AttemptsBeforeLock'
  <1>a. /\ \A u \in Users : misses[u] \in Nat /\ abandoned[u] \in Nat
        /\ MaxFailedAttempts \in Nat \ {0}
    BY DEF TypeOK, LoginAssumption
  <1>1. \A u \in Users : users'[u].failed <= misses'[u]
    BY <1>a DEF CountersHonest
  <1>2. \A r \in Configured', u \in Users : replica'[r][u].failed <= misses'[u]
    <2> SUFFICES ASSUME NEW r \in Configured, NEW u \in Users
                 PROVE  replica'[r][u].failed <= misses[u]
      OBVIOUS
    <2>1. replica[r][u].failed <= misses[u] /\ users[u].failed <= misses[u]
      BY DEF CountersHonest
    <2> QED
      BY <2>1
  <1>3. NoPrematureLock'
    <2> SUFFICES ASSUME NEW u \in Users, users'[u].locked # 0
                 PROVE  misses[u] >= MaxFailedAttempts
      BY DEF NoPrematureLock
    <2>1. users[u].locked # 0
      OBVIOUS
    <2> QED
      BY <2>1 DEF CountersHonest, NoPrematureLock
  <1>4. AttemptsBeforeLock'
    <2> SUFFICES ASSUME Configured = {}, NEW u \in Users, users'[u].locked = 0
                 PROVE  users'[u].failed <= MaxFailedAttempts - 1
                            + Cardinality(Pending(u)') + abandoned[u]
      BY DEF AttemptsBeforeLock
    <2>1. Pending(u)' = Pending(u)
      BY DEF Pending, AboutToLock
    <2> DEFINE n == Cardinality(Pending(u))
    <2>2. n \in Nat /\ Cardinality(Pending(u)') = n
      BY <2>1, PendingFinite
    <2>3. CASE users'[u].failed = 0
      <3> HIDE DEF n
      <3> QED
        BY <1>a, <2>2, <2>3
    <2>4. CASE users'[u].failed = users[u].failed /\ users'[u].locked = users[u].locked
      <3>1. users[u].failed <= MaxFailedAttempts - 1 + n + abandoned[u]
        BY <2>4 DEF AttemptsBeforeLock
      <3> HIDE DEF n
      <3> QED
        BY <2>2, <2>4, <3>1
    <2> QED
      BY <2>3, <2>4
  <1>5. \A s \in Logins : login'[s].pc = "lock" => misses'[login'[s].user] >= MaxFailedAttempts
    BY DEF CountersHonest
  <1> QED
    BY <1>1, <1>2, <1>3, <1>4, <1>5 DEF CountersHonest
=============================================================================
