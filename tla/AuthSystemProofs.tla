--------------------------- MODULE AuthSystemProofs ---------------------------
(* The services together: every state is well formed, nobody has a session  *)
(* without a second factor, and who is handed a session or a setup token.   *)
(* LP and SP bring in what is proved of Login and UserService on their own. *)
EXTENDS AuthSystem, AccountsProofs

LP == INSTANCE LoginProofs
SP == INSTANCE UserServiceProofs

-----------------------------------------------------------------------------
(* Types. *)

\* What Login and UserService keep for themselves is well formed.
LoginTyped ==
    /\ login \in [Logins -> L!Slot]
    /\ misses \in [Users -> Nat]
    /\ abandoned \in [Users -> Nat]

ServiceTyped ==
    /\ proc \in [Procs -> S!State]
    /\ stale \subseteq Procs
    /\ raced \in BOOLEAN

\* The instances of Login and UserService speak of the same accounts.
LEMMA TypeParts ==
    /\ TypeOK <=> AccountsTypeOK /\ LoginTyped /\ E!EnrolmentTypeOK /\ ServiceTyped
    /\ TypeOK' <=> AccountsTypeOK' /\ LoginTyped' /\ E!EnrolmentTypeOK' /\ ServiceTyped'
  BY DEF TypeOK, LoginTyped, ServiceTyped, L!TypeOK, S!TypeOK,
         AccountsTypeOK, Table, Row, UserRoles, Purposes,
         L!AccountsTypeOK, L!Table, L!Row, L!UserRoles, L!Purposes,
         S!AccountsTypeOK, S!Table, S!Row, S!UserRoles, S!Purposes

\* A statement of Login is the one its proofs are about.
LEMMA LoginOfProofs ==
    /\ L!TypeOK <=> LP!TypeOK
    /\ L!TypeOK' <=> LP!TypeOK'
    /\ \A s \in Logins : L!LoginStep(s) <=> LP!LoginStep(s)
  BY DEF
        L!AccountsTypeOK, LP!AccountsTypeOK, L!Table, LP!Table, L!Row, LP!Row,
        L!UserRoles, LP!UserRoles, L!Purposes, LP!Purposes, L!Configured,
        LP!Configured, L!ReadViews, LP!ReadViews, L!Enrolled, LP!Enrolled,
        L!Exec, LP!Exec, L!IssueToken, LP!IssueToken, L!accountVars,
        LP!accountVars, L!IsLocked, LP!IsLocked, L!IncrFailedAttempts,
        LP!IncrFailedAttempts, L!LockUntil, LP!LockUntil, L!ClearLock,
        LP!ClearLock, L!LoginStep, LP!LoginStep, L!Find, LP!Find, L!MayTry,
        LP!MayTry, L!Idle, LP!Idle, L!Incr, LP!Incr, L!Recount, LP!Recount,
        L!Lock, LP!Lock, L!SetupTTL, LP!SetupTTL, L!Clear, LP!Clear, L!Abort,
        LP!Abort, L!TypeOK, LP!TypeOK, L!Slot, LP!Slot

\* A statement of UserService is the one its proofs are about.
LEMMA ServiceOfProofs ==
    /\ S!TypeOK <=> SP!TypeOK
    /\ S!TypeOK' <=> SP!TypeOK'
    /\ \A p \in Procs : S!ServiceStep(p) <=> SP!ServiceStep(p)
  <1>1. (S!TypeOK <=> SP!TypeOK) /\ (S!TypeOK' <=> SP!TypeOK')
    BY DEF S!TypeOK, SP!TypeOK, S!AccountsTypeOK, SP!AccountsTypeOK, S!Table,
           SP!Table, S!Row, SP!Row, S!UserRoles, SP!UserRoles, S!Purposes,
           SP!Purposes, S!State, SP!State, S!Inactive, SP!Inactive
  <1>2. \A table : S!CountSuperAdmins(table) = SP!CountSuperAdmins(table)
    <2>1. ASSUME NEW table PROVE S!ActiveSuperAdmins(table) = SP!ActiveSuperAdmins(table)
      BY DEF S!ActiveSuperAdmins, SP!ActiveSuperAdmins, S!SuperAdmin,
             SP!SuperAdmin
    <2>2. ASSUME NEW X PROVE S!Cardinality(X) = SP!Cardinality(X)
      BY DEF S!Cardinality, SP!Cardinality
    <2> QED
      BY <2>1, <2>2 DEF S!CountSuperAdmins, SP!CountSuperAdmins
  <1> SUFFICES ASSUME NEW p \in Procs PROVE S!ServiceStep(p) <=> SP!ServiceStep(p)
    BY <1>1
  <1>3. S!Boot(p) <=> SP!Boot(p)
    BY <1>2 DEF S!Boot, SP!Boot, S!BootCount, SP!BootCount, S!BootCreate,
           SP!BootCreate, S!Restart, SP!Restart, S!Down, SP!Down, S!Up, SP!Up,
           S!SuperAdmin, SP!SuperAdmin, S!CreateRow, SP!CreateRow, S!NoRow,
           SP!NoRow, S!ReadViews, SP!ReadViews, S!Configured, SP!Configured,
           S!accountVars, SP!accountVars
  <1>4. \A u, change : S!FindTarget(p, u, change) <=> SP!FindTarget(p, u, change)
    BY DEF S!FindTarget, SP!FindTarget, S!Inactive, SP!Inactive, S!Up, SP!Up,
           S!ReadViews, SP!ReadViews, S!Configured, SP!Configured,
           S!SuperAdmin, SP!SuperAdmin, S!accountVars, SP!accountVars
  <1>5. S!CountAdmins(p) <=> SP!CountAdmins(p)
    BY <1>2 DEF S!CountAdmins, SP!CountAdmins, S!Up, SP!Up, S!ReadViews,
           SP!ReadViews, S!Configured, SP!Configured, S!accountVars,
           SP!accountVars
  <1>6. S!Write(p) <=> SP!Write(p)
    BY DEF S!Write, SP!Write, S!Exec, SP!Exec, S!Changed, SP!Changed,
           S!UpdateRole, SP!UpdateRole, S!Deactivate, SP!Deactivate,
           S!Inactive, SP!Inactive, S!Up, SP!Up, S!Outdate, SP!Outdate,
           S!Reading, SP!Reading
  <1>7. \A u, role : S!FindInvitee(p, u, role) <=> SP!FindInvitee(p, u, role)
    BY DEF S!FindInvitee, SP!FindInvitee, S!SuperAdmin, SP!SuperAdmin, S!Up,
           SP!Up, S!ReadViews, SP!ReadViews, S!Configured, SP!Configured,
           S!accountVars, SP!accountVars
  <1>8. S!Insert(p) <=> SP!Insert(p)
    BY DEF S!Insert, SP!Insert, S!CreateRow, SP!CreateRow, S!NoRow, SP!NoRow,
           S!Up, SP!Up
  <1>9. S!Disable(p) <=> SP!Disable(p)
    BY DEF S!Disable, SP!Disable, S!Deactivate, SP!Deactivate, S!IssueToken,
           SP!IssueToken, S!Up, SP!Up, S!Outdate, SP!Outdate, S!Reading,
           SP!Reading
  <1>10. S!Fail(p) <=> SP!Fail(p)
    BY DEF S!Fail, SP!Fail, S!Up, SP!Up, S!accountVars, SP!accountVars
  <1>11. S!Crash(p) <=> SP!Crash(p)
    BY DEF S!Crash, SP!Crash, S!Down, SP!Down, S!accountVars, SP!accountVars
  <1> QED
    BY <1>3, <1>4, <1>5, <1>6, <1>7, <1>8, <1>9, <1>10, <1>11
       DEF S!ServiceStep, SP!ServiceStep, S!Changes, SP!Changes, S!Inactive, SP!Inactive

\* A step of Login leaves its part and the accounts well formed.
LEMMA LoginKeepsTypes ==
    ASSUME TypeOK, NEW s \in Logins, L!LoginStep(s)
    PROVE  L!TypeOK'
  <1>1. LP!TypeOK /\ LP!LoginStep(s)
    BY LoginOfProofs DEF TypeOK
  <1>2. LP!TypeOK'
    BY <1>1, LP!LoginStepType, AccountsAssumption, AuthSystemAssumption
       DEF AccountsAssumption, AuthSystemAssumption, L!LoginAssumption,
           UserRoles, LP!UserRoles, IsFiniteSet, L!IsFiniteSet, LP!IsFiniteSet
  <1> QED
    BY <1>2, LoginOfProofs

\* A step of UserService leaves its part and the accounts well formed.
LEMMA ServiceKeepsTypes ==
    ASSUME TypeOK, NEW p \in Procs, S!ServiceStep(p)
    PROVE  S!TypeOK'
  <1>1. SP!TypeOK /\ SP!ServiceStep(p)
    BY ServiceOfProofs DEF TypeOK
  <1>2. SP!TypeOK'
    BY <1>1, SP!ServiceStepType, AccountsAssumption, AuthSystemAssumption
       DEF AccountsAssumption, AuthSystemAssumption, S!UserServiceAssumption,
           UserRoles, SP!UserRoles
  <1> QED
    BY <1>2, ServiceOfProofs

\* The states an enrolment can be put in, and what it remembers there.
LEMMA EnrolShapes ==
    /\ E!Idle \in E!Slot
    /\ \A u \in Users, secret \in Secrets :
           [pc |-> "store", user |-> u, secret |-> secret] \in E!Slot
    /\ \A u \in Users, pc \in {"reload", "unlock"} : [pc |-> pc, user |-> u] \in E!Slot
    /\ \A u \in Users, p \in Passwords :
           [pc |-> "password", user |-> u, password |-> p] \in E!Slot
  BY DEF E!Slot, E!Idle

LEMMA EnrolFields ==
    ASSUME NEW slot \in E!Slot
    PROVE  /\ slot.pc # "idle" => slot.user \in Users
           /\ slot.pc = "store" => slot.secret \in Secrets
           /\ slot.pc = "password" => slot.password \in Passwords
  BY DEF E!Slot

\* The statements an enrolment runs, in the words of Accounts.
LEMMA EnrolStatements ==
    /\ E!ReadViews = ReadViews
    /\ \A purpose, u : E!Bears(purpose, u) <=> Bears(purpose, u)
    /\ \A purpose, u, ttl : E!IssueToken(purpose, u, ttl) <=> IssueToken(purpose, u, ttl)
    /\ \A row : E!Enrolled(row) <=> Enrolled(row)
    /\ \A table, u : E!ClearLock(table, u) = ClearLock(table, u)
    /\ \A table, u, x : /\ E!SetTOTP(table, u, x) = SetTOTP(table, u, x)
                        /\ E!UpdatePassword(table, u, x) = UpdatePassword(table, u, x)
  BY DEF E!ReadViews, ReadViews, E!Configured, Configured, E!Bears, Bears,
         E!IssueToken, IssueToken, E!Enrolled, Enrolled, E!ClearLock, ClearLock,
         E!SetTOTP, SetTOTP, E!UpdatePassword, UpdatePassword

\* A step of Enrolment leaves its part and the accounts well formed.
LEMMA EnrolKeepsTypes ==
    ASSUME AccountsTypeOK, E!EnrolmentTypeOK, NEW s \in Enrolments, E!EnrolmentStep(s)
    PROVE  AccountsTypeOK' /\ E!EnrolmentTypeOK'
  <1> USE EnrolStatements, EnrolShapes
  <1>a. /\ users \in Table /\ clock \in Nat /\ JWTExpiry \in Nat /\ TOTPSetupExpiry \in Nat
        /\ enrol \in [Enrolments -> E!Slot] /\ accepted \subseteq Users
        /\ {"session", "totp_setup"} \subseteq Purposes
    BY AuthSystemAssumption, AccountsAssumption
       DEF AccountsTypeOK, E!EnrolmentTypeOK, AuthSystemAssumption, AccountsAssumption,
           L!LoginAssumption, Purposes
  <1>1. ASSUME NEW u \in Users, E!VerifyTOTP(s, u)
        PROVE  AccountsTypeOK' /\ E!EnrolmentTypeOK'
    <2>1. token' \in [Purposes -> [Users -> Nat]]
      BY <1>1, <1>a, IssueTokenType DEF E!VerifyTOTP
    <2> QED
      BY <1>1, <1>a, <2>1 DEF E!VerifyTOTP, AccountsTypeOK, E!EnrolmentTypeOK, E!enrolVars
  <1>2. ASSUME NEW u \in Users, NEW secret \in Secrets, E!ConfirmFind(s, u, secret)
        PROVE  AccountsTypeOK' /\ E!EnrolmentTypeOK'
    BY <1>2, <1>a DEF E!ConfirmFind, AccountsTypeOK, E!EnrolmentTypeOK, E!accountVars
  <1>3. CASE E!ConfirmStore(s)
    <2>1. enrol[s].user \in Users /\ enrol[s].secret \in Secrets
      BY <1>3, <1>a, EnrolFields DEF E!ConfirmStore
    <2>2. users' \in Table
      BY <1>3, <1>a, <2>1, StatementTypes DEF E!ConfirmStore
    <2> QED
      BY <1>3, <1>a, <2>1, <2>2 DEF E!ConfirmStore, AccountsTypeOK, E!EnrolmentTypeOK
  <1>4. CASE E!ConfirmReload(s)
    <2>1. enrol[s].user \in Users
      BY <1>4, <1>a, EnrolFields DEF E!ConfirmReload
    <2>2. token' \in [Purposes -> [Users -> Nat]]
      BY <1>4, <1>a, <2>1, IssueTokenType DEF E!ConfirmReload
    <2> QED
      BY <1>4, <1>a, <2>2 DEF E!ConfirmReload, AccountsTypeOK, E!EnrolmentTypeOK
  <1>5. ASSUME NEW u \in Users, NEW password \in Passwords, E!AcceptFind(s, u, password)
        PROVE  AccountsTypeOK' /\ E!EnrolmentTypeOK'
    BY <1>5, <1>a DEF E!AcceptFind, AccountsTypeOK, E!EnrolmentTypeOK, E!accountVars
  <1>6. CASE E!AcceptPassword(s)
    <2>1. enrol[s].user \in Users /\ enrol[s].password \in Passwords
      BY <1>6, <1>a, EnrolFields DEF E!AcceptPassword
    <2>2. users' \in Table
      BY <1>6, <1>a, <2>1, StatementTypes DEF E!AcceptPassword
    <2> QED
      BY <1>6, <1>a, <2>1, <2>2 DEF E!AcceptPassword, AccountsTypeOK, E!EnrolmentTypeOK
  <1>7. CASE E!AcceptUnlock(s)
    <2>1. enrol[s].user \in Users
      BY <1>7, <1>a, EnrolFields DEF E!AcceptUnlock
    <2>2. users' \in Table
      BY <1>7, <1>a, <2>1, StatementTypes DEF E!AcceptUnlock
    <2>3. token' \in [Purposes -> [Users -> Nat]]
      BY <1>7, <1>a, <2>1, IssueTokenType DEF E!AcceptUnlock
    <2> QED
      BY <1>7, <1>a, <2>1, <2>2, <2>3
         DEF E!AcceptUnlock, AccountsTypeOK, E!EnrolmentTypeOK
  <1>8. CASE E!Abort(s)
    BY <1>8, <1>a DEF E!Abort, AccountsTypeOK, E!EnrolmentTypeOK, E!accountVars
  <1> QED
    BY <1>1, <1>2, <1>3, <1>4, <1>5, <1>6, <1>7, <1>8 DEF E!EnrolmentStep

\* The rows a behaviour may begin with are rows, none with a second factor.
LEMMA FirstRows ==
    ASSUME NEW row \in S!RosterRow
    PROVE  row \in Row /\ ~Enrolled(row)
  <1>1. CASE row = S!NoRow
    BY <1>1 DEF S!NoRow, Row, UserRoles, Enrolled
  <1>2. CASE row # S!NoRow
    <2>1. PICK d \in [role : Roles, active : BOOLEAN, password : Passwords] :
            row = [S!NoRow EXCEPT !.exists = TRUE, !.role = d.role,
                                  !.active = d.active, !.password = d.password]
      BY <1>2 DEF S!RosterRow
    <2>2. d.role \in UserRoles
      BY AccountsAssumption DEF AccountsAssumption
    <2> QED
      BY <2>1, <2>2 DEF Row, S!NoRow, Enrolled
  <1> QED
    BY <1>1, <1>2

\* Every state of the services together is well formed.
THEOREM AuthTypeCorrect == Spec => []TypeOK
  <1>1. Init => TypeOK
    <2> SUFFICES ASSUME Init PROVE TypeOK
      OBVIOUS
    <2>1. users \in Table
      BY FirstRows DEF Init, AccountsInit, Table
    <2>2. AccountsTypeOK
      BY <2>1, AccountsAssumption DEF Init, AccountsInit, AccountsTypeOK, AccountsAssumption
    <2>3. LoginTyped
      BY DEF Init, L!LoginInit, LoginTyped, L!Slot, L!Idle
    <2>4. E!EnrolmentTypeOK
      BY EnrolShapes DEF Init, E!EnrolmentInit, E!EnrolmentTypeOK
    <2>5. ServiceTyped
      BY DEF Init, S!ServiceInit, ServiceTyped, S!State, S!Down
    <2> QED
      BY <2>2, <2>3, <2>4, <2>5, TypeParts
  <1>2. TypeOK /\ [Next]_vars => TypeOK'
    <2> SUFFICES ASSUME TypeOK, [Next]_vars PROVE TypeOK'
      OBVIOUS
    <2>1. ASSUME NEW s \in Logins, L!LoginStep(s), UNCHANGED <<enrolVars, serviceVars>>
          PROVE  TypeOK'
      <3>1. L!TypeOK'
        BY <2>1, LoginKeepsTypes
      <3> QED
        BY <2>1, <3>1 DEF TypeOK, L!TypeOK, S!TypeOK, E!EnrolmentTypeOK, enrolVars, serviceVars,
           L!AccountsTypeOK, S!AccountsTypeOK, L!Table, S!Table, L!Row, S!Row,
           L!UserRoles, S!UserRoles, L!Purposes, S!Purposes
    <2>2. ASSUME NEW s \in Enrolments, E!EnrolmentStep(s), UNCHANGED <<loginVars, serviceVars>>
          PROVE  TypeOK'
      <3>1. AccountsTypeOK' /\ E!EnrolmentTypeOK'
        BY <2>2, EnrolKeepsTypes, TypeParts
      <3>2. LoginTyped' /\ ServiceTyped'
        BY <2>2, TypeParts DEF LoginTyped, ServiceTyped, loginVars, serviceVars
      <3> QED
        BY <3>1, <3>2, TypeParts
    <2>3. ASSUME NEW p \in Procs, S!ServiceStep(p), UNCHANGED <<loginVars, enrolVars>>
          PROVE  TypeOK'
      <3>1. S!TypeOK'
        BY <2>3, ServiceKeepsTypes
      <3> QED
        BY <2>3, <3>1 DEF TypeOK, L!TypeOK, S!TypeOK, E!EnrolmentTypeOK, loginVars, enrolVars,
           L!AccountsTypeOK, S!AccountsTypeOK, L!Table, S!Table, L!Row, S!Row,
           L!UserRoles, S!UserRoles, L!Purposes, S!Purposes
    <2>4. CASE Environment /\ UNCHANGED <<loginVars, enrolVars, serviceVars>>
      <3>1. AccountsTypeOK'
        BY <2>4, EnvironmentType, AccountsAssumption, TypeParts
      <3>2. LoginTyped' /\ E!EnrolmentTypeOK' /\ ServiceTyped'
        BY <2>4, TypeParts
           DEF LoginTyped, ServiceTyped, E!EnrolmentTypeOK, loginVars, enrolVars, serviceVars
      <3> QED
        BY <3>1, <3>2, TypeParts
    <2>5. CASE UNCHANGED vars
      BY <2>5, TypeParts
         DEF vars, accountVars, loginVars, enrolVars, serviceVars, AccountsTypeOK,
             LoginTyped, ServiceTyped, E!EnrolmentTypeOK
    <2> QED
      BY <2>1, <2>2, <2>3, <2>4, <2>5 DEF Next
  <1> QED
    BY <1>1, <1>2, PTL DEF Spec

-----------------------------------------------------------------------------
(* What Login and UserService do to the rows and the tokens. *)

\* The statements of Login and UserService, in the words of Accounts.
LEMMA LoginStatements ==
    /\ L!ReadViews = ReadViews
    /\ \A purpose, u, ttl : L!IssueToken(purpose, u, ttl) <=> IssueToken(purpose, u, ttl)
    /\ \A row : L!Enrolled(row) <=> Enrolled(row)
    /\ \A table : L!Exec(table) <=> Exec(table)
    /\ \A table, u : /\ L!IncrFailedAttempts(table, u) = IncrFailedAttempts(table, u)
                     /\ L!ClearLock(table, u) = ClearLock(table, u)
    /\ \A table, u, t : L!LockUntil(table, u, t) = LockUntil(table, u, t)
  BY DEF L!ReadViews, ReadViews, L!Configured, Configured, L!IssueToken, IssueToken,
         L!Enrolled, Enrolled, L!Exec, Exec, L!IncrFailedAttempts, IncrFailedAttempts,
         L!ClearLock, ClearLock, L!LockUntil, LockUntil

\* The columns the roster of super admins depends on.
OnRoster(old, new) ==
    new.exists = old.exists /\ new.active = old.active /\ new.role = old.role

\* The columns the second factor, the invitation and a reset depend on.
SameAccount(old, new) ==
    /\ OnRoster(old, new)
    /\ new.secret = old.secret /\ new.password = old.password

\* The lockout statements leave these columns alone, in every row.
LEMMA LockoutFrame ==
    ASSUME NEW table \in Table, NEW u \in Users, NEW v \in Users
    PROVE  /\ SameAccount(table[v], IncrFailedAttempts(table, u)[v])
           /\ \A t : SameAccount(table[v], LockUntil(table, u, t)[v])
           /\ SameAccount(table[v], ClearLock(table, u)[v])
  BY DEF SameAccount, OnRoster, Table, Row, IncrFailedAttempts, LockUntil, ClearLock

\* A token reaches the user it was signed for, and is of one purpose.
LEMMA IssueFrame ==
    ASSUME AccountsTypeOK, NEW purpose \in Purposes, NEW u \in Users, NEW ttl \in Nat,
           IssueToken(purpose, u, ttl)
    PROVE  /\ \A q \in Purposes \ {purpose} : token'[q] = token[q]
           /\ \A v \in Users : v # u => token'[purpose][v] = token[purpose][v]
           /\ token'[purpose][u] >= token[purpose][u]
  BY DEF AccountsTypeOK, IssueToken

\* Login signs setup tokens for those it saw without a second factor, and mfa
\* tokens; a request that gets as far as that was given the right password.
LEMMA LoginFrame ==
    ASSUME TypeOK, NEW s \in Logins, L!LoginStep(s)
    PROVE  /\ UNCHANGED replica
           /\ \A u \in Users : SameAccount(users[u], users'[u])
           /\ \A q \in Purposes \ {"mfa", "totp_setup"} : token'[q] = token[q]
           /\ \A u \in Users :
                  token'["totp_setup"][u] # token["totp_setup"][u] =>
                      /\ login[s].pc = "clear" /\ login[s].user = u /\ ~login[s].enrolled
                      /\ login'[s] # login[s]
           /\ \A t \in Logins :
                  login'[t].pc = "clear" =>
                      \/ login'[t] = login[t]
                      \/ /\ login'[t].user \in Users
                         /\ \E view \in ReadViews :
                                /\ view[login'[t].user].exists
                                /\ view[login'[t].user].active
                                /\ view[login'[t].user].password \in Passwords
  <1> USE LoginStatements
  <1>a. /\ AccountsTypeOK /\ users \in Table /\ login \in [Logins -> L!Slot]
        /\ \A u \in Users : SameAccount(users[u], users[u])
        /\ {"mfa", "totp_setup"} \subseteq Purposes
        /\ MFAExpiry \in Nat /\ L!SetupTTL \in Nat
    BY TypeParts, AuthSystemAssumption
       DEF AccountsTypeOK, LoginTyped, SameAccount, OnRoster, Purposes, AuthSystemAssumption,
           L!LoginAssumption, L!SetupTTL
  <1>b. login[s].pc # "idle" => login[s].user \in Users
    BY <1>a DEF L!Slot
  <1>1. ASSUME NEW u \in Users, NEW password \in Passwords, L!Find(s, u, password)
        PROVE  /\ UNCHANGED accountVars
               /\ \A t \in Logins :
                    login'[t].pc = "clear" =>
                      \/ login'[t] = login[t]
                      \/ /\ login'[t].user \in Users
                         /\ \E view \in ReadViews :
                                /\ view[login'[t].user].exists
                                /\ view[login'[t].user].active
                                /\ view[login'[t].user].password \in Passwords
    BY <1>1, <1>a DEF L!Find, L!MayTry, L!accountVars, accountVars
  <1>2. CASE L!Incr(s)
    <2>1. \A u \in Users : SameAccount(users[u], users'[u])
      BY <1>2, <1>a, <1>b, LockoutFrame DEF L!Incr, Exec
    <2> QED
      BY <1>2, <1>a, <2>1 DEF L!Incr
  <1>3. CASE L!Recount(s)
    BY <1>3, <1>a DEF L!Recount, L!Idle, L!accountVars
  <1>4. CASE L!Lock(s)
    <2>1. \A u \in Users : SameAccount(users[u], users'[u])
      BY <1>4, <1>a, <1>b, LockoutFrame DEF L!Lock
    <2> QED
      BY <1>4, <1>a, <2>1 DEF L!Lock, L!Idle
  <1>5. CASE L!Clear(s)
    <2>1. \A u \in Users : SameAccount(users[u], users'[u])
      BY <1>5, <1>a, <1>b, LockoutFrame DEF L!Clear, Exec
    <2>2. /\ \A q \in Purposes \ {"mfa", "totp_setup"} : token'[q] = token[q]
          /\ \A u \in Users :
                  token'["totp_setup"][u] # token["totp_setup"][u] =>
                      login[s].user = u /\ ~login[s].enrolled
      BY <1>5, <1>a, <1>b, IssueFrame DEF L!Clear
    <2> QED
      BY <1>5, <1>a, <2>1, <2>2 DEF L!Clear, L!Idle
  <1>6. CASE L!Abort(s)
    BY <1>6, <1>a DEF L!Abort, L!Idle, L!accountVars
  <1> QED
    BY <1>1, <1>2, <1>3, <1>4, <1>5, <1>6, <1>a DEF L!LoginStep, accountVars
\* The statements of UserService, in the words of Accounts.
LEMMA ServiceStatements ==
    /\ S!ReadViews = ReadViews
    /\ \A purpose, u, ttl : S!IssueToken(purpose, u, ttl) <=> IssueToken(purpose, u, ttl)
    /\ \A table : S!Exec(table) <=> Exec(table)
    /\ \A table, u : S!Deactivate(table, u) = Deactivate(table, u)
    /\ \A table, u, x : S!UpdateRole(table, u, x) = UpdateRole(table, u, x)
    /\ \A table, u, role, p : S!CreateRow(table, u, role, p) = CreateRow(table, u, role, p)
  BY DEF S!ReadViews, ReadViews, S!Configured, Configured, S!IssueToken, IssueToken,
         S!Exec, Exec, S!Deactivate, Deactivate, S!UpdateRole, UpdateRole,
         S!CreateRow, CreateRow, S!NoRow, NoRow

\* A row that only loses its is_active, or changes its role.
Kept(old, new) ==
    /\ new.exists = old.exists /\ (new.active => old.active)
    /\ new.secret = old.secret /\ new.password = old.password

\* A row that an INSERT has put where there was none.
Inserted(old, new) == ~old.exists /\ new.exists /\ new.secret = NoSecret

\* What a change and an INSERT do to the rows of a table.
LEMMA ManagementFrame ==
    ASSUME NEW table \in Table, NEW u \in Users, NEW v \in Users
    PROVE  /\ Kept(table[v], Deactivate(table, u)[v]) /\ ~Deactivate(table, u)[u].active
           /\ \A role : Kept(table[v], UpdateRole(table, u, role)[v])
           /\ \A role, p : /\ v # u => CreateRow(table, u, role, p)[v] = table[v]
                           /\ CreateRow(table, u, role, p)[u].exists
                           /\ CreateRow(table, u, role, p)[u].secret = NoSecret
                           /\ CreateRow(table, u, role, p)[u].password = p
  BY DEF Kept, Table, Row, NoRow, Deactivate, UpdateRole, CreateRow

\* The request q has inserted u's row and not yet deactivated it.
Disabling(q, u) == proc[q].pc = "disable" /\ proc[q].user = u

\* UserService signs invite tokens only, as it deactivates a row it has
\* inserted without a password; of other rows it takes is_active away at most.
LEMMA ServiceFrame ==
    ASSUME TypeOK, NEW p \in Procs, S!ServiceStep(p)
    PROVE  /\ UNCHANGED replica
           /\ \A q \in Purposes \ {"invite"} : token'[q] = token[q]
           /\ \A u \in Users : \/ Kept(users[u], users'[u])
                               \/ Inserted(users[u], users'[u])
           /\ \A q \in Procs, u \in Users :
                  Disabling(q, u)' =>
                      \/ Disabling(q, u) /\ proc'[q] = proc[q] /\ (q = p => users' = users)
                      \/ /\ q = p /\ Inserted(users[u], users'[u])
                         /\ users'[u].password = NoPassword
           /\ \A u \in Users :
                  token'["invite"][u] # token["invite"][u] =>
                      Disabling(p, u) /\ ~users'[u].active /\ ~Disabling(p, u)'
  <1> USE ServiceStatements
  <1>a. /\ AccountsTypeOK /\ users \in Table /\ proc \in [Procs -> S!State]
        /\ \A u \in Users : Kept(users[u], users[u])
        /\ "invite" \in Purposes /\ InviteTTL \in Nat
    BY TypeParts, AuthSystemAssumption
       DEF AccountsTypeOK, ServiceTyped, Kept, Purposes, AuthSystemAssumption,
           S!UserServiceAssumption
  <1>b. proc[p].pc \in {"write", "insert", "disable"} => proc[p].user \in Users
    BY <1>a DEF S!State
  <1>1. CASE S!BootCount(p)
    BY <1>1, <1>a DEF S!BootCount, S!Up, S!accountVars, Disabling
  <1>2. CASE S!BootCreate(p)
    <2>1. CASE users' = users
      BY <1>2, <1>a, <2>1 DEF S!BootCreate, S!Up, Disabling
    <2>2. CASE users' # users
      <3>1. /\ ~users[BootstrapUser].exists
            /\ \E password \in Passwords :
                  users' = CreateRow(users, BootstrapUser, S!SuperAdmin, password)
            /\ BootstrapUser \in Users
        BY <1>2, <1>a, <2>2 DEF S!BootCreate, S!State
      <3>2. \A u \in Users : \/ Kept(users[u], users'[u])
                             \/ Inserted(users[u], users'[u])
        BY <1>a, <3>1, ManagementFrame DEF Inserted
      <3> QED
        BY <1>2, <1>a, <2>2, <3>2 DEF S!BootCreate, S!Up, Disabling
    <2> QED
      BY <2>1, <2>2
  <1>3. CASE S!Restart(p)
    BY <1>3, <1>a DEF S!Restart, S!Down, S!accountVars, Disabling
  <1>4. ASSUME NEW u \in Users, NEW change \in S!Changes, S!FindTarget(p, u, change)
        PROVE  /\ UNCHANGED <<users, replica, token>>
               /\ \A q \in Procs : proc'[q].pc = "disable" => proc'[q] = proc[q]
    BY <1>4, <1>a DEF S!FindTarget, S!accountVars
  <1>5. CASE S!CountAdmins(p)
    BY <1>5, <1>a DEF S!CountAdmins, S!Up, S!accountVars, Disabling
  <1>6. CASE S!Write(p)
    <2>1. \A u \in Users : Kept(users[u], users'[u])
      BY <1>6, <1>a, <1>b, ManagementFrame DEF S!Write, Exec, S!Changed
    <2> QED
      BY <1>6, <1>a, <2>1 DEF S!Write, S!Up, Disabling
  <1>7. ASSUME NEW u \in Users, NEW role \in Roles, S!FindInvitee(p, u, role)
        PROVE  /\ UNCHANGED <<users, replica, token>>
               /\ \A q \in Procs : proc'[q].pc = "disable" => proc'[q] = proc[q]
    BY <1>7, <1>a DEF S!FindInvitee, S!accountVars
  <1>8. CASE S!Insert(p)
    <2> DEFINE v == proc[p].user
    <2>1. CASE users[v].exists
      BY <1>8, <1>a, <2>1 DEF S!Insert, S!Up, Disabling
    <2>2. CASE ~users[v].exists
      <3>1. /\ v \in Users
            /\ users' = CreateRow(users, v, proc[p].change, NoPassword)
            /\ proc' = [proc EXCEPT ![p].pc = "disable"]
            /\ UNCHANGED <<replica, token>>
        BY <1>8, <1>b, <2>2 DEF S!Insert
      <3>2. /\ \A u \in Users : u # v => users'[u] = users[u]
            /\ Inserted(users[v], users'[v]) /\ users'[v].password = NoPassword
        BY <1>a, <2>2, <3>1, ManagementFrame DEF Inserted
      <3>3. \A q \in Procs, u \in Users :
                Disabling(q, u)' => \/ q = p /\ u = v
                                    \/ q # p /\ Disabling(q, u) /\ proc'[q] = proc[q]
        <4>1. proc[p].pc = "insert" /\ proc[p] \in S!State
          BY <1>8, <1>a DEF S!Insert
        <4>2. proc'[p].user = v
          BY <1>a, <3>1, <4>1 DEF S!State
        <4> QED
          BY <1>a, <3>1, <4>2 DEF Disabling
      <3> QED
        BY <1>a, <3>1, <3>2, <3>3
    <2> QED
      BY <2>1, <2>2
  <1>9. CASE S!Disable(p)
    <2>1. /\ \A u \in Users : Kept(users[u], users'[u])
          /\ ~users'[proc[p].user].active
      BY <1>9, <1>a, <1>b, ManagementFrame DEF S!Disable
    <2>2. /\ \A q \in Purposes \ {"invite"} : token'[q] = token[q]
          /\ \A u \in Users :
                token'["invite"][u] # token["invite"][u] => u = proc[p].user
      BY <1>9, <1>a, <1>b, IssueFrame DEF S!Disable
    <2> QED
      BY <1>9, <1>a, <2>1, <2>2 DEF S!Disable, S!Up, Disabling
  <1>10. CASE S!Fail(p)
    BY <1>10, <1>a DEF S!Fail, S!Up, S!accountVars, Disabling
  <1>11. CASE S!Crash(p)
    BY <1>11, <1>a DEF S!Crash, S!Down, S!accountVars, Disabling
  <1> QED
    BY <1>1, <1>2, <1>3, <1>4, <1>5, <1>6, <1>7, <1>8, <1>9, <1>10, <1>11, <1>a
       DEF S!ServiceStep, S!Boot, Disabling

-----------------------------------------------------------------------------
(* The second factor is mandatory. *)

\* A secret belongs to a row that exists, and what a replica shows of either
\* is still true of the table; a request that is to store a secret has a row
\* to store it in, and one that is to sign a session has stored it.
Secured ==
    /\ \A u \in Users : Enrolled(users[u]) => users[u].exists
    /\ \A r \in Configured, u \in Users :
           /\ replica[r][u].exists => users[u].exists
           /\ Enrolled(replica[r][u]) => Enrolled(users[u])
    /\ \A s \in Enrolments :
           /\ enrol[s].pc = "store" => users[enrol[s].user].exists
           /\ enrol[s].pc = "reload" => Enrolled(users[enrol[s].user])
    /\ MandatoryTwoFactor

\* What a read shows to exist, or to be enrolled, is so in the table.
LEMMA ViewSecured ==
    ASSUME TypeOK, Secured, NEW view \in ReadViews, NEW u \in Users
    PROVE  /\ view[u].exists => users[u].exists
           /\ Enrolled(view[u]) => Enrolled(users[u])
  BY DEF Secured, ReadViews

\* Rows that neither go away nor lose their secret keep everybody secured.
LEMMA SecuredFrame ==
    ASSUME TypeOK, Secured,
           \A u \in Users : /\ users[u].exists => users'[u].exists
                            /\ Enrolled(users[u]) => Enrolled(users'[u])
                            /\ Enrolled(users'[u]) => users'[u].exists,
           UNCHANGED <<replica, enrol>>,
           token'["session"] = token["session"]
    PROVE  Secured'
  <1>1. \A s \in Enrolments : enrol[s].pc # "idle" => enrol[s].user \in Users
    BY TypeParts, EnrolFields DEF E!EnrolmentTypeOK
  <1> QED
    BY <1>1 DEF Secured, Configured, MandatoryTwoFactor

\* A step of an enrolment keeps everybody secured.
LEMMA EnrolSecured ==
    ASSUME TypeOK, Secured, NEW s \in Enrolments, E!EnrolmentStep(s)
    PROVE  Secured'
  <1> USE EnrolStatements
  <1>a. /\ AccountsTypeOK /\ users \in Table /\ enrol \in [Enrolments -> E!Slot]
        /\ "session" \in Purposes /\ "totp_setup" \in Purposes
        /\ JWTExpiry \in Nat /\ TOTPSetupExpiry \in Nat
    BY TypeParts, AuthSystemAssumption
       DEF AccountsTypeOK, E!EnrolmentTypeOK, Purposes, AuthSystemAssumption, L!LoginAssumption
  <1>b. \A t \in Enrolments : enrol[t].pc # "idle" => enrol[t].user \in Users
    BY <1>a, EnrolFields
  \* a session signed for an enrolled user, the slot let go or left alone
  <1>c. ASSUME NEW u \in Users, Enrolled(users[u]), IssueToken("session", u, JWTExpiry),
               UNCHANGED <<users, replica>>,
               enrol' = enrol \/ enrol' = [enrol EXCEPT ![s] = E!Idle]
        PROVE  Secured'
    <2>1. \A v \in Users : v # u => token'["session"][v] = token["session"][v]
      BY <1>a, <1>c, IssueFrame
    <2> QED
      BY <1>a, <1>c, <2>1 DEF Secured, Configured, MandatoryTwoFactor, E!Idle
  <1>1. ASSUME NEW u \in Users, E!VerifyTOTP(s, u)
        PROVE  Secured'
    BY <1>1, <1>c, ViewSecured DEF E!VerifyTOTP, E!enrolVars
  <1>2. ASSUME NEW u \in Users, NEW secret \in Secrets, E!ConfirmFind(s, u, secret)
        PROVE  Secured'
    <2>1. users[u].exists
      BY <1>2, ViewSecured DEF E!ConfirmFind
    <2> QED
      BY <1>2, <1>a, <2>1
         DEF E!ConfirmFind, E!accountVars, Secured, Configured, MandatoryTwoFactor
  <1>3. CASE E!ConfirmStore(s)
    <2> DEFINE v == enrol[s].user
    <2>1. /\ v \in Users /\ enrol[s].secret \in Secrets /\ users[v].exists
          /\ users' = SetTOTP(users, v, enrol[s].secret)
          /\ enrol' = [enrol EXCEPT ![s] = [pc |-> "reload", user |-> v]]
          /\ UNCHANGED <<replica, token>>
      BY <1>3, <1>a, <1>b, EnrolFields DEF E!ConfirmStore, Secured
    <2>2. /\ Enrolled(users'[v]) /\ users'[v].exists
          /\ \A w \in Users : w # v => users'[w] = users[w]
      BY <1>a, <2>1, AccountsAssumption DEF SetTOTP, Table, Row, Enrolled, AccountsAssumption
    <2> QED
      BY <1>a, <1>b, <2>1, <2>2 DEF Secured, Configured, MandatoryTwoFactor
  <1>4. CASE E!ConfirmReload(s)
    <2>1. enrol[s].user \in Users /\ Enrolled(users[enrol[s].user])
      BY <1>4, <1>b DEF E!ConfirmReload, Secured
    <2> QED
      BY <1>4, <1>c, <2>1 DEF E!ConfirmReload
  <1>5. ASSUME NEW u \in Users, NEW password \in Passwords, E!AcceptFind(s, u, password)
        PROVE  Secured'
    BY <1>5, <1>a DEF E!AcceptFind, E!accountVars, Secured, Configured, MandatoryTwoFactor
  <1>6. CASE E!AcceptPassword(s)
    <2>1. /\ \A w \in Users : /\ users'[w].exists = users[w].exists
                              /\ Enrolled(users'[w]) = Enrolled(users[w])
          /\ UNCHANGED <<replica, token>>
          /\ enrol' = [enrol EXCEPT ![s] = [pc |-> "unlock", user |-> enrol[s].user]]
      BY <1>6, <1>a, <1>b DEF E!AcceptPassword, UpdatePassword, Table, Row, Enrolled
    <2> QED
      BY <1>a, <1>b, <2>1 DEF Secured, Configured, MandatoryTwoFactor
  <1>7. CASE E!AcceptUnlock(s)
    <2>1. /\ \A w \in Users : /\ users'[w].exists = users[w].exists
                              /\ Enrolled(users'[w]) = Enrolled(users[w])
          /\ replica' = replica
          /\ enrol' = [enrol EXCEPT ![s] = E!Idle]
      <3>1. ASSUME NEW w \in Users
            PROVE  /\ ClearLock(users, enrol[s].user)[w].exists = users[w].exists
                   /\ ClearLock(users, enrol[s].user)[w].secret = users[w].secret
        BY <1>a DEF ClearLock, Table, Row
      <3> QED
        BY <1>7, <1>a, <3>1 DEF E!AcceptUnlock, Enrolled
    <2>2. token'["session"] = token["session"]
      BY <1>7, <1>a, <1>b, IssueFrame DEF E!AcceptUnlock
    <2> QED
      BY <1>a, <1>b, <2>1, <2>2 DEF Secured, Configured, MandatoryTwoFactor, E!Idle
  <1>8. CASE E!Abort(s)
    BY <1>8, <1>a DEF E!Abort, E!accountVars, E!Idle, Secured, Configured, MandatoryTwoFactor
  <1> QED
    BY <1>1, <1>2, <1>3, <1>4, <1>5, <1>6, <1>7, <1>8 DEF E!EnrolmentStep

\* Whoever was ever given a session has an authenticator in the table
\* (auth_service.go:114-132, 149-153, 199-208), for every set of requests,
\* processes, replicas and accounts, and whatever fails.
THEOREM MandatoryTwoFactorSafe == Spec => []MandatoryTwoFactor
  <1>1. Init => Secured
    <2> SUFFICES ASSUME Init PROVE Secured
      OBVIOUS
    <2>1. /\ \A u \in Users : ~Enrolled(users[u])
          /\ \A r \in Configured : replica[r] = users
          /\ \A u \in Users : token["session"][u] = 0
      BY FirstRows DEF Init, AccountsInit, Configured, Purposes
    <2>2. \A s \in Enrolments : enrol[s].pc = "idle"
      BY DEF Init, E!EnrolmentInit, E!Idle
    <2> QED
      BY <2>1, <2>2 DEF Secured, MandatoryTwoFactor
  <1>2. TypeOK /\ Secured /\ [Next]_vars => Secured'
    <2> SUFFICES ASSUME TypeOK, Secured, [Next]_vars PROVE Secured'
      OBVIOUS
    <2>a. "session" \in Purposes
      BY DEF Purposes
    <2>1. ASSUME NEW s \in Logins, L!LoginStep(s), UNCHANGED <<enrolVars, serviceVars>>
          PROVE  Secured'
      <3>1. /\ \A u \in Users : SameAccount(users[u], users'[u])
            /\ token'["session"] = token["session"] /\ UNCHANGED <<replica, enrol>>
        BY <2>1, <2>a, LoginFrame DEF enrolVars
      <3> QED
        BY <3>1, SecuredFrame DEF SameAccount, OnRoster, Enrolled, Secured
    <2>2. ASSUME NEW s \in Enrolments, E!EnrolmentStep(s)
          PROVE  Secured'
      BY <2>2, EnrolSecured
    <2>3. ASSUME NEW p \in Procs, S!ServiceStep(p), UNCHANGED <<loginVars, enrolVars>>
          PROVE  Secured'
      <3>1. /\ \A u \in Users : \/ Kept(users[u], users'[u])
                                \/ Inserted(users[u], users'[u])
            /\ token'["session"] = token["session"] /\ UNCHANGED <<replica, enrol>>
        BY <2>3, <2>a, ServiceFrame DEF enrolVars
      <3> QED
        BY <3>1, SecuredFrame DEF Kept, Inserted, Enrolled, Secured
    <2>4. CASE Environment /\ UNCHANGED <<loginVars, enrolVars, serviceVars>>
      <3>1. CASE Tick
        BY <2>4, <3>1 DEF Tick, enrolVars, Secured, Configured, MandatoryTwoFactor
      <3>2. ASSUME NEW r \in Configured, CatchUp(r) PROVE Secured'
        BY <2>4, <3>2, TypeParts
           DEF CatchUp, enrolVars, Secured, Configured, MandatoryTwoFactor, AccountsTypeOK
      <3> QED
        BY <2>4, <3>1, <3>2 DEF Environment
    <2>5. CASE UNCHANGED vars
      BY <2>5 DEF vars, accountVars, enrolVars, Secured, Configured, MandatoryTwoFactor
    <2> QED
      BY <2>1, <2>2, <2>3, <2>4, <2>5 DEF Next
  <1>3. Secured => MandatoryTwoFactor
    BY DEF Secured
  <1> QED
    BY <1>1, <1>2, <1>3, AuthTypeCorrect, PTL DEF Spec

-----------------------------------------------------------------------------
(* Sessions go to active accounts. *)

\* Without replicas a deactivated account gets a session in one way only, from
\* a ConfirmTOTP that looked at is_active before it stored the secret
\* (auth_service.go:192-208).
THEOREM SessionForActiveSafe == Spec => SessionForActive
  <1> DEFINE Rule == Configured = {} =>
                 \A u \in Users :
                    Issued("session", u) /\ ~users[u].active =>
                       \E s \in Enrolments : /\ enrol[s].pc = "reload" /\ enrol[s].user = u
                                            /\ enrol'[s] # enrol[s]
  <1>1. TypeOK /\ [Next]_vars => [Rule]_vars
    <2> SUFFICES ASSUME TypeOK, Next, Configured = {}, NEW u \in Users,
                        Issued("session", u), ~users[u].active
                 PROVE  \E s \in Enrolments : /\ enrol[s].pc = "reload" /\ enrol[s].user = u
                                              /\ enrol'[s] # enrol[s]
      OBVIOUS
    <2>a. /\ AccountsTypeOK /\ "session" \in Purposes /\ "totp_setup" \in Purposes
          /\ JWTExpiry \in Nat /\ TOTPSetupExpiry \in Nat
          /\ ReadViews = {users} /\ enrol \in [Enrolments -> E!Slot]
      BY TypeParts, AuthSystemAssumption
         DEF Purposes, AuthSystemAssumption, L!LoginAssumption, ReadViews, E!EnrolmentTypeOK
    <2>b. token'["session"] # token["session"]
      BY <2>a DEF Issued, AccountsTypeOK
    <2>1. PICK s \in Enrolments : E!EnrolmentStep(s)
      BY <2>a, <2>b, LoginFrame, ServiceFrame, EnvironmentType, AccountsAssumption DEF Next
    <2>2. ASSUME NEW v \in Users, E!VerifyTOTP(s, v)
          PROVE  FALSE
      <3>1. users[v].active /\ IssueToken("session", v, JWTExpiry)
        BY <2>2, <2>a, EnrolStatements DEF E!VerifyTOTP
      <3> QED
        BY <2>a, <3>1, IssueFrame DEF Issued, AccountsTypeOK
    <2>3. CASE E!ConfirmReload(s)
      <3>1. /\ enrol[s].pc = "reload" /\ enrol[s].user \in Users
            /\ IssueToken("session", enrol[s].user, JWTExpiry)
            /\ enrol'[s] # enrol[s]
        BY <2>3, <2>a, EnrolFields, EnrolStatements DEF E!ConfirmReload, E!Idle
      <3> QED
        BY <2>a, <3>1, IssueFrame DEF Issued, AccountsTypeOK
    <2>4. CASE E!AcceptUnlock(s)
      <3>1. enrol[s].user \in Users /\ IssueToken("totp_setup", enrol[s].user, TOTPSetupExpiry)
        BY <2>4, <2>a, EnrolFields, EnrolStatements DEF E!AcceptUnlock
      <3> QED
        BY <2>a, <2>b, <3>1, IssueFrame
    <2> QED
      BY <2>1, <2>2, <2>3, <2>4, <2>b
         DEF E!EnrolmentStep, E!ConfirmFind, E!ConfirmStore, E!AcceptFind,
             E!AcceptPassword, E!Abort, E!accountVars
  <1> QED
    BY <1>1, AuthTypeCorrect, PTL DEF Spec, SessionForActive

-----------------------------------------------------------------------------
(* Setup tokens go to accounts without a second factor. *)

\* No login was given u's password, and no enrolment may store a secret for it.
Sealed(u) ==
    /\ \A s \in Logins : ~(login[s].pc = "clear" /\ login[s].user = u)
    /\ \A s \in Enrolments : ~(enrol[s].pc \in {"store", "reload"} /\ enrol[s].user = u)

\* Nobody holds a token for u, and none of its requests has begun.
Untouched(u) ==
    /\ Sealed(u) /\ ~Enrolled(users[u])
    /\ token["totp_setup"][u] = 0 /\ token["invite"][u] = 0
    /\ \A s \in Enrolments : enrol[s].pc # "idle" => enrol[s].user # u

\* Where accounts come from, without replicas: nobody can do anything with one
\* that is not there, or that is being invited by the one request that has
\* inserted it; and one that was invited stays inactive and not enrolled.
Invited ==
    /\ \A u \in Users : ~users[u].exists =>
           Untouched(u) /\ \A p \in Procs : ~Disabling(p, u)
    /\ \A u \in Users, p \in Procs : Disabling(p, u) =>
           /\ Untouched(u) /\ users[u].password = NoPassword
           /\ \A q \in Procs : Disabling(q, u) => q = p
    /\ \A u \in Users : token["invite"][u] > 0 =>
           Sealed(u) /\ ~users[u].active /\ ~Enrolled(users[u])
    /\ \A s \in Enrolments : enrol[s].pc \in {"password", "unlock"} =>
           token["invite"][enrol[s].user] > 0

\* Login is given nobody's password that nobody has.
LEMMA LoginInvited ==
    ASSUME TypeOK, Configured = {}, Invited,
           NEW s \in Logins, L!LoginStep(s), UNCHANGED <<enrolVars, serviceVars>>
    PROVE  Invited'
  <1>a. /\ AccountsTypeOK /\ users \in Table /\ ReadViews = {users}
        /\ "invite" \in Purposes /\ "totp_setup" \in Purposes
        /\ enrol \in [Enrolments -> E!Slot]
    BY TypeParts DEF AccountsTypeOK, Purposes, ReadViews, E!EnrolmentTypeOK
  <1>b. UNCHANGED <<enrol, proc>> /\ token'["invite"] = token["invite"]
    BY <1>a, LoginFrame DEF enrolVars, serviceVars
  <1>c. \A u \in Users : SameAccount(users[u], users'[u])
    BY LoginFrame
  <1>1. ASSUME NEW u \in Users, Sealed(u),
               ~users[u].exists \/ users[u].password = NoPassword \/ ~users[u].active
        PROVE  Sealed(u)'
    <2>1. users[u].password = NoPassword => users[u].password \notin Passwords
      BY AccountsAssumption DEF AccountsAssumption
    <2> QED
      BY <1>1, <1>a, <1>b, <2>1, LoginFrame DEF Sealed
  <1>2. ASSUME NEW u \in Users, Untouched(u), ~users[u].exists \/ users[u].password = NoPassword
        PROVE  Untouched(u)'
    <2>1. token'["totp_setup"][u] = token["totp_setup"][u]
      BY <1>2, LoginFrame DEF Untouched, Sealed
    <2> QED
      BY <1>2, <1>1, <1>a, <1>b, <1>c, <2>1 DEF Untouched, SameAccount, OnRoster, Enrolled
  <1>3. \A t \in Enrolments : enrol[t].pc # "idle" => enrol[t].user \in Users
    BY <1>a, EnrolFields
  <1>4. \A u \in Users : ~users'[u].exists =>
            Untouched(u)' /\ \A p \in Procs : ~Disabling(p, u)'
    BY <1>2, <1>b, <1>c DEF Invited, SameAccount, OnRoster, Disabling
  <1>5. \A u \in Users, p \in Procs : Disabling(p, u)' =>
            /\ Untouched(u)' /\ users'[u].password = NoPassword
            /\ \A q \in Procs : Disabling(q, u)' => q = p
    BY <1>2, <1>b, <1>c DEF Invited, SameAccount, OnRoster, Disabling
  <1>6. \A u \in Users : token'["invite"][u] > 0 =>
            Sealed(u)' /\ ~users'[u].active /\ ~Enrolled(users'[u])
    BY <1>1, <1>b, <1>c DEF Invited, SameAccount, OnRoster, Enrolled
  <1> QED
    BY <1>3, <1>4, <1>5, <1>6, <1>b DEF Invited

\* UserService invites an account once, when it inserts it.
LEMMA ServiceInvited ==
    ASSUME TypeOK, Configured = {}, Invited,
           NEW p \in Procs, S!ServiceStep(p), UNCHANGED <<loginVars, enrolVars>>
    PROVE  Invited'
  <1>a. /\ AccountsTypeOK /\ "invite" \in Purposes /\ "totp_setup" \in Purposes
        /\ enrol \in [Enrolments -> E!Slot]
        /\ \A u \in Users : token["invite"][u] \in Nat /\ token'["invite"][u] \in Nat
    BY TypeParts, ServiceKeepsTypes
       DEF AccountsTypeOK, Purposes, E!EnrolmentTypeOK, S!TypeOK, S!AccountsTypeOK, S!Purposes
  <1>b. UNCHANGED <<enrol, login>> /\ token'["totp_setup"] = token["totp_setup"]
    BY <1>a, ServiceFrame DEF enrolVars, loginVars
  <1>c. \A u \in Users : Kept(users[u], users'[u]) \/ Inserted(users[u], users'[u])
    BY ServiceFrame
  <1>d. \A u \in Users : token'["invite"][u] # token["invite"][u] =>
            Disabling(p, u) /\ ~users'[u].active /\ ~Disabling(p, u)'
    BY ServiceFrame
  <1>e. \A q \in Procs, u \in Users : Disabling(q, u)' =>
            \/ Disabling(q, u) /\ (q = p => users' = users)
            \/ /\ q = p /\ Inserted(users[u], users'[u])
               /\ users'[u].password = NoPassword
    BY ServiceFrame
  <1>f. \A u \in Users : Sealed(u) => Sealed(u)'
    BY <1>b DEF Sealed
  <1>1. ASSUME NEW u \in Users, Untouched(u), token'["invite"][u] = token["invite"][u]
        PROVE  Untouched(u)'
    BY <1>1, <1>b, <1>c, <1>f DEF Untouched, Kept, Inserted, Enrolled
  <1>2. ASSUME NEW u \in Users, ~users'[u].exists
        PROVE  Untouched(u)' /\ \A q \in Procs : ~Disabling(q, u)'
    <2>1. ~users[u].exists
      BY <1>2, <1>c DEF Kept, Inserted
    <2>2. Untouched(u) /\ \A q \in Procs : ~Disabling(q, u)
      BY <2>1 DEF Invited
    <2> QED
      BY <1>1, <1>2, <1>d, <1>e, <2>2 DEF Inserted
  <1>3. ASSUME NEW u \in Users, NEW q \in Procs, Disabling(q, u)'
        PROVE  /\ Untouched(u)' /\ users'[u].password = NoPassword
               /\ \A r \in Procs : Disabling(r, u)' => r = q
    <2>1. CASE Inserted(users[u], users'[u])
      <3>1. Untouched(u) /\ \A r \in Procs : ~Disabling(r, u)
        BY <2>1 DEF Inserted, Invited
      <3> QED
        BY <1>1, <1>3, <1>d, <1>e, <3>1
    <2>2. CASE ~Inserted(users[u], users'[u])
      <3>1. Disabling(q, u) /\ Kept(users[u], users'[u])
        BY <1>3, <1>c, <1>e, <2>2
      <3>2. /\ Untouched(u) /\ users[u].password = NoPassword
            /\ \A r \in Procs : Disabling(r, u) => r = q
        BY <3>1 DEF Invited
      <3>3. token'["invite"][u] = token["invite"][u]
        BY <1>3, <1>d, <3>2
      <3> QED
        BY <1>1, <1>e, <2>2, <3>1, <3>2, <3>3 DEF Kept
    <2> QED
      BY <2>1, <2>2
  <1>4. ASSUME NEW u \in Users, token'["invite"][u] > 0
        PROVE  Sealed(u)' /\ ~users'[u].active /\ ~Enrolled(users'[u])
    <2>1. CASE token'["invite"][u] = token["invite"][u]
      <3>1. Sealed(u) /\ ~users[u].active /\ ~Enrolled(users[u]) /\ users[u].exists
        BY <1>4, <2>1, <1>a DEF Invited, Untouched
      <3> QED
        BY <1>c, <1>f, <3>1 DEF Kept, Inserted, Enrolled
    <2>2. CASE token'["invite"][u] # token["invite"][u]
      <3>1. Sealed(u) /\ ~Enrolled(users[u]) /\ ~users'[u].active
        BY <1>d, <2>2 DEF Invited, Untouched
      <3> QED
        BY <1>c, <1>f, <3>1 DEF Kept, Inserted, Enrolled
    <2> QED
      BY <2>1, <2>2
  <1>5. ASSUME NEW s \in Enrolments, enrol'[s].pc \in {"password", "unlock"}
        PROVE  token'["invite"][enrol'[s].user] > 0
    <2>1. enrol[s].user \in Users /\ token["invite"][enrol[s].user] > 0
      BY <1>5, <1>a, <1>b, EnrolFields DEF Invited
    <2>2. \A q \in Procs : ~Disabling(q, enrol[s].user)
      BY <2>1 DEF Invited, Untouched
    <2> QED
      BY <1>b, <1>d, <2>1, <2>2
  <1> QED
    BY <1>2, <1>3, <1>4, <1>5 DEF Invited

\* An enrolment begins with a token, and stores for active accounts only.
LEMMA EnrolInvited ==
    ASSUME TypeOK, Configured = {}, Invited,
           NEW s \in Enrolments, E!EnrolmentStep(s), UNCHANGED <<loginVars, serviceVars>>
    PROVE  Invited'
  <1> USE EnrolStatements
  <1>a. /\ AccountsTypeOK /\ users \in Table /\ enrol \in [Enrolments -> E!Slot]
        /\ "session" \in Purposes /\ "totp_setup" \in Purposes /\ "invite" \in Purposes
        /\ JWTExpiry \in Nat /\ TOTPSetupExpiry \in Nat /\ ReadViews = {users}
        /\ clock \in Nat /\ \A q \in Purposes, u \in Users : token[q][u] \in Nat
        /\ UNCHANGED <<login, proc>>
    BY TypeParts, AuthSystemAssumption, AccountsAssumption
       DEF AccountsTypeOK, E!EnrolmentTypeOK, Purposes, AuthSystemAssumption,
           L!LoginAssumption, ReadViews, AccountsAssumption, loginVars, serviceVars
  <1>b. \A t \in Enrolments : enrol[t].pc # "idle" => enrol[t].user \in Users
    BY <1>a, EnrolFields
  \* one request moves on, for an account somebody may act for
  <1>c. ASSUME NEW v \in Users, NEW slot, slot.user = v,
               slot.pc \in {"store", "reload", "password", "unlock"},
               enrol' = [enrol EXCEPT ![s] = slot],
               slot.pc \in {"store", "reload"} => token["invite"][v] = 0,
               slot.pc \in {"password", "unlock"} => token["invite"][v] > 0,
               ~Untouched(v), UNCHANGED token,
               \A u \in Users : u # v => users'[u] = users[u],
               users'[v].exists = users[v].exists, users'[v].active = users[v].active,
               token["invite"][v] > 0 => ~Enrolled(users'[v])
        PROVE  Invited'
    <2>1. /\ users[v].exists /\ \A p \in Procs : ~Disabling(p, v)
      BY <1>c DEF Invited
    <2>2. ASSUME NEW u \in Users, u # v
          PROVE  /\ Sealed(u) => Sealed(u)'
                 /\ Untouched(u) => Untouched(u)'
      BY <1>a, <1>c, <2>2 DEF Sealed, Untouched
    <2>3. token["invite"][v] > 0 => Sealed(v)'
      BY <1>a, <1>c DEF Invited, Sealed
    <2>4. \A u \in Users : ~users'[u].exists =>
              Untouched(u)' /\ \A p \in Procs : ~Disabling(p, u)'
      BY <1>a, <1>c, <2>1, <2>2 DEF Invited, Disabling
    <2>5. \A u \in Users, p \in Procs : Disabling(p, u)' =>
              /\ Untouched(u)' /\ users'[u].password = NoPassword
              /\ \A q \in Procs : Disabling(q, u)' => q = p
      BY <1>a, <1>c, <2>1, <2>2 DEF Invited, Disabling
    <2>6. \A u \in Users : token'["invite"][u] > 0 =>
              Sealed(u)' /\ ~users'[u].active /\ ~Enrolled(users'[u])
      BY <1>c, <2>2, <2>3 DEF Invited
    <2>7. \A t \in Enrolments : enrol'[t].pc \in {"password", "unlock"} =>
              token'["invite"][enrol'[t].user] > 0
      BY <1>a, <1>c DEF Invited
    <2> QED
      BY <2>4, <2>5, <2>6, <2>7 DEF Invited
  \* one request ends, or none moves
  <1>d. ASSUME NEW q \in {"session", "totp_setup"}, NEW v \in Users,
               \A x \in Purposes \ {q} : token'[x] = token[x],
               \A u \in Users : u # v => token'[q][u] = token[q][u],
               q = "totp_setup" => ~Untouched(v),
               \A u \in Users : SameAccount(users[u], users'[u]),
               enrol' = enrol \/ enrol' = [enrol EXCEPT ![s] = E!Idle]
        PROVE  Invited'
    <2>1. \A u \in Users : token'["invite"][u] = token["invite"][u]
      BY <1>a, <1>d
    <2>2. \A t \in Enrolments : enrol'[t] = enrol[t] \/ enrol'[t].pc = "idle"
      BY <1>a, <1>d DEF E!Idle
    <2>3. \A u \in Users : Sealed(u) => Sealed(u)'
      BY <1>a, <2>2 DEF Sealed
    <2>4. \A u \in Users : Untouched(u) => Untouched(u)'
      BY <1>a, <1>d, <2>1, <2>2, <2>3 DEF Untouched, SameAccount, OnRoster, Enrolled
    <2>5. \A u \in Users : ~users'[u].exists =>
              Untouched(u)' /\ \A p \in Procs : ~Disabling(p, u)'
      BY <1>a, <1>d, <2>4 DEF Invited, Disabling, SameAccount, OnRoster
    <2>6. \A u \in Users, p \in Procs : Disabling(p, u)' =>
              /\ Untouched(u)' /\ users'[u].password = NoPassword
              /\ \A r \in Procs : Disabling(r, u)' => r = p
      BY <1>a, <1>d, <2>4 DEF Invited, Disabling, SameAccount, OnRoster
    <2>7. \A u \in Users : token'["invite"][u] > 0 =>
              Sealed(u)' /\ ~users'[u].active /\ ~Enrolled(users'[u])
      BY <1>d, <2>1, <2>3 DEF Invited, SameAccount, OnRoster, Enrolled
    <2>8. \A t \in Enrolments : enrol'[t].pc \in {"password", "unlock"} =>
              token'["invite"][enrol'[t].user] > 0
      BY <1>b, <2>1, <2>2 DEF Invited
    <2> QED
      BY <2>5, <2>6, <2>7, <2>8 DEF Invited
  <1>1. ASSUME NEW u \in Users, E!VerifyTOTP(s, u)
        PROVE  Invited'
    <2>1. /\ IssueToken("session", u, JWTExpiry) /\ enrol' = enrol
          /\ \A v \in Users : SameAccount(users[v], users'[v])
      BY <1>1 DEF E!VerifyTOTP, E!enrolVars, SameAccount, OnRoster
    <2> QED
      BY <1>a, <1>d, <2>1, IssueFrame
  <1>2. ASSUME NEW u \in Users, NEW secret \in Secrets, E!ConfirmFind(s, u, secret)
        PROVE  Invited'
    <2> DEFINE slot == [pc |-> "store", user |-> u, secret |-> secret]
    <2>1. /\ users[u].active /\ token["totp_setup"][u] > 0
          /\ enrol' = [enrol EXCEPT ![s] = slot] /\ UNCHANGED <<users, token>>
      BY <1>2, <1>a DEF E!ConfirmFind, Bears, E!accountVars
    <2>2. token["invite"][u] = 0 /\ ~Untouched(u)
      BY <1>a, <2>1 DEF Invited, Untouched
    <2>3. /\ slot.user = u /\ slot.pc \in {"store", "reload"}
          /\ slot.pc \notin {"password", "unlock"}
      OBVIOUS
    <2>5. ~(token["invite"][u] > 0)
      BY <2>2
    <2> HIDE DEF slot
    <2> QED
      BY <1>c, <2>1, <2>2, <2>3, <2>5
  <1>3. CASE E!ConfirmStore(s)
    <2> DEFINE v == enrol[s].user
               slot == [pc |-> "reload", user |-> v]
    <2>1. /\ v \in Users /\ enrol[s].pc = "store" /\ enrol' = [enrol EXCEPT ![s] = slot]
          /\ users' = SetTOTP(users, v, enrol[s].secret) /\ UNCHANGED token
      BY <1>3, <1>a, <1>b DEF E!ConfirmStore
    <2>2. token["invite"][v] = 0 /\ ~Untouched(v)
      BY <1>a, <2>1 DEF Invited, Sealed, Untouched
    <2>3. /\ \A u \in Users : u # v => users'[u] = users[u]
          /\ users'[v].exists = users[v].exists /\ users'[v].active = users[v].active
      BY <1>a, <2>1 DEF SetTOTP, Table, Row
    <2>4. /\ slot.user = v /\ slot.pc \in {"store", "reload"}
          /\ slot.pc \notin {"password", "unlock"}
      OBVIOUS
    <2>5. ~(token["invite"][v] > 0)
      BY <2>2
    <2> HIDE DEF slot, v
    <2> QED
      BY <1>c, <2>1, <2>2, <2>3, <2>4, <2>5
  <1>4. CASE E!ConfirmReload(s)
    <2>1. /\ enrol[s].user \in Users /\ IssueToken("session", enrol[s].user, JWTExpiry)
          /\ enrol' = [enrol EXCEPT ![s] = E!Idle]
          /\ \A v \in Users : SameAccount(users[v], users'[v])
      BY <1>4, <1>b DEF E!ConfirmReload, SameAccount, OnRoster
    <2> QED
      BY <1>a, <1>d, <2>1, IssueFrame
  <1>5. ASSUME NEW u \in Users, NEW password \in Passwords, E!AcceptFind(s, u, password)
        PROVE  Invited'
    <2> DEFINE slot == [pc |-> "password", user |-> u, password |-> password]
    <2>1. /\ token["invite"][u] > 0
          /\ enrol' = [enrol EXCEPT ![s] = slot] /\ UNCHANGED <<users, token>>
      BY <1>5, <1>a DEF E!AcceptFind, Bears, E!accountVars
    <2>2. ~Untouched(u) /\ ~Enrolled(users'[u])
      BY <2>1 DEF Invited, Untouched
    <2>3. slot.user = u /\ slot.pc = "password"
      OBVIOUS
    <2> HIDE DEF slot
    <2> QED
      BY <1>c, <2>1, <2>2, <2>3
  <1>6. CASE E!AcceptPassword(s)
    <2> DEFINE v == enrol[s].user
               slot == [pc |-> "unlock", user |-> v]
    <2>1. /\ v \in Users /\ enrol[s].pc = "password" /\ enrol' = [enrol EXCEPT ![s] = slot]
          /\ users' = UpdatePassword(users, v, enrol[s].password) /\ UNCHANGED token
      BY <1>6, <1>a, <1>b DEF E!AcceptPassword
    <2>2. token["invite"][v] > 0 /\ ~Untouched(v) /\ ~Enrolled(users[v])
      BY <1>a, <2>1 DEF Invited, Untouched
    <2>3. /\ \A u \in Users : u # v => users'[u] = users[u]
          /\ users'[v].exists = users[v].exists /\ users'[v].active = users[v].active
          /\ users'[v].secret = users[v].secret
      BY <1>a, <2>1 DEF UpdatePassword, Table, Row
    <2>4. slot.user = v /\ slot.pc = "unlock"
      OBVIOUS
    <2> HIDE DEF slot, v
    <2> QED
      BY <1>c, <2>1, <2>2, <2>3, <2>4 DEF Enrolled
  <1>7. CASE E!AcceptUnlock(s)
    <2>1. /\ enrol[s].user \in Users /\ enrol[s].pc = "unlock"
          /\ IssueToken("totp_setup", enrol[s].user, TOTPSetupExpiry)
          /\ enrol' = [enrol EXCEPT ![s] = E!Idle]
          /\ users' = ClearLock(users, enrol[s].user)
      BY <1>7, <1>a, <1>b DEF E!AcceptUnlock
    <2>2. ~Untouched(enrol[s].user)
      BY <1>a, <2>1 DEF Untouched
    <2>3. \A v \in Users : SameAccount(users[v], users'[v])
      BY <1>a, <2>1, LockoutFrame
    <2> QED
      BY <1>a, <1>d, <2>1, <2>2, <2>3, IssueFrame
  <1>8. CASE E!Abort(s)
    <2>1. /\ enrol' = [enrol EXCEPT ![s] = E!Idle] /\ UNCHANGED <<users, token>>
          /\ enrol[s].pc # "idle"
          /\ \A v \in Users : SameAccount(users[v], users'[v])
      BY <1>8, <1>a DEF E!Abort, E!accountVars, SameAccount, OnRoster, E!Slot, E!Idle
    <2> QED
      BY <1>b, <1>d, <2>1
  <1> QED
    BY <1>1, <1>2, <1>3, <1>4, <1>5, <1>6, <1>7, <1>8 DEF E!EnrolmentStep

\* Replicas are configured once and for all.
LEMMA ConfiguredFixed ==
    ASSUME TypeOK, [Next]_vars
    PROVE  Configured' = Configured
  BY LoginFrame, ServiceFrame, EnvironmentType, AccountsAssumption, TypeParts
     DEF Next, vars, accountVars, Configured, E!EnrolmentStep, E!VerifyTOTP,
         E!ConfirmFind, E!ConfirmStore, E!ConfirmReload, E!AcceptFind,
         E!AcceptPassword, E!AcceptUnlock, E!Abort, E!accountVars

\* Without replicas Invited is an invariant of the services together.
LEMMA InvitedHolds == Spec => [](Configured = {} => Invited)
  <1> DEFINE Inv == Configured = {} => Invited
  <1>1. Init => Inv
    <2> SUFFICES ASSUME Init PROVE Invited
      OBVIOUS
    <2>1. /\ \A u \in Users : ~Enrolled(users[u])
          /\ \A u \in Users : token["totp_setup"][u] = 0 /\ token["invite"][u] = 0
      BY FirstRows DEF Init, AccountsInit, Purposes
    <2>2. /\ \A s \in Enrolments : enrol[s].pc = "idle"
          /\ \A s \in Logins : login[s].pc = "idle"
          /\ \A p \in Procs : proc[p].pc = "down"
      BY DEF Init, E!EnrolmentInit, E!Idle, L!LoginInit, L!Idle, S!ServiceInit, S!Down
    <2> QED
      BY <2>1, <2>2 DEF Invited, Untouched, Sealed, Disabling
  <1>2. TypeOK /\ Inv /\ [Next]_vars => Inv'
    <2> SUFFICES ASSUME TypeOK, Inv, [Next]_vars, Configured' = {} PROVE Invited'
      OBVIOUS
    <2>0. Configured = {}
      BY ConfiguredFixed
    <2>1. ASSUME NEW s \in Logins, L!LoginStep(s), UNCHANGED <<enrolVars, serviceVars>>
          PROVE  Invited'
      BY <2>0, <2>1, LoginInvited
    <2>2. ASSUME NEW s \in Enrolments, E!EnrolmentStep(s), UNCHANGED <<loginVars, serviceVars>>
          PROVE  Invited'
      BY <2>0, <2>2, EnrolInvited
    <2>3. ASSUME NEW p \in Procs, S!ServiceStep(p), UNCHANGED <<loginVars, enrolVars>>
          PROVE  Invited'
      BY <2>0, <2>3, ServiceInvited
    <2>4. CASE Environment /\ UNCHANGED <<loginVars, enrolVars, serviceVars>>
      <3>1. users' = users /\ token' = token
        BY <2>4, EnvironmentType, AccountsAssumption, TypeParts
      <3> QED
        BY <2>0, <2>4, <3>1
           DEF loginVars, enrolVars, serviceVars, Invited, Untouched, Sealed, Disabling
    <2>5. CASE UNCHANGED vars
      BY <2>0, <2>5 DEF vars, accountVars, loginVars, enrolVars, serviceVars,
         Invited, Untouched, Sealed, Disabling
    <2> QED
      BY <2>1, <2>2, <2>3, <2>4, <2>5 DEF Next
  <1> QED
    BY <1>1, <1>2, AuthTypeCorrect, PTL DEF Spec

\* Without replicas nobody who has an authenticator is handed a setup token,
\* with which ConfirmTOTP would replace it, but by a login that had seen none
\* (auth_service.go:114-132, 322-358).
THEOREM SetupTokensStopSafe == Spec => SetupTokensStop
  <1> DEFINE Inv == Configured = {} => Invited
             Rule == Configured = {} =>
                 \A u \in Users :
                    Issued("totp_setup", u) /\ Enrolled(users[u]) =>
                       \E s \in Logins : /\ login[s].pc = "clear" /\ login[s].user = u
                                        /\ ~login[s].enrolled
                                        /\ login'[s] # login[s]
  <1>1. TypeOK /\ Inv /\ [Next]_vars => [Rule]_vars
    <2> SUFFICES ASSUME TypeOK, Invited, Next, Configured = {}, NEW u \in Users,
                        Issued("totp_setup", u), Enrolled(users[u])
                 PROVE  \E s \in Logins : /\ login[s].pc = "clear" /\ login[s].user = u
                                         /\ ~login[s].enrolled
                                         /\ login'[s] # login[s]
      OBVIOUS
    <2>a. /\ AccountsTypeOK /\ "session" \in Purposes /\ "totp_setup" \in Purposes
          /\ JWTExpiry \in Nat /\ TOTPSetupExpiry \in Nat
          /\ enrol \in [Enrolments -> E!Slot]
      BY TypeParts, AuthSystemAssumption
         DEF Purposes, AuthSystemAssumption, L!LoginAssumption, E!EnrolmentTypeOK
    <2>b. token'["totp_setup"][u] # token["totp_setup"][u]
      BY <2>a DEF Issued, AccountsTypeOK
    <2>1. ASSUME NEW s \in Enrolments, E!EnrolmentStep(s)
          PROVE  FALSE
      <3>1. ASSUME NEW v \in Users, E!VerifyTOTP(s, v)
            PROVE  FALSE
        BY <2>a, <2>b, <3>1, IssueFrame, EnrolStatements DEF E!VerifyTOTP
      <3>2. CASE E!ConfirmReload(s)
        <4>1. enrol[s].user \in Users /\ IssueToken("session", enrol[s].user, JWTExpiry)
          BY <2>a, <3>2, EnrolFields, EnrolStatements DEF E!ConfirmReload
        <4> QED
          BY <2>a, <2>b, <4>1, IssueFrame
      <3>3. CASE E!AcceptUnlock(s)
        <4>1. /\ enrol[s].user \in Users /\ token["invite"][enrol[s].user] > 0
              /\ IssueToken("totp_setup", enrol[s].user, TOTPSetupExpiry)
          BY <2>a, <3>3, EnrolFields, EnrolStatements DEF E!AcceptUnlock, Invited
        <4>2. enrol[s].user = u
          BY <2>a, <2>b, <4>1, IssueFrame
        <4> QED
          BY <4>1, <4>2 DEF Invited
      <3> QED
        BY <2>1, <2>b, <3>1, <3>2, <3>3
           DEF E!EnrolmentStep, E!ConfirmFind, E!ConfirmStore, E!AcceptFind,
               E!AcceptPassword, E!Abort, E!accountVars
    <2>2. PICK s \in Logins : L!LoginStep(s)
      BY <2>a, <2>b, <2>1, ServiceFrame, EnvironmentType, AccountsAssumption DEF Next, Purposes
    <2> QED
      BY <2>2, <2>b, LoginFrame
  <1> QED
    BY <1>1, InvitedHolds, AuthTypeCorrect, PTL DEF Spec, SetupTokensStop

-----------------------------------------------------------------------------
(* The roster of super admins, with sign-ins and enrolments under way. *)

\* UserService and the services together count the same active super admins.
LEMMA RosterOfProofs ==
    /\ \A table : SP!ActiveSuperAdmins(table) = ActiveSuperAdmins(table)
    /\ SP!Configured = Configured /\ SP!Configured' = Configured'
  BY DEF SP!ActiveSuperAdmins, ActiveSuperAdmins, SP!SuperAdmin, SuperAdmin,
         SP!Configured, Configured

\* An enrolment writes passwords, secrets and the lockout, and nothing that
\* decides who is on the roster.
LEMMA EnrolFrame ==
    ASSUME AccountsTypeOK, E!EnrolmentTypeOK, NEW s \in Enrolments, E!EnrolmentStep(s)
    PROVE  UNCHANGED replica /\ \A u \in Users : OnRoster(users[u], users'[u])
  <1> USE EnrolStatements
  <1>a. /\ users \in Table
        /\ \A u \in Users : OnRoster(users[u], users[u])
        /\ enrol[s].pc # "idle" => enrol[s].user \in Users
    BY EnrolFields DEF AccountsTypeOK, OnRoster, E!EnrolmentTypeOK
  <1>1. CASE E!ConfirmStore(s)
    BY <1>1, <1>a DEF E!ConfirmStore, SetTOTP, OnRoster, Table, Row
  <1>2. CASE E!AcceptPassword(s)
    BY <1>2, <1>a DEF E!AcceptPassword, UpdatePassword, OnRoster, Table, Row
  <1>3. CASE E!AcceptUnlock(s)
    BY <1>3, <1>a, LockoutFrame DEF E!AcceptUnlock, SameAccount
  <1> QED
    BY <1>1, <1>2, <1>3, <1>a
       DEF E!EnrolmentStep, E!VerifyTOTP, E!ConfirmFind, E!ConfirmReload, E!AcceptFind,
           E!Abort, E!accountVars, E!enrolVars

\* No enrolment signs an invite token.
LEMMA EnrolTokens ==
    ASSUME TypeOK, NEW s \in Enrolments, E!EnrolmentStep(s)
    PROVE  token'["invite"] = token["invite"]
  <1> USE EnrolStatements
  <1>a. /\ AccountsTypeOK /\ JWTExpiry \in Nat /\ TOTPSetupExpiry \in Nat
        /\ {"session", "totp_setup"} \subseteq Purposes
        /\ "invite" \in Purposes \ {"session", "totp_setup"}
        /\ enrol[s].pc # "idle" => enrol[s].user \in Users
    BY TypeParts, AuthSystemAssumption, EnrolFields
       DEF AuthSystemAssumption, L!LoginAssumption, Purposes, E!EnrolmentTypeOK
  <1>1. \A q \in {"session", "totp_setup"}, u \in Users, ttl \in Nat :
            IssueToken(q, u, ttl) => token'["invite"] = token["invite"]
    BY <1>a, IssueFrame
  <1> QED
    BY <1>a, <1>1
       DEF E!EnrolmentStep, E!VerifyTOTP, E!ConfirmFind, E!ConfirmStore, E!ConfirmReload,
           E!AcceptFind, E!AcceptPassword, E!AcceptUnlock, E!Abort, E!accountVars

\* Rows that stay on the roster, or off it, leave the roster as it is, and what
\* the requests of user management have read of it true.
LEMMA ReadingsFrame ==
    ASSUME SP!TypeOK, SP!FreshReadings, UNCHANGED <<replica, serviceVars>>,
           \A u \in Users : OnRoster(users[u], users'[u])
    PROVE  SP!FreshReadings' /\ ActiveSuperAdmins(users') = ActiveSuperAdmins(users)
  <1>1. ActiveSuperAdmins(users') = ActiveSuperAdmins(users)
    BY DEF ActiveSuperAdmins, OnRoster
  <1>2. ASSUME NEW p \in Procs, SP!Reading(p), SP!Spares(users, proc[p])
        PROVE  SP!Spares(users', proc[p])
    <2>1. proc[p].user \in Users
      BY <1>2 DEF SP!TypeOK, SP!State, SP!Reading
    <2>2. OnRoster(users[proc[p].user], users'[proc[p].user])
      BY <2>1
    <2>3. SP!ActiveSuperAdmins(users') = SP!ActiveSuperAdmins(users)
      BY <1>1, RosterOfProofs
    <2> QED
      BY <1>2, <2>2, <2>3 DEF SP!Spares, OnRoster
  <1> QED
    BY <1>1, <1>2 DEF SP!FreshReadings, SP!Reading, SP!Configured, serviceVars

\* What a request of user management has read stays true of the table until
\* another of them writes, whatever the other services do meanwhile.
LEMMA ReadingsStep ==
    ASSUME TypeOK, TypeOK', SP!FreshReadings, [Next]_vars
    PROVE  /\ SP!FreshReadings'
           /\ Configured' = Configured
           /\ raced => raced'
           /\ \/ ActiveSuperAdmins(users') = ActiveSuperAdmins(users)
              \/ \E u \in Users :
                    \/ ActiveSuperAdmins(users') = ActiveSuperAdmins(users) \cup {u}
                    \/ /\ ActiveSuperAdmins(users') = ActiveSuperAdmins(users) \ {u}
                       /\ ActiveSuperAdmins(users) = {u} => raced' \/ Configured # {}
  <1>a. SP!TypeOK /\ SP!TypeOK' /\ AccountsTypeOK /\ E!EnrolmentTypeOK
    BY ServiceOfProofs, TypeParts DEF TypeOK
  \* a step of another service
  <1>b. ASSUME UNCHANGED <<replica, serviceVars>>,
               \A u \in Users : OnRoster(users[u], users'[u])
        PROVE  /\ SP!FreshReadings' /\ Configured' = Configured /\ raced' = raced
               /\ ActiveSuperAdmins(users') = ActiveSuperAdmins(users)
    BY <1>a, <1>b, ReadingsFrame DEF Configured, serviceVars
  <1>1. ASSUME NEW s \in Logins, L!LoginStep(s), UNCHANGED <<enrolVars, serviceVars>>
        PROVE  UNCHANGED <<replica, serviceVars>> /\ \A u \in Users : OnRoster(users[u], users'[u])
    BY <1>1, LoginFrame DEF SameAccount
  <1>2. ASSUME NEW s \in Enrolments, E!EnrolmentStep(s), UNCHANGED <<loginVars, serviceVars>>
        PROVE  UNCHANGED <<replica, serviceVars>> /\ \A u \in Users : OnRoster(users[u], users'[u])
    BY <1>2, <1>a, EnrolFrame
  <1>3. ASSUME NEW p \in Procs, S!ServiceStep(p), UNCHANGED <<loginVars, enrolVars>>
        PROVE  /\ SP!FreshReadings' /\ Configured' = Configured /\ (raced => raced')
               /\ \/ ActiveSuperAdmins(users') = ActiveSuperAdmins(users)
                  \/ \E u \in Users :
                        \/ ActiveSuperAdmins(users') = ActiveSuperAdmins(users) \cup {u}
                        \/ /\ ActiveSuperAdmins(users') = ActiveSuperAdmins(users) \ {u}
                           /\ ActiveSuperAdmins(users) = {u} => raced' \/ Configured # {}
    <2>1. SP!ServiceStep(p)
      BY <1>3, ServiceOfProofs
    <2>2. SP!AccountsAssumption /\ SP!UserServiceAssumption
      BY AccountsAssumption, AuthSystemAssumption
         DEF AccountsAssumption, AuthSystemAssumption, S!UserServiceAssumption,
             SP!AccountsAssumption, SP!UserServiceAssumption, UserRoles, SP!UserRoles
    <2>3. SP!FreshReadings'
      <3>1. SP!Configured' = SP!Configured
        BY <2>1, <2>2, SP!ServiceKeepsReplicas
      <3>2. CASE SP!Configured = {}
        BY <1>a, <2>1, <2>2, <3>2, SP!FreshStep
      <3> QED
        BY <3>1, <3>2 DEF SP!FreshReadings
    <2> QED
      BY <1>a, <2>1, <2>2, <2>3, RosterOfProofs, SP!RosterMoves
  <1>4. CASE Environment /\ UNCHANGED <<loginVars, enrolVars, serviceVars>>
    <2>1. users' = users /\ Configured' = Configured
      BY <1>4, <1>a, EnvironmentType, AccountsAssumption
    <2>2. SP!FreshReadings'
      BY <1>4, <2>1, RosterOfProofs DEF SP!FreshReadings, SP!Reading, serviceVars
    <2> QED
      BY <1>4, <2>1, <2>2 DEF serviceVars
  <1>5. CASE UNCHANGED vars
    <2>1. UNCHANGED <<replica, serviceVars>> /\ \A u \in Users : OnRoster(users[u], users'[u])
      BY <1>5 DEF vars, accountVars, OnRoster
    <2> QED
      BY <1>b, <2>1
  <1> QED
    <2>1. ASSUME UNCHANGED <<replica, serviceVars>>,
                 \A u \in Users : OnRoster(users[u], users'[u])
          PROVE  /\ SP!FreshReadings' /\ Configured' = Configured /\ (raced => raced')
                 /\ ActiveSuperAdmins(users') = ActiveSuperAdmins(users)
      BY <1>b, <2>1
    <2> QED
      BY <1>1, <1>2, <1>3, <1>4, <1>5, <2>1 DEF Next

\* The roster of active super admins behaves as the abstract Roster says with
\* sign-ins, enrolments and acceptances writing the same rows at the same time
\* (user_service.go:50-150, auth_service.go:90-132, 192-208, 322-358).
THEOREM SystemKeepsRoster == Spec => KeepsRoster
  <1> DEFINE admins == ActiveSuperAdmins(users)
             excused == raced \/ Configured # {}
  <1>1. Init => SP!FreshReadings /\ AbstractRoster!Init
    BY DEF Init, S!ServiceInit, S!Down, SP!FreshReadings, SP!Reading,
           AbstractRoster!Init, ActiveSuperAdmins
  <1>2. TypeOK /\ TypeOK' /\ SP!FreshReadings /\ [Next]_vars => SP!FreshReadings'
    BY ReadingsStep
  <1>3. TypeOK /\ TypeOK' /\ SP!FreshReadings /\ [Next]_vars
            => [AbstractRoster!Next]_<<admins, excused>>
    <2> SUFFICES ASSUME TypeOK, TypeOK', SP!FreshReadings, [Next]_vars,
                        <<admins, excused>>' # <<admins, excused>>
                 PROVE  AbstractRoster!Next
      OBVIOUS
    <2>1. (excused => excused') /\ excused' \in BOOLEAN
      BY ReadingsStep
    <2>2. CASE admins' = admins
      <3>1. excused' = TRUE
        BY <2>1, <2>2
      <3> QED
        BY <2>1, <2>2, <3>1 DEF AbstractRoster!Next, AbstractRoster!Excuse
    <2>3. CASE admins' # admins
      <3>1. PICK u \in Users : \/ admins' = admins \cup {u}
                               \/ /\ admins' = admins \ {u}
                                  /\ admins = {u} => excused'
        BY <2>3, ReadingsStep
      <3> QED
        BY <2>1, <3>1 DEF AbstractRoster!Next, AbstractRoster!Join, AbstractRoster!Leave
    <2> QED
      BY <2>2, <2>3
  <1> QED
    BY <1>1, <1>2, <1>3, AuthTypeCorrect, PTL DEF Spec, KeepsRoster, AbstractRoster!Spec

-----------------------------------------------------------------------------
(* Invitations. *)

\* Next to the other services too, whoever holds an invite token has a row that
\* was disabled before it was signed, and stays disabled.
LEMMA InviteesStepTogether ==
    ASSUME TypeOK, SP!InviteesDisabled, [Next]_vars
    PROVE  SP!InviteesDisabled'
  <1>a. /\ SP!TypeOK /\ AccountsTypeOK /\ E!EnrolmentTypeOK /\ "invite" \in Purposes
        /\ \A p \in Procs : proc[p].pc = "disable" => proc[p].user \in Users
    BY ServiceOfProofs, TypeParts DEF TypeOK, ServiceTyped, S!State, Purposes
  \* a step of another service
  <1>b. ASSUME UNCHANGED proc, token'["invite"] = token["invite"],
               \A u \in Users : OnRoster(users[u], users'[u])
        PROVE  SP!InviteesDisabled'
    BY <1>a, <1>b DEF SP!InviteesDisabled, SP!TokenAfterDisable, OnRoster
  <1>1. ASSUME NEW s \in Logins, L!LoginStep(s), UNCHANGED <<enrolVars, serviceVars>>
        PROVE  SP!InviteesDisabled'
    <2>1. token'["invite"] = token["invite"] /\ \A u \in Users : OnRoster(users[u], users'[u])
      BY <1>1, <1>a, LoginFrame DEF SameAccount
    <2> QED
      BY <1>1, <1>b, <2>1 DEF serviceVars
  <1>2. ASSUME NEW s \in Enrolments, E!EnrolmentStep(s), UNCHANGED <<loginVars, serviceVars>>
        PROVE  SP!InviteesDisabled'
    <2>1. token'["invite"] = token["invite"]
      BY <1>2, EnrolTokens
    <2>2. \A u \in Users : OnRoster(users[u], users'[u])
      BY <1>2, <1>a, EnrolFrame
    <2> QED
      BY <1>2, <1>b, <2>1, <2>2 DEF serviceVars
  <1>3. ASSUME NEW p \in Procs, S!ServiceStep(p)
        PROVE  SP!InviteesDisabled'
    <2>1. SP!ServiceStep(p)
      BY <1>3, ServiceOfProofs
    <2>2. SP!AccountsAssumption /\ SP!UserServiceAssumption
      BY AccountsAssumption, AuthSystemAssumption
         DEF AccountsAssumption, AuthSystemAssumption, S!UserServiceAssumption,
             SP!AccountsAssumption, SP!UserServiceAssumption, UserRoles, SP!UserRoles
    <2> QED
      BY <1>a, <2>1, <2>2, SP!InviteesStep
  <1>4. CASE Environment /\ UNCHANGED <<loginVars, enrolVars, serviceVars>>
    <2>1. users' = users /\ token' = token
      BY <1>4, <1>a, EnvironmentType, AccountsAssumption
    <2> QED
      BY <1>4, <1>b, <2>1 DEF serviceVars, OnRoster
  <1>5. CASE UNCHANGED vars
    <2>1. UNCHANGED proc /\ UNCHANGED <<users, token>>
      BY <1>5 DEF vars, accountVars, serviceVars
    <2> QED
      BY <1>b, <2>1 DEF OnRoster
  <1> QED
    BY <1>1, <1>2, <1>3, <1>4, <1>5 DEF Next

\* An enrolment hands setup tokens to those whose invitation it has accepted.
LEMMA SetupForAccepted ==
    ASSUME TypeOK, NEW s \in Enrolments, E!EnrolmentStep(s)
    PROVE  /\ accepted \subseteq accepted'
           /\ \A u \in Users :
                  token'["totp_setup"][u] # token["totp_setup"][u] => u \in accepted'
  <1> USE EnrolStatements
  <1>a. /\ AccountsTypeOK /\ JWTExpiry \in Nat /\ TOTPSetupExpiry \in Nat
        /\ {"session", "totp_setup"} \subseteq Purposes
        /\ "totp_setup" \in Purposes \ {"session"}
        /\ enrol[s].pc # "idle" => enrol[s].user \in Users
    BY TypeParts, AuthSystemAssumption, EnrolFields
       DEF AuthSystemAssumption, L!LoginAssumption, Purposes, E!EnrolmentTypeOK
  <1>1. \A u \in Users : IssueToken("session", u, JWTExpiry) =>
                            token'["totp_setup"] = token["totp_setup"]
    BY <1>a, IssueFrame
  <1>2. CASE E!AcceptUnlock(s)
    <2>1. /\ accepted' = accepted \cup {enrol[s].user}
          /\ IssueToken("totp_setup", enrol[s].user, TOTPSetupExpiry)
          /\ enrol[s].user \in Users
      BY <1>2, <1>a DEF E!AcceptUnlock
    <2> QED
      BY <2>1, <1>a, IssueFrame
  <1>3. CASE ~E!AcceptUnlock(s)
    <2>1. accepted' = accepted /\ token'["totp_setup"] = token["totp_setup"]
      BY <1>3, <1>a, <1>1
         DEF E!EnrolmentStep, E!VerifyTOTP, E!ConfirmFind, E!ConfirmStore, E!ConfirmReload,
             E!AcceptFind, E!AcceptPassword, E!Abort, E!accountVars, E!enrolVars
    <2> QED
      BY <2>1
  <1> QED
    BY <1>2, <1>3

\* Nobody was handed a setup token on an invitation that is not accepted.
NoSetupYet ==
    \A u \in Users : token["invite"][u] > 0 /\ u \notin accepted =>
                        token["totp_setup"][u] = 0

\* Login hands out none, since nobody it lets in is invited; and user
\* management invites those whom no token was signed for.
LEMMA NoSetupStep ==
    ASSUME TypeOK, Configured = {}, Invited, NoSetupYet, [Next]_vars
    PROVE  NoSetupYet'
  <1>a. /\ AccountsTypeOK /\ "invite" \in Purposes /\ "totp_setup" \in Purposes \ {"invite"}
        /\ "invite" \in Purposes \ {"mfa", "totp_setup"}
    BY TypeParts DEF Purposes
  <1>1. ASSUME NEW s \in Logins, L!LoginStep(s), UNCHANGED <<enrolVars, serviceVars>>
        PROVE  NoSetupYet'
    <2>1. token'["invite"] = token["invite"] /\ accepted' = accepted
      BY <1>1, <1>a, LoginFrame DEF enrolVars
    <2>2. \A u \in Users : token["invite"][u] > 0 =>
              token'["totp_setup"][u] = token["totp_setup"][u]
      BY <1>1, LoginFrame DEF Invited, Sealed
    <2> QED
      BY <2>1, <2>2 DEF NoSetupYet
  <1>2. ASSUME NEW s \in Enrolments, E!EnrolmentStep(s)
        PROVE  NoSetupYet'
    <2>1. token'["invite"] = token["invite"]
      BY <1>2, EnrolTokens
    <2> QED
      BY <1>2, <2>1, SetupForAccepted DEF NoSetupYet
  <1>3. ASSUME NEW p \in Procs, S!ServiceStep(p), UNCHANGED <<loginVars, enrolVars>>
        PROVE  NoSetupYet'
    <2>1. token'["totp_setup"] = token["totp_setup"] /\ accepted' = accepted
      BY <1>3, <1>a, ServiceFrame DEF enrolVars
    <2>2. \A u \in Users : token'["invite"][u] # token["invite"][u] =>
              token["totp_setup"][u] = 0
      BY <1>3, ServiceFrame DEF Invited, Untouched
    <2> QED
      BY <2>1, <2>2 DEF NoSetupYet
  <1>4. CASE Environment /\ UNCHANGED <<loginVars, enrolVars, serviceVars>>
    <2>1. token' = token /\ accepted' = accepted
      BY <1>4, <1>a, EnvironmentType, AccountsAssumption DEF enrolVars
    <2> QED
      BY <2>1 DEF NoSetupYet
  <1>5. CASE UNCHANGED vars
    <2>1. token' = token /\ accepted' = accepted
      BY <1>5 DEF vars, accountVars, enrolVars
    <2> QED
      BY <2>1 DEF NoSetupYet
  <1> QED
    BY <1>1, <1>2, <1>3, <1>4, <1>5 DEF Next

\* Until it has been accepted an invitation opens nothing: its account is
\* inactive, and without replicas it has no authenticator, no setup token and no
\* session, whatever logins race it and wherever an acceptance is cut off
\* (user_service.go:101-115, auth_service.go:90-132, 329-358).
THEOREM InviteOpensNothingSafe == Spec => []InviteOpensNothing
  <1> DEFINE Inv == Configured = {} => Invited
             SetupInv == Configured = {} => NoSetupYet
  <1>1. Init => SP!InviteesDisabled /\ SetupInv
    BY DEF Init, AccountsInit, S!ServiceInit, S!Down, SP!InviteesDisabled,
           SP!TokenAfterDisable, Purposes, NoSetupYet
  <1>2. TypeOK /\ SP!InviteesDisabled /\ [Next]_vars => SP!InviteesDisabled'
    BY InviteesStepTogether
  <1>3. TypeOK /\ Inv /\ SetupInv /\ [Next]_vars => SetupInv'
    <2> SUFFICES ASSUME TypeOK, Inv, SetupInv, [Next]_vars, Configured' = {}
                 PROVE  NoSetupYet'
      OBVIOUS
    <2>1. Configured = {}
      BY ConfiguredFixed
    <2> QED
      BY <2>1, NoSetupStep
  <1>4. TypeOK /\ SP!InviteesDisabled /\ Inv /\ SetupInv /\ MandatoryTwoFactor
            => InviteOpensNothing
    <2> SUFFICES ASSUME TypeOK, SP!InviteesDisabled, Inv, SetupInv, MandatoryTwoFactor,
                        NEW u \in Users, token["invite"][u] > 0, u \notin accepted
                 PROVE  /\ ~users[u].active
                        /\ Configured = {} => /\ ~Enrolled(users[u])
                                              /\ token["totp_setup"][u] = 0
                                              /\ token["session"][u] = 0
      BY DEF InviteOpensNothing
    <2>1. ~users[u].active
      BY DEF SP!InviteesDisabled, SP!TokenAfterDisable
    <2>2. Configured = {} => ~Enrolled(users[u]) /\ token["totp_setup"][u] = 0
      BY DEF Invited, NoSetupYet
    <2>3. ~Enrolled(users[u]) => token["session"][u] = 0
      <3>1. token["session"][u] \in Nat
        BY TypeParts DEF AccountsTypeOK, Purposes
      <3> QED
        BY <3>1 DEF MandatoryTwoFactor
    <2> QED
      BY <2>1, <2>2, <2>3
  <1> QED
    BY <1>1, <1>2, <1>3, <1>4, InvitedHolds, MandatoryTwoFactorSafe, AuthTypeCorrect, PTL
       DEF Spec

-----------------------------------------------------------------------------
(* The lockout, with the services that write the same rows. *)

\* What AuthSystem says of the lockout is what Login's own proofs are about.
LEMMA LockoutOfProofs ==
    /\ L!NoPrematureLock <=> LP!NoPrematureLock
    /\ L!AttemptsBeforeLock <=> LP!AttemptsBeforeLock
    /\ LP!Configured = Configured /\ LP!Configured' = Configured'
  <1>1. /\ L!Configured = LP!Configured
        /\ LP!Configured = Configured /\ LP!Configured' = Configured'
    BY DEF L!Configured, LP!Configured, Configured
  <1>2. L!NoPrematureLock <=> LP!NoPrematureLock
    BY DEF L!NoPrematureLock, LP!NoPrematureLock
  <1>3. ASSUME NEW u
        PROVE  L!Cardinality(L!Pending(u)) = LP!Cardinality(LP!Pending(u))
    <2>1. L!Pending(u) = LP!Pending(u)
      BY DEF L!Pending, LP!Pending, L!AboutToLock, LP!AboutToLock
    <2> QED
      BY <2>1 DEF L!Cardinality, LP!Cardinality
  <1>4. L!AttemptsBeforeLock <=> LP!AttemptsBeforeLock
    BY <1>1, <1>3 DEF L!AttemptsBeforeLock, LP!AttemptsBeforeLock
  <1> QED
    BY <1>1, <1>2, <1>4

\* The failures and the lock of a row are left alone, or both reset.
KeepsOrResets(old, new) ==
    \/ new.failed = old.failed /\ new.locked = old.locked
    \/ new.failed = 0 /\ new.locked = 0

\* Of the statements outside Login, ClearLock and an INSERT reset the lockout
\* of their row, and the others leave it alone.
LEMMA StatementLockout ==
    ASSUME NEW table \in Table, NEW u \in Users, NEW v \in Users
    PROVE  /\ KeepsOrResets(table[v], table[v])
           /\ KeepsOrResets(table[v], ClearLock(table, u)[v])
           /\ \A x : KeepsOrResets(table[v], SetTOTP(table, u, x)[v])
           /\ \A x : KeepsOrResets(table[v], UpdatePassword(table, u, x)[v])
           /\ \A x : KeepsOrResets(table[v], UpdateRole(table, u, x)[v])
           /\ KeepsOrResets(table[v], Deactivate(table, u)[v])
           /\ \A role, p : KeepsOrResets(table[v], CreateRow(table, u, role, p)[v])
  <1>1. /\ KeepsOrResets(table[v], table[v])
        /\ KeepsOrResets(table[v], ClearLock(table, u)[v])
    BY DEF KeepsOrResets, ClearLock, Table, Row
  <1>2. /\ \A x : KeepsOrResets(table[v], SetTOTP(table, u, x)[v])
        /\ \A x : KeepsOrResets(table[v], UpdatePassword(table, u, x)[v])
    BY DEF KeepsOrResets, SetTOTP, UpdatePassword, Table, Row
  <1>3. /\ \A x : KeepsOrResets(table[v], UpdateRole(table, u, x)[v])
        /\ KeepsOrResets(table[v], Deactivate(table, u)[v])
    BY DEF KeepsOrResets, UpdateRole, Deactivate, Table, Row
  <1>4. \A role, p : KeepsOrResets(table[v], CreateRow(table, u, role, p)[v])
    BY DEF KeepsOrResets, CreateRow, NoRow, Table, Row
  <1> QED
    BY <1>1, <1>2, <1>3, <1>4

\* An enrolment resets lockouts and counts no failures.
LEMMA EnrolLockout ==
    ASSUME AccountsTypeOK, E!EnrolmentTypeOK, NEW s \in Enrolments, E!EnrolmentStep(s)
    PROVE  \A u \in Users : KeepsOrResets(users[u], users'[u])
  <1> USE EnrolStatements
  <1>a. /\ users \in Table
        /\ enrol[s].pc # "idle" => enrol[s].user \in Users
    BY EnrolFields DEF AccountsTypeOK, E!EnrolmentTypeOK
  <1>b. users' = users => \A u \in Users : KeepsOrResets(users[u], users'[u])
    BY DEF KeepsOrResets
  <1>1. CASE E!ConfirmStore(s)
    BY <1>1, <1>a, StatementLockout DEF E!ConfirmStore
  <1>2. CASE E!AcceptPassword(s)
    BY <1>2, <1>a, StatementLockout DEF E!AcceptPassword
  <1>3. CASE E!AcceptUnlock(s)
    BY <1>3, <1>a, StatementLockout DEF E!AcceptUnlock
  <1> QED
    BY <1>1, <1>2, <1>3, <1>b
       DEF E!EnrolmentStep, E!VerifyTOTP, E!ConfirmFind, E!ConfirmReload, E!AcceptFind,
           E!Abort, E!accountVars, E!enrolVars

\* User management inserts rows with no failures and no lock, and changes
\* neither in a row that is there.
LEMMA ServiceLockout ==
    ASSUME AccountsTypeOK, ServiceTyped, NEW p \in Procs, S!ServiceStep(p)
    PROVE  \A u \in Users : KeepsOrResets(users[u], users'[u])
  <1> USE ServiceStatements
  <1>a. /\ users \in Table
        /\ proc[p].pc = "create" => BootstrapUser \in Users
        /\ proc[p].pc \in {"write", "insert", "disable"} => proc[p].user \in Users
    BY DEF AccountsTypeOK, ServiceTyped, S!State
  <1>b. users' = users => \A u \in Users : KeepsOrResets(users[u], users'[u])
    BY DEF KeepsOrResets
  <1>1. CASE S!BootCreate(p)
    BY <1>1, <1>a, <1>b, StatementLockout DEF S!BootCreate
  <1>2. CASE S!Write(p)
    BY <1>2, <1>a, <1>b, StatementLockout DEF S!Write, S!Changed, Exec
  <1>3. CASE S!Insert(p)
    BY <1>3, <1>a, <1>b, StatementLockout DEF S!Insert
  <1>4. CASE S!Disable(p)
    BY <1>4, <1>a, StatementLockout DEF S!Disable
  <1> QED
    BY <1>1, <1>2, <1>3, <1>4, <1>b
       DEF S!ServiceStep, S!Boot, S!BootCount, S!Restart, S!FindTarget, S!CountAdmins,
           S!FindInvitee, S!Fail, S!Crash, S!accountVars

\* The counters of the table and of the replicas, and the requests that are
\* about to lock, stay in step whatever service writes.
LEMMA LockoutStep ==
    ASSUME TypeOK, TypeOK', LP!CountersHonest, LP!AttemptsBeforeLock, [Next]_vars
    PROVE  LP!CountersHonest' /\ LP!AttemptsBeforeLock'
  <1>a. LP!TypeOK /\ LP!TypeOK' /\ AccountsTypeOK /\ E!EnrolmentTypeOK /\ ServiceTyped
    BY LoginOfProofs, TypeParts DEF TypeOK
  <1>b. LP!AccountsAssumption /\ LP!LoginAssumption
    BY AccountsAssumption, AuthSystemAssumption
       DEF AccountsAssumption, AuthSystemAssumption, L!LoginAssumption,
           LP!AccountsAssumption, LP!LoginAssumption, UserRoles, LP!UserRoles,
           IsFiniteSet, L!IsFiniteSet, LP!IsFiniteSet
  \* a step of another service
  <1>c. ASSUME UNCHANGED loginVars, Configured' = Configured,
               \A r \in Configured : replica'[r] = replica[r] \/ replica'[r] = users,
               \A u \in Users : KeepsOrResets(users[u], users'[u])
        PROVE  LP!CountersHonest' /\ LP!AttemptsBeforeLock'
    BY <1>a, <1>b, <1>c, LockoutOfProofs, LP!CountersFrame DEF loginVars, KeepsOrResets
  <1>1. ASSUME NEW s \in Logins, L!LoginStep(s)
        PROVE  LP!CountersHonest' /\ LP!AttemptsBeforeLock'
    <2>1. LP!LoginStep(s)
      BY <1>1, LoginOfProofs
    <2>2. LP!CountersHonest'
      BY <1>a, <1>b, <2>1, LP!CountersStep
    <2>3. LP!Configured' = LP!Configured
      BY <1>a, <1>b, <2>1, LP!MissesGrow
    <2>4. CASE LP!Configured = {}
      BY <1>a, <1>b, <2>1, <2>2, <2>4, LP!AttemptsStep
    <2> QED
      BY <2>2, <2>3, <2>4 DEF LP!AttemptsBeforeLock
  <1>2. ASSUME NEW s \in Enrolments, E!EnrolmentStep(s), UNCHANGED <<loginVars, serviceVars>>
        PROVE  LP!CountersHonest' /\ LP!AttemptsBeforeLock'
    <2>1. UNCHANGED replica /\ Configured' = Configured
      BY <1>2, <1>a, EnrolFrame DEF Configured
    <2> QED
      BY <1>2, <1>a, <1>c, <2>1, EnrolLockout
  <1>3. ASSUME NEW p \in Procs, S!ServiceStep(p), UNCHANGED <<loginVars, enrolVars>>
        PROVE  LP!CountersHonest' /\ LP!AttemptsBeforeLock'
    <2>1. UNCHANGED replica /\ Configured' = Configured
      BY <1>3, ServiceFrame DEF Configured
    <2> QED
      BY <1>3, <1>a, <1>c, <2>1, ServiceLockout
  <1>4. CASE Environment /\ UNCHANGED <<loginVars, enrolVars, serviceVars>>
    <2>1. users' = users /\ Configured' = Configured
      BY <1>4, <1>a, EnvironmentType, AccountsAssumption
    <2>2. \A r \in Configured : replica'[r] = replica[r] \/ replica'[r] = users
      BY <1>4 DEF Environment, Tick, CatchUp, Configured
    <2>3. \A u \in Users : KeepsOrResets(users[u], users'[u])
      BY <2>1 DEF KeepsOrResets
    <2> QED
      BY <1>4, <1>c, <2>1, <2>2, <2>3
  <1>5. CASE UNCHANGED vars
    <2>1. UNCHANGED loginVars /\ UNCHANGED <<users, replica>> /\ Configured' = Configured
      BY <1>5 DEF vars, accountVars, Configured
    <2>2. \A u \in Users : KeepsOrResets(users[u], users'[u])
      BY <2>1 DEF KeepsOrResets
    <2> QED
      BY <1>c, <2>1, <2>2
  <1> QED
    BY <1>1, <1>2, <1>3, <1>4, <1>5 DEF Next

\* Nobody is locked before MAX_FAILED_ATTEMPTS wrong passwords, and without
\* replicas nobody gathers that many and stays unlocked, with enrolments,
\* acceptances and user management writing the same rows (auth_service.go:
\* 100-107, 347-350, user_service.go:50-150), for any limit and any number of
\* requests.
THEOREM SystemLockoutHolds == Spec => []LockoutHolds
  <1>1. Init => LP!CountersHonest /\ LP!AttemptsBeforeLock
    <2> SUFFICES ASSUME Init PROVE LP!CountersHonest /\ LP!AttemptsBeforeLock
      OBVIOUS
    <2>1. ASSUME NEW row \in S!RosterRow
          PROVE  row.failed = 0 /\ row.locked = 0
      <3>1. CASE row = S!NoRow
        BY <3>1 DEF S!NoRow
      <3>2. CASE row # S!NoRow
        <4>1. PICK d \in [role : Roles, active : BOOLEAN, password : Passwords] :
                row = [S!NoRow EXCEPT !.exists = TRUE, !.role = d.role,
                                      !.active = d.active, !.password = d.password]
          BY <2>1, <3>2 DEF S!RosterRow
        <4> QED
          BY <4>1 DEF S!NoRow
      <3> QED
        BY <3>1, <3>2
    <2>2. /\ \A u \in Users : users[u].failed = 0 /\ users[u].locked = 0
          /\ \A u \in Users : misses[u] = 0 /\ abandoned[u] = 0
          /\ \A r \in Configured : replica[r] = users
          /\ \A s \in Logins : login[s].pc = "idle"
      BY <2>1 DEF Init, AccountsInit, L!LoginInit, L!Idle, Configured
    <2>3. LP!CountersHonest
      BY <2>2, LockoutOfProofs DEF LP!CountersHonest, LP!NoPrematureLock
    <2>4. LP!AttemptsBeforeLock
      <3> SUFFICES ASSUME NEW u \in Users
                   PROVE  users[u].failed <= MaxFailedAttempts - 1
                              + LP!Cardinality(LP!Pending(u)) + abandoned[u]
        BY DEF LP!AttemptsBeforeLock
      <3>1. LP!Cardinality(LP!Pending(u)) \in Nat
        BY LP!PendingFinite, AccountsAssumption, AuthSystemAssumption
           DEF AccountsAssumption, AuthSystemAssumption, L!LoginAssumption,
               LP!AccountsAssumption, LP!LoginAssumption, UserRoles, LP!UserRoles,
               IsFiniteSet, L!IsFiniteSet, LP!IsFiniteSet
      <3>2. MaxFailedAttempts \in Nat \ {0} /\ users[u].failed = 0 /\ abandoned[u] = 0
        BY <2>2, AuthSystemAssumption DEF AuthSystemAssumption, L!LoginAssumption
      <3> DEFINE n == LP!Cardinality(LP!Pending(u))
      <3> HIDE DEF n
      <3> QED
        BY <3>1, <3>2 DEF n
    <2> QED
      BY <2>3, <2>4
  <1>2. TypeOK /\ TypeOK' /\ LP!CountersHonest /\ LP!AttemptsBeforeLock /\ [Next]_vars
            => LP!CountersHonest' /\ LP!AttemptsBeforeLock'
    BY LockoutStep
  <1>3. LP!CountersHonest /\ LP!AttemptsBeforeLock => LockoutHolds
    BY LockoutOfProofs DEF LP!CountersHonest, LockoutHolds
  <1> QED
    BY <1>1, <1>2, <1>3, AuthTypeCorrect, PTL DEF Spec
=============================================================================
