--------------------------- MODULE AccountsProofs ---------------------------
(* What the statements of the user repository leave: a well-formed table,  *)
(* changed in one row only.                                                *)
EXTENDS Accounts, TLAPS

\* Every statement that updates a row leaves a well-formed table
\* (internal/repository/implementation/user.go).
LEMMA StatementTypes ==
    ASSUME NEW table \in Table, NEW u \in Users
    PROVE  /\ IncrFailedAttempts(table, u) \in Table
           /\ \A until \in Nat : LockUntil(table, u, until) \in Table
           /\ ClearLock(table, u) \in Table
           /\ \A secret \in Secrets : SetTOTP(table, u, secret) \in Table
           /\ \A p \in Passwords : UpdatePassword(table, u, p) \in Table
           /\ \A role \in UserRoles : UpdateRole(table, u, role) \in Table
           /\ Deactivate(table, u) \in Table
  <1>1. IncrFailedAttempts(table, u) \in Table
    BY DEF IncrFailedAttempts, Table, Row
  <1>2. ASSUME NEW until \in Nat PROVE LockUntil(table, u, until) \in Table
    BY DEF LockUntil, Table, Row
  <1>3. ClearLock(table, u) \in Table
    <2>1. table[u] \in Row /\ 0 \in Nat
      BY DEF Table
    <2>2. [table[u] EXCEPT !.failed = 0, !.locked = 0] \in Row
      BY <2>1 DEF Row
    <2>3. ClearLock(table, u) = [table EXCEPT ![u] = [table[u] EXCEPT !.failed = 0, !.locked = 0]]
      BY DEF ClearLock, Table
    <2> QED
      BY <2>2, <2>3 DEF Table
  <1>4. ASSUME NEW secret \in Secrets PROVE SetTOTP(table, u, secret) \in Table
    BY DEF SetTOTP, Table, Row
  <1>5. ASSUME NEW p \in Passwords PROVE UpdatePassword(table, u, p) \in Table
    BY DEF UpdatePassword, Table, Row
  <1>6. ASSUME NEW role \in UserRoles PROVE UpdateRole(table, u, role) \in Table
    BY DEF UpdateRole, Table, Row
  <1>7. Deactivate(table, u) \in Table
    BY DEF Deactivate, Table, Row
  <1> QED
    BY <1>1, <1>2, <1>3, <1>4, <1>5, <1>6, <1>7

\* An UPDATE by id leaves every other row alone.
LEMMA StatementRows ==
    ASSUME NEW table \in Table, NEW u \in Users, NEW v \in Users, u # v
    PROVE  /\ IncrFailedAttempts(table, u)[v] = table[v]
           /\ \A until : LockUntil(table, u, until)[v] = table[v]
           /\ ClearLock(table, u)[v] = table[v]
           /\ \A secret : SetTOTP(table, u, secret)[v] = table[v]
           /\ \A p : UpdatePassword(table, u, p)[v] = table[v]
           /\ \A role : UpdateRole(table, u, role)[v] = table[v]
           /\ Deactivate(table, u)[v] = table[v]
  BY DEF Table, IncrFailedAttempts, LockUntil, ClearLock, SetTOTP,
         UpdatePassword, UpdateRole, Deactivate

\* What the lockout statements do to the row they update.
LEMMA LockoutRow ==
    ASSUME NEW table \in Table, NEW u \in Users
    PROVE  /\ IncrFailedAttempts(table, u)[u].failed = table[u].failed + 1
           /\ IncrFailedAttempts(table, u)[u].locked = table[u].locked
           /\ \A until : /\ LockUntil(table, u, until)[u].locked = until
                         /\ LockUntil(table, u, until)[u].failed = table[u].failed
           /\ ClearLock(table, u)[u].failed = 0
           /\ ClearLock(table, u)[u].locked = 0
  BY DEF Table, Row, IncrFailedAttempts, LockUntil, ClearLock

\* An inserted row is well formed.
LEMMA CreateRowType ==
    ASSUME NEW table \in Table, NEW u \in Users, NEW role \in UserRoles,
           NEW p \in Passwords \cup {NoPassword}
    PROVE  CreateRow(table, u, role, p) \in Table
  BY DEF CreateRow, NoRow, Table, Row

\* What a read returns is a well-formed table, however far the replica lags.
LEMMA ReadViewType ==
    ASSUME AccountsTypeOK, NEW view \in ReadViews
    PROVE  view \in Table
  BY DEF AccountsTypeOK, ReadViews, Configured

\* Signing a token keeps the expiries well formed, and never takes one away.
LEMMA IssueTokenType ==
    ASSUME AccountsTypeOK, NEW purpose \in Purposes, NEW u \in Users,
           NEW ttl \in Nat, IssueToken(purpose, u, ttl)
    PROVE  /\ token' \in [Purposes -> [Users -> Nat]]
           /\ \A p \in Purposes, v \in Users : token'[p][v] >= token[p][v]
  BY DEF AccountsTypeOK, IssueToken

\* The passing of time and a replica replaying the table change no row.
LEMMA EnvironmentType ==
    ASSUME AccountsAssumption, AccountsTypeOK, Environment
    PROVE  /\ AccountsTypeOK' /\ users' = users /\ token' = token
           /\ Configured' = Configured
  <1>1. CASE Tick
    BY <1>1 DEF Tick, AccountsTypeOK, AccountsAssumption, Configured
  <1>2. ASSUME NEW r \in Configured, CatchUp(r)
        PROVE  /\ AccountsTypeOK' /\ users' = users /\ token' = token
               /\ Configured' = Configured
    BY <1>2 DEF CatchUp, AccountsTypeOK, Configured
  <1> QED
    BY <1>1, <1>2 DEF Environment
=============================================================================
