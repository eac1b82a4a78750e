------------------------ MODULE PasswordResetProofs ------------------------
(* PasswordReset: type correctness, that a code is accepted once, and that *)
(* a newer code ends the life of an older one.                             *)
EXTENDS PasswordReset, AccountsProofs, FiniteSetTheorems

USE AccountsAssumption, PasswordResetAssumption

-----------------------------------------------------------------------------
(* Types. *)

\* The states a request can be put in.
LEMMA SlotShapes ==
    /\ Idle \in Slot
    /\ \A pc \in {"delete", "insert"}, u \in Users, t \in Nat :
           [pc |-> pc, user |-> u, expires |-> t] \in Slot
    /\ \A u \in Users, i \in Ids : [pc |-> "consume", user |-> u, id |-> i] \in Slot
    /\ \A u \in Users, password \in Passwords :
           [pc |-> "store", user |-> u, password |-> password] \in Slot
  BY DEF Slot, Idle

\* What a request under way remembers.
LEMMA SlotFields ==
    ASSUME NEW slot \in Slot
    PROVE  /\ slot.pc \in {"delete", "insert"} =>
                  /\ slot.user \in Users /\ slot.expires \in Nat
                  /\ slot = [pc |-> slot.pc, user |-> slot.user,
                             expires |-> slot.expires]
           /\ slot.pc = "consume" => slot.user \in Users /\ slot.id \in Ids
           /\ slot.pc = "store" => slot.user \in Users /\ slot.password \in Passwords
  BY DEF Slot

LEMMA AccountRowType == AccountRow \subseteq Row
  <1> SUFFICES ASSUME NEW row \in AccountRow PROVE row \in Row
    OBVIOUS
  <1>1. PICK d \in [active : BOOLEAN, password : Passwords] :
          row = [NoRow EXCEPT !.exists = TRUE, !.active = d.active,
                              !.password = d.password]
    BY DEF AccountRow
  <1> QED
    BY <1>1 DEF NoRow, Row, UserRoles

\* What Consume makes of the table: the rows it hits are used, the others stay.
LEMMA ConsumedRows ==
    ASSUME resets \subseteq Reset, NEW s \in Requests, Consume(s), NEW new \in resets'
    PROVE  \E row \in resets :
              \/ /\ new = row
                 /\ row.id # request[s].id \/ row.used
              \/ /\ row.id = request[s].id /\ ~row.used
                 /\ new.id = row.id /\ new.user = row.user
                 /\ new.expires = row.expires /\ new.used = TRUE
                 /\ new \in Reset
  <1> DEFINE hit == {row \in resets : row.id = request[s].id /\ ~row.used}
  <1>1. resets' = (resets \ hit) \cup {[row EXCEPT !.used = TRUE] : row \in hit}
    BY DEF Consume
  <1>2. CASE new \in resets \ hit
    BY <1>2
  <1>3. CASE new \in {[row EXCEPT !.used = TRUE] : row \in hit}
    <2>1. PICK row \in hit : new = [row EXCEPT !.used = TRUE]
      BY <1>3
    <2>2. row \in Reset
      BY <2>1
    <2>3. /\ new.id = row.id /\ new.user = row.user
          /\ new.expires = row.expires /\ new.used = TRUE /\ new \in Reset
      BY <2>1, <2>2 DEF Reset
    <2> QED
      BY <2>1, <2>3
  <1> QED
    BY <1>1, <1>2, <1>3

\* A request's statement keeps the tables, the slots and the histories typed.
LEMMA RequestStepType ==
    ASSUME TypeOK, NEW s \in Requests, RequestStep(s)
    PROVE  TypeOK'
  <1> USE SlotShapes
  <1>a. /\ users \in Table /\ request \in [Requests -> Slot] /\ resets \subseteq Reset
        /\ clock \in Nat /\ OTPTTL \in Nat
    BY DEF TypeOK, AccountsTypeOK, AccountsAssumption, PasswordResetAssumption
  <1>1. ASSUME NEW u \in Users, Forgot(s, u) PROVE TypeOK'
    <2>1. request' \in [Requests -> Slot]
      BY <1>1, <1>a DEF Forgot
    <2> QED
      BY <1>1, <2>1 DEF Forgot, TypeOK, AccountsTypeOK, accountVars
  <1>2. CASE DeletePrevious(s)
    <2>1. /\ request[s].user \in Users /\ request[s].expires \in Nat
          /\ request[s] = [pc |-> "delete", user |-> request[s].user,
                           expires |-> request[s].expires]
      BY <1>2, <1>a, SlotFields DEF DeletePrevious
    <2>2. [request[s] EXCEPT !.pc = "insert"] \in Slot
      BY <2>1
    <2>3. request' \in [Requests -> Slot]
      BY <1>2, <1>a, <2>2 DEF DeletePrevious
    <2>4. resets' \subseteq Reset /\ overlap' \subseteq Users
      BY <1>2, <1>a, <2>1 DEF DeletePrevious, TypeOK
    <2> QED
      BY <1>2, <2>3, <2>4 DEF DeletePrevious, TypeOK, AccountsTypeOK, accountVars
  <1>3. ASSUME NEW id \in Ids, InsertReset(s, id) PROVE TypeOK'
    <2>1. request[s].user \in Users /\ request[s].expires \in Nat
      BY <1>3, <1>a, SlotFields DEF InsertReset
    <2>2. resets' \subseteq Reset
      <3> DEFINE new == [id |-> id, user |-> request[s].user,
                         expires |-> request[s].expires, used |-> FALSE]
      <3>1. new \in Reset
        BY <2>1 DEF Reset
      <3>2. resets' = resets \cup {new}
        BY <1>3 DEF InsertReset
      <3> HIDE DEF new
      <3> QED
        BY <1>a, <3>1, <3>2
    <2>3. /\ owner' \in [Ids -> Users \cup {NoUser}] /\ sent' \subseteq Ids
          /\ request' \in [Requests -> Slot]
      BY <1>3, <1>a, <2>1 DEF InsertReset, TypeOK
    <2> QED
      BY <1>3, <2>2, <2>3 DEF InsertReset, TypeOK, AccountsTypeOK, accountVars
  <1>4. ASSUME NEW u \in Users, NEW id \in Ids, Verify(s, u, id) PROVE TypeOK'
    <2>1. request' \in [Requests -> Slot]
      BY <1>4, <1>a DEF Verify
    <2> QED
      BY <1>4, <2>1 DEF Verify, TypeOK, AccountsTypeOK, accountVars
  <1>5. CASE Consume(s)
    <2>1. request[s].user \in Users /\ request[s].id \in Ids
      BY <1>5, <1>a, SlotFields DEF Consume
    <2>2. resets' \subseteq Reset
      <3>1. resets \subseteq Reset
        BY <1>a
      <3>2. ASSUME NEW new \in resets' PROVE new \in Reset
        <4>1. PICK row \in resets : new = row \/ new \in Reset
          BY <1>5, <3>1, ConsumedRows
        <4> QED
          BY <3>1, <4>1
      <3> QED
        BY <3>2
    <2>3. token' \in [Purposes -> [Users -> Nat]]
      <3>1. TokenTTL \in Nat /\ "pwd_reset" \in Purposes
        BY DEF TokenTTL, PasswordResetAssumption, Purposes
      <3>2. CASE IssueToken("pwd_reset", request[s].user, TokenTTL)
        BY <2>1, <3>1, <3>2, IssueTokenType DEF TypeOK
      <3>3. CASE token' = token
        BY <3>3 DEF TypeOK, AccountsTypeOK
      <3> QED
        BY <1>5, <3>2, <3>3 DEF Consume
    <2>4. redeemed' \in [Ids -> Nat] /\ request' \in [Requests -> Slot]
      BY <1>5, <1>a, <2>1 DEF Consume, TypeOK
    <2> QED
      BY <1>5, <2>2, <2>3, <2>4 DEF Consume, TypeOK, AccountsTypeOK
  <1>6. ASSUME NEW u \in Users, NEW password \in Passwords, Complete(s, u, password)
        PROVE  TypeOK'
    <2>1. request' \in [Requests -> Slot]
      BY <1>6, <1>a DEF Complete
    <2> QED
      BY <1>6, <2>1 DEF Complete, TypeOK, AccountsTypeOK, accountVars
  <1>7. CASE Store(s)
    <2>1. users' \in Table
      BY <1>7, <1>a, SlotFields, StatementTypes DEF Store, Exec
    <2>2. request' \in [Requests -> Slot]
      BY <1>7, <1>a DEF Store
    <2> QED
      BY <1>7, <2>1, <2>2 DEF Store, TypeOK, AccountsTypeOK
  <1>8. CASE Abort(s)
    BY <1>8, <1>a DEF Abort, TypeOK, AccountsTypeOK, accountVars
  <1> QED
    BY <1>1, <1>2, <1>3, <1>4, <1>5, <1>6, <1>7, <1>8 DEF RequestStep

\* Every state of the password reset is well formed.
THEOREM PasswordResetTypeCorrect == Spec => []TypeOK
  <1>1. Init => TypeOK
    <2> SUFFICES ASSUME Init PROVE TypeOK
      OBVIOUS
    <2>1. users \in Table
      BY AccountRowType DEF Init, AccountsInit, Table
    <2>2. AccountsTypeOK
      BY <2>1 DEF Init, AccountsInit, AccountsTypeOK, AccountsAssumption
    <2> QED
      BY <2>2, SlotShapes DEF Init, ResetInit, TypeOK, Configured
  <1>2. TypeOK /\ [Next]_vars => TypeOK'
    <2> SUFFICES ASSUME TypeOK, [Next]_vars PROVE TypeOK'
      OBVIOUS
    <2>1. ASSUME NEW s \in Requests, RequestStep(s) PROVE TypeOK'
      BY <2>1, RequestStepType
    <2>2. CASE DeleteExpired
      BY <2>2 DEF DeleteExpired, TypeOK, AccountsTypeOK, accountVars
    <2>3. ASSUME NEW r \in Configured, Replay(r) PROVE TypeOK'
      <3>1. AccountsTypeOK'
        BY <2>3, EnvironmentType DEF Replay, Environment, TypeOK
      <3> QED
        BY <2>3, <3>1, EnvironmentType DEF Replay, CatchUp, TypeOK, Configured
    <2>4. CASE Tick /\ UNCHANGED resetVars
      <3>1. AccountsTypeOK'
        BY <2>4, EnvironmentType DEF Environment, TypeOK
      <3> QED
        BY <2>4, <3>1 DEF Tick, TypeOK, resetVars
    <2>5. CASE UNCHANGED vars
      BY <2>5 DEF TypeOK, AccountsTypeOK, vars, accountVars, resetVars
    <2> QED
      BY <2>1, <2>2, <2>3, <2>4, <2>5 DEF Next
  <1> QED
    BY <1>1, <1>2, PTL DEF Spec

-----------------------------------------------------------------------------
(* One acceptance per code. *)

\* A row is known by its id, belongs to the owner of its id, and is used once
\* its code has been accepted.
RowsKnown ==
    /\ \A row \in resets : /\ owner[row.id] = row.user
                           /\ redeemed[row.id] > 0 => row.used
    /\ \A row, other \in resets : row.id = other.id => row = other
    /\ \A i \in Ids : owner[i] = NoUser => redeemed[i] = 0
    /\ CodeSingleUse

\* Which of the steps change the reset rows or what is known of them.
LEMMA ResetsFrame ==
    ASSUME [Next]_vars
    PROVE  \/ \E s \in Requests : \/ DeletePrevious(s)
                                  \/ \E id \in Ids : InsertReset(s, id)
                                  \/ Consume(s)
           \/ /\ resets' \subseteq resets
              /\ UNCHANGED <<owner, redeemed, overlap>>
              /\ \/ request' = request
                 \/ \E s \in Requests : \E slot : /\ slot.pc # "insert"
                                                  /\ request' = [request EXCEPT ![s] = slot]
  <1> DEFINE Frame == /\ resets' \subseteq resets
                      /\ UNCHANGED <<owner, redeemed, overlap>>
                      /\ \/ request' = request
                         \/ \E s \in Requests : \E slot :
                               /\ slot.pc # "insert"
                               /\ request' = [request EXCEPT ![s] = slot]
  <1>1. CASE UNCHANGED vars
    BY <1>1 DEF vars, resetVars
  <1>2. CASE Tick /\ UNCHANGED resetVars
    BY <1>2 DEF resetVars
  <1>3. ASSUME NEW r \in Configured, Replay(r) PROVE Frame
    BY <1>3 DEF Replay
  <1>4. CASE DeleteExpired
    BY <1>4 DEF DeleteExpired
  <1>5. ASSUME NEW s \in Requests, NEW u \in Users, Forgot(s, u) PROVE Frame
    BY <1>5 DEF Forgot
  <1>6. ASSUME NEW s \in Requests, NEW u \in Users, NEW id \in Ids, Verify(s, u, id)
        PROVE  Frame
    BY <1>6 DEF Verify
  <1>7. ASSUME NEW s \in Requests, NEW u \in Users, NEW password \in Passwords,
               Complete(s, u, password)
        PROVE  Frame
    BY <1>7 DEF Complete
  <1>8. ASSUME NEW s \in Requests, Store(s) \/ Abort(s) PROVE Frame
    BY <1>8 DEF Store, Abort, Idle
  <1> QED
    BY <1>1, <1>2, <1>3, <1>4, <1>5, <1>6, <1>7, <1>8 DEF Next, RequestStep

LEMMA RowsKnownStep ==
    ASSUME TypeOK, RowsKnown, [Next]_vars
    PROVE  RowsKnown'
  <1>a. /\ resets \subseteq Reset /\ request \in [Requests -> Slot]
        /\ owner \in [Ids -> Users \cup {NoUser}] /\ redeemed \in [Ids -> Nat]
        /\ NoUser \notin Users
    BY DEF TypeOK, PasswordResetAssumption
  <1>1. ASSUME resets' \subseteq resets, owner' = owner, redeemed' = redeemed
        PROVE  RowsKnown'
    BY <1>1 DEF RowsKnown, CodeSingleUse
  <1>2. ASSUME NEW s \in Requests, DeletePrevious(s) PROVE RowsKnown'
    BY <1>1, <1>2 DEF DeletePrevious
  <1>3. ASSUME NEW s \in Requests, NEW id \in Ids, InsertReset(s, id) PROVE RowsKnown'
    <2> DEFINE new == [id |-> id, user |-> request[s].user,
                       expires |-> request[s].expires, used |-> FALSE]
    <2>1. /\ owner[id] = NoUser /\ redeemed[id] = 0 /\ redeemed' = redeemed
          /\ resets' = resets \cup {new} /\ request[s].user \in Users
          /\ owner' = [owner EXCEPT ![id] = request[s].user]
      BY <1>3, <1>a, SlotFields DEF InsertReset, Created, RowsKnown
    <2>2. ASSUME NEW row \in resets PROVE row.id # id /\ row.id \in Ids
      BY <1>a, <2>1, <2>2 DEF RowsKnown, Reset
    <2>3. new.id = id /\ new.user = request[s].user /\ new.used = FALSE
      OBVIOUS
    <2>4. ASSUME NEW row \in resets'
          PROVE  owner'[row.id] = row.user /\ (redeemed'[row.id] > 0 => row.used)
      BY <1>a, <2>1, <2>2, <2>3 DEF RowsKnown
    <2>5. ASSUME NEW row \in resets', NEW other \in resets', row.id = other.id
          PROVE  row = other
      BY <2>1, <2>2, <2>3, <2>5 DEF RowsKnown
    <2>6. \A i \in Ids : owner'[i] = NoUser => redeemed'[i] = 0
      BY <1>a, <2>1 DEF RowsKnown
    <2>7. CodeSingleUse'
      BY <2>1 DEF RowsKnown, CodeSingleUse
    <2> QED
      BY <2>4, <2>5, <2>6, <2>7 DEF RowsKnown
  <1>4. ASSUME NEW s \in Requests, Consume(s) PROVE RowsKnown'
    <2> DEFINE i == request[s].id
               hit == {row \in resets : row.id = i /\ ~row.used}
    <2>1. i \in Ids /\ owner' = owner
      BY <1>4, <1>a, SlotFields DEF Consume
    <2>2. \/ hit # {} /\ redeemed' = [redeemed EXCEPT ![i] = redeemed[i] + 1]
          \/ redeemed' = redeemed
      BY <1>4 DEF Consume
    <2>3. hit # {} => redeemed[i] = 0 /\ owner[i] # NoUser
      BY <1>a DEF RowsKnown, Reset
    <2>4. ASSUME NEW new \in resets'
          PROVE  \E row \in resets :
                    /\ new.id = row.id /\ new.user = row.user
                    /\ \/ row \notin hit /\ new = row
                       \/ row \in hit /\ new = [row EXCEPT !.used = TRUE] /\ new.used
      <3>1. resets' = (resets \ hit) \cup {[row EXCEPT !.used = TRUE] : row \in hit}
        BY <1>4 DEF Consume
      <3>2. CASE new \in resets \ hit
        BY <3>2
      <3>3. CASE new \in {[row EXCEPT !.used = TRUE] : row \in hit}
        <4>1. PICK row \in hit : new = [row EXCEPT !.used = TRUE]
          BY <3>3
        <4>2. new.id = row.id /\ new.user = row.user /\ new.used
          BY <1>a, <4>1 DEF Reset
        <4> QED
          BY <4>1, <4>2
      <3> QED
        BY <3>1, <3>2, <3>3
    <2>5. ASSUME NEW new \in resets'
          PROVE  owner'[new.id] = new.user /\ (redeemed'[new.id] > 0 => new.used)
      <3>1. PICK row \in resets :
                    /\ new.id = row.id /\ new.user = row.user
                    /\ \/ row \notin hit /\ new = row
                       \/ row \in hit /\ new.used
        BY <2>4
      <3>2. row.id \in Ids /\ owner[row.id] = row.user
        BY <1>a DEF Reset, RowsKnown
      <3>3. CASE row \in hit
        BY <2>1, <3>1, <3>2, <3>3
      <3>4. CASE row \notin hit
        <4>1. new = row /\ (redeemed[row.id] > 0 => row.used)
          BY <3>1, <3>4 DEF RowsKnown
        <4>2. row.id = i => row.used
          BY <3>4
        <4> QED
          BY <1>a, <2>1, <2>2, <3>2, <4>1, <4>2
      <3> QED
        BY <3>3, <3>4
    <2>6. ASSUME NEW new \in resets', NEW other \in resets', new.id = other.id
          PROVE  new = other
      <3>1. PICK row \in resets :
                    /\ new.id = row.id
                    /\ \/ row \notin hit /\ new = row
                       \/ row \in hit /\ new = [row EXCEPT !.used = TRUE]
        BY <2>4
      <3>2. PICK old \in resets :
                    /\ other.id = old.id
                    /\ \/ old \notin hit /\ other = old
                       \/ old \in hit /\ other = [old EXCEPT !.used = TRUE]
        BY <2>4
      <3>3. row.id = old.id
        BY <2>6, <3>1, <3>2
      <3>4. \A x, y \in resets : x.id = y.id => x = y
        BY DEF RowsKnown
      <3>5. row = old
        BY <3>3, <3>4
      <3> QED
        BY <3>1, <3>2, <3>5
    <2>7. \A j \in Ids : owner'[j] = NoUser => redeemed'[j] = 0
      BY <1>a, <2>1, <2>2, <2>3 DEF RowsKnown
    <2>8. CodeSingleUse'
      BY <1>a, <2>1, <2>2, <2>3 DEF RowsKnown, CodeSingleUse
    <2> QED
      BY <2>5, <2>6, <2>7, <2>8 DEF RowsKnown
  <1> QED
    BY <1>1, <1>2, <1>3, <1>4, ResetsFrame

\* No code is accepted twice, for any number of users, requests and replicas,
\* with failures and lost answers.
THEOREM CodeSingleUseSafe == Spec => []CodeSingleUse
  <1>1. Init => RowsKnown
    BY DEF Init, ResetInit, RowsKnown, CodeSingleUse
  <1>2. TypeOK /\ RowsKnown /\ [Next]_vars => RowsKnown'
    BY RowsKnownStep
  <1>3. RowsKnown => CodeSingleUse
    BY DEF RowsKnown
  <1> QED
    BY <1>1, <1>2, <1>3, PasswordResetTypeCorrect, PTL DEF Spec

-----------------------------------------------------------------------------
(* The newest code. *)

Inserting(s, u) == request[s].pc = "insert" /\ request[s].user = u

\* Ids are handed out in order; between its DELETE and its INSERT a request is
\* alone with its user and finds no row, and a row is its user's newest,
\* unless some DELETE for that user has missed a row.
NewestOnly ==
    /\ \A i, j \in Ids : i < j /\ owner[j] # NoUser => owner[i] # NoUser
    /\ \A s, t \in Requests, u \in Users :
          Inserting(s, u) /\ Inserting(t, u) /\ s # t => u \in overlap
    /\ \A s \in Requests, u \in Users : \A row \in resets :
          Inserting(s, u) /\ row.user = u => u \in overlap
    /\ \A row \in resets : \A newer \in Ids :
          row.id < newer /\ owner[newer] = row.user => row.user \in overlap

LEMMA NewestOnlyStep ==
    ASSUME TypeOK, RowsKnown, NewestOnly, [Next]_vars
    PROVE  NewestOnly'
  <1>a. /\ resets \subseteq Reset /\ request \in [Requests -> Slot]
        /\ owner \in [Ids -> Users \cup {NoUser}] /\ NoUser \notin Users
        /\ Ids \subseteq Nat
    BY DEF TypeOK, PasswordResetAssumption, Ids
  <1>1. ASSUME resets' \subseteq resets, owner' = owner, overlap' = overlap,
               \A s \in Requests, u \in Users : Inserting(s, u)' => Inserting(s, u)
        PROVE  NewestOnly'
    BY <1>1 DEF NewestOnly
  <1>2. ASSUME NEW s \in Requests, NEW slot, slot.pc # "insert",
               request' = [request EXCEPT ![s] = slot]
        PROVE  \A t \in Requests, u \in Users : Inserting(t, u)' => Inserting(t, u)
    BY <1>a, <1>2 DEF Inserting
  <1>3. ASSUME NEW s \in Requests, DeletePrevious(s) PROVE NewestOnly'
    <2> DEFINE v == request[s].user
    <2>1. /\ owner' = owner /\ v \in Users
          /\ request[s] = [pc |-> "delete", user |-> v, expires |-> request[s].expires]
          /\ request' = [request EXCEPT ![s] = [request[s] EXCEPT !.pc = "insert"]]
      BY <1>3, <1>a, SlotFields DEF DeletePrevious
    <2>2. \A t \in Requests, u \in Users :
             Inserting(t, u)' <=> (IF t = s THEN u = v ELSE Inserting(t, u))
      BY <1>a, <2>1 DEF Inserting
    <2>3. resets' \subseteq resets /\ overlap \subseteq overlap'
      BY <1>3 DEF DeletePrevious
    <2>4. v \in overlap' \/ /\ \A row \in resets' : row.user # v
                            /\ \A t \in Requests : ~Inserting(t, v)
      BY <1>3 DEF DeletePrevious, Inserting
    <2>5. ASSUME NEW t \in Requests, NEW t2 \in Requests, NEW u \in Users,
                 Inserting(t, u)', Inserting(t2, u)', t # t2
          PROVE  u \in overlap'
      BY <2>2, <2>3, <2>4, <2>5 DEF NewestOnly
    <2>6. ASSUME NEW t \in Requests, NEW u \in Users, NEW row \in resets',
                 Inserting(t, u)', row.user = u
          PROVE  u \in overlap'
      BY <2>2, <2>3, <2>4, <2>6 DEF NewestOnly
    <2>7. ASSUME NEW row \in resets', NEW newer \in Ids, row.id < newer,
                 owner[newer] = row.user
          PROVE  row.user \in overlap'
      BY <2>3, <2>7 DEF NewestOnly
    <2> QED
      BY <2>1, <2>5, <2>6, <2>7 DEF NewestOnly
  <1>4. ASSUME NEW s \in Requests, NEW id \in Ids, InsertReset(s, id) PROVE NewestOnly'
    <2> DEFINE v == request[s].user
               new == [id |-> id, user |-> v, expires |-> request[s].expires,
                       used |-> FALSE]
    <2>1. /\ Inserting(s, v) /\ v \in Users /\ resets' = resets \cup {new}
          /\ owner' = [owner EXCEPT ![id] = v] /\ overlap' = overlap
          /\ request' = [request EXCEPT ![s] = Idle] /\ Idle.pc # "insert"
      BY <1>4, <1>a, SlotFields DEF InsertReset, Inserting, Idle
    <2>2. /\ owner[id] = NoUser
          /\ \A i \in Ids : i < id => owner[i] # NoUser
      BY <1>4, <1>a DEF InsertReset, Created, Ids
    <2>3. \A i \in Ids : id < i => owner[i] = NoUser
      BY <1>a, <2>2 DEF NewestOnly
    <2>4. /\ \A t \in Requests, u \in Users :
                Inserting(t, u)' => Inserting(t, u) /\ t # s
          /\ new.id = id /\ new.user = v
      BY <1>a, <2>1 DEF Inserting
    <2>5. \A i, j \in Ids : i < j /\ owner'[j] # NoUser => owner'[i] # NoUser
      BY <1>a, <2>1, <2>2 DEF NewestOnly
    <2>6. ASSUME NEW t \in Requests, NEW u \in Users, NEW row \in resets',
                 Inserting(t, u)', row.user = u
          PROVE  u \in overlap'
      BY <2>1, <2>4, <2>6 DEF NewestOnly
    <2>7. ASSUME NEW row \in resets', NEW newer \in Ids, row.id < newer,
                 owner'[newer] = row.user
          PROVE  row.user \in overlap'
      <3>1. CASE row = new
        BY <1>a, <2>1, <2>3, <2>4, <2>7, <3>1
      <3>2. CASE row \in resets /\ newer = id
        BY <1>a, <2>1, <2>7, <3>2 DEF NewestOnly
      <3>3. CASE row \in resets /\ newer # id
        BY <1>a, <2>1, <2>7, <3>3 DEF NewestOnly
      <3> QED
        BY <2>1, <3>1, <3>2, <3>3
    <2>8. ASSUME NEW t \in Requests, NEW t2 \in Requests, NEW u \in Users,
                 Inserting(t, u)', Inserting(t2, u)', t # t2
          PROVE  u \in overlap'
      BY <2>1, <2>4, <2>8 DEF NewestOnly
    <2> QED
      BY <2>5, <2>6, <2>7, <2>8 DEF NewestOnly
  <1>5. ASSUME NEW s \in Requests, Consume(s) PROVE NewestOnly'
    <2>1. /\ owner' = owner /\ overlap' = overlap
          /\ request' = [request EXCEPT ![s] = Idle] /\ Idle.pc # "insert"
      BY <1>5 DEF Consume, Idle
    <2>2. \A t \in Requests, u \in Users : Inserting(t, u)' => Inserting(t, u)
      BY <1>2, <2>1
    <2>3. ASSUME NEW new \in resets'
          PROVE  \E row \in resets : new.id = row.id /\ new.user = row.user
      <3>1. resets \subseteq Reset
        BY <1>a
      <3>2. PICK row \in resets :
                \/ /\ new = row
                   /\ row.id # request[s].id \/ row.used
                \/ /\ row.id = request[s].id /\ ~row.used
                   /\ new.id = row.id /\ new.user = row.user
                   /\ new.expires = row.expires /\ new.used = TRUE
                   /\ new \in Reset
        BY <1>5, <3>1, ConsumedRows
      <3> QED
        BY <3>2
    <2>4. ASSUME NEW t \in Requests, NEW u \in Users, NEW new \in resets',
                 Inserting(t, u)', new.user = u
          PROVE  u \in overlap'
      BY <2>1, <2>2, <2>3, <2>4 DEF NewestOnly
    <2>5. ASSUME NEW new \in resets', NEW newer \in Ids, new.id < newer,
                 owner'[newer] = new.user
          PROVE  new.user \in overlap'
      BY <2>1, <2>3, <2>5 DEF NewestOnly
    <2> QED
      BY <2>1, <2>2, <2>4, <2>5 DEF NewestOnly
  <1>6. ASSUME request' = request
        PROVE  \A s \in Requests, u \in Users : Inserting(s, u)' => Inserting(s, u)
    BY <1>6 DEF Inserting
  <1> QED
    BY <1>1, <1>2, <1>3, <1>4, <1>5, <1>6, ResetsFrame

\* A code is dead once a newer one exists for its user, unless a DELETE for
\* that user missed a row; for any number of users, requests and replicas.
THEOREM OldCodeDeadSafe == Spec => OldCodeDead
  <1> DEFINE Step == \A id, newer \in Ids :
                        redeemed'[id] > redeemed[id] /\ id < newer
                        /\ owner[newer] = owner[id] => owner[id] \in overlap
  <1>1. Init => RowsKnown /\ NewestOnly
    <2> SUFFICES ASSUME Init PROVE RowsKnown /\ NewestOnly
      OBVIOUS
    <2>1. RowsKnown
      BY DEF Init, ResetInit, RowsKnown, CodeSingleUse
    <2>2. NewestOnly
      BY DEF Init, ResetInit, NewestOnly, Inserting, Idle
    <2> QED
      BY <2>1, <2>2
  <1>2. TypeOK /\ RowsKnown /\ NewestOnly /\ [Next]_vars => (RowsKnown /\ NewestOnly)'
    BY RowsKnownStep, NewestOnlyStep
  <1>3. TypeOK /\ RowsKnown /\ NewestOnly /\ [Next]_vars => [Step]_vars
    <2> SUFFICES ASSUME TypeOK, RowsKnown, NewestOnly, [Next]_vars,
                        NEW id \in Ids, NEW newer \in Ids,
                        redeemed'[id] > redeemed[id], id < newer,
                        owner[newer] = owner[id]
                 PROVE  owner[id] \in overlap
      OBVIOUS
    <2>1. redeemed[id] \in Nat /\ redeemed' # redeemed
      BY DEF TypeOK
    <2>2. PICK s \in Requests : Consume(s)
      BY <2>1, ResetsFrame DEF DeletePrevious, InsertReset
    <2>3. PICK row \in resets : row.id = request[s].id
      BY <2>1, <2>2 DEF Consume
    <2>4. request[s].id = id
      <3>1. redeemed' = [redeemed EXCEPT ![request[s].id] = redeemed[request[s].id] + 1]
        BY <2>1, <2>2 DEF Consume
      <3> QED
        BY <2>1, <3>1 DEF TypeOK
    <2> QED
      BY <2>3, <2>4 DEF NewestOnly, RowsKnown
  <1> QED
    BY <1>1, <1>2, <1>3, PasswordResetTypeCorrect, PTL DEF Spec, OldCodeDead

\* There is one pending code per user, unless a DELETE for that user missed a
\* row; the same invariant says so.
THEOREM OnePendingSafe == Spec => []OnePending
  <1>1. Init => RowsKnown /\ NewestOnly
    BY DEF Init, ResetInit, RowsKnown, CodeSingleUse, NewestOnly, Inserting, Idle
  <1>2. TypeOK /\ RowsKnown /\ NewestOnly => OnePending
    <2> SUFFICES ASSUME TypeOK, RowsKnown, NewestOnly, NEW u \in Users \ overlap
                 PROVE  Cardinality(Pending(resets, u)) <= 1
      BY DEF OnePending
    <2>1. ASSUME NEW row \in Pending(resets, u), NEW other \in Pending(resets, u)
          PROVE  row = other
      <3>1. /\ row \in resets /\ other \in resets /\ row.user = u /\ other.user = u
            /\ row.id \in Ids /\ other.id \in Ids
            /\ owner[row.id] = u /\ owner[other.id] = u
        BY DEF Pending, TypeOK, Reset, RowsKnown
      <3>2. ~(row.id < other.id) /\ ~(other.id < row.id)
        BY <3>1 DEF NewestOnly
      <3>3. row.id \in Nat /\ other.id \in Nat
        BY <3>1 DEF Ids
      <3>4. row.id = other.id
        BY <3>2, <3>3
      <3> QED
        BY <3>1, <3>4 DEF RowsKnown
    <2>2. CASE Pending(resets, u) = {}
      BY <2>2, FS_EmptySet
    <2>3. CASE Pending(resets, u) # {}
      <3>1. PICK row \in Pending(resets, u) : Pending(resets, u) = {row}
        BY <2>1, <2>3
      <3>2. Cardinality({row}) = 1
        BY FS_Singleton
      <3> QED
        BY <3>1, <3>2
    <2> QED
      BY <2>2, <2>3
  <1> QED
    BY <1>1, <1>2, RowsKnownStep, NewestOnlyStep, PasswordResetTypeCorrect, PTL DEF Spec

-----------------------------------------------------------------------------
(* What a change of password rests on. *)

\* One of u's mailed codes has been accepted.
Entitled(u) == \E id \in sent : owner[id] = u /\ redeemed[id] > 0

\* A code is only presented for its owner, and from there on the token and the
\* request that stores the password are its owner's.
CodeBehind ==
    /\ \A r \in Configured : \A row \in resetReplica[r] : owner[row.id] = row.user
    /\ \A s \in Requests : request[s].pc = "consume" =>
           request[s].id \in sent /\ owner[request[s].id] = request[s].user
    /\ \A u \in Users : token["pwd_reset"][u] > 0 => Entitled(u)
    /\ \A s \in Requests : request[s].pc = "store" => Entitled(request[s].user)

\* Whoever is entitled stays so: an id keeps its owner, and acceptances count.
LEMMA EntitledStays ==
    ASSUME TypeOK, [Next]_vars
    PROVE  /\ \A i \in Ids : owner[i] # NoUser => owner'[i] = owner[i]
           /\ sent \subseteq sent'
           /\ \A i \in Ids : redeemed[i] > 0 => redeemed'[i] > 0
           /\ \A u \in Users : Entitled(u) => Entitled(u)'
  <1>a. /\ owner \in [Ids -> Users \cup {NoUser}] /\ redeemed \in [Ids -> Nat]
        /\ sent \subseteq Ids /\ request \in [Requests -> Slot] /\ NoUser \notin Users
    BY DEF TypeOK, PasswordResetAssumption
  <1>1. /\ \A i \in Ids : owner[i] # NoUser => owner'[i] = owner[i]
        /\ \A i \in Ids : redeemed[i] > 0 => redeemed'[i] > 0
    <2>1. ASSUME NEW s \in Requests, NEW id \in Ids, InsertReset(s, id)
          PROVE  /\ \A i \in Ids : owner[i] # NoUser => owner'[i] = owner[i]
                 /\ redeemed' = redeemed
      BY <1>a, <2>1 DEF InsertReset, Created
    <2>2. ASSUME NEW s \in Requests, Consume(s)
          PROVE  /\ owner' = owner
                 /\ \A i \in Ids : redeemed[i] > 0 => redeemed'[i] > 0
      <3>1. \/ redeemed' = redeemed
            \/ redeemed' = [redeemed EXCEPT ![request[s].id] = redeemed[request[s].id] + 1]
        BY <2>2 DEF Consume
      <3> QED
        BY <1>a, <2>2, <3>1 DEF Consume
    <2>3. ASSUME NEW s \in Requests, DeletePrevious(s)
          PROVE  owner' = owner /\ redeemed' = redeemed
      BY <2>3 DEF DeletePrevious
    <2> QED
      BY <2>1, <2>2, <2>3, ResetsFrame
  <1>2. sent \subseteq sent'
    BY DEF Next, RequestStep, Forgot, DeletePrevious, InsertReset, Verify, Consume,
           Complete, Store, Abort, DeleteExpired, Replay, vars, resetVars
  <1> QED
    BY <1>a, <1>1, <1>2 DEF Entitled

LEMMA CodeBehindStep ==
    ASSUME TypeOK, RowsKnown, CodeBehind, [Next]_vars
    PROVE  CodeBehind'
  <1>a. /\ resets \subseteq Reset /\ request \in [Requests -> Slot]
        /\ resetReplica \in [Configured -> SUBSET Reset]
        /\ owner \in [Ids -> Users \cup {NoUser}] /\ redeemed \in [Ids -> Nat]
        /\ token \in [Purposes -> [Users -> Nat]] /\ clock \in Nat
        /\ "pwd_reset" \in Purposes /\ NoUser \notin Users
    BY DEF TypeOK, AccountsTypeOK, AccountsAssumption, PasswordResetAssumption, Purposes,
           Configured
  <1>b. /\ \A i \in Ids : owner[i] # NoUser => owner'[i] = owner[i]
        /\ sent \subseteq sent' /\ sent \subseteq Ids
        /\ \A u \in Users : Entitled(u) => Entitled(u)'
    BY EntitledStays DEF TypeOK
  <1>1. \A r \in Configured' : \A row \in resetReplica'[r] : owner'[row.id] = row.user
    <2>1. ASSUME NEW r \in Configured, Replay(r)
          PROVE  /\ Configured' = Configured /\ owner' = owner
                 /\ \A q \in Configured : \/ resetReplica'[q] = resetReplica[q]
                                          \/ resetReplica'[q] = resets
      BY <1>a, <2>1 DEF Replay, CatchUp, Configured
    <2>2. CASE ~\E r \in Configured : Replay(r)
      <3>1. resetReplica' = resetReplica /\ Configured' = Configured
        BY <2>2 DEF Next, RequestStep, Forgot, DeletePrevious, InsertReset, Verify,
           Consume, Complete, Store, Abort, DeleteExpired, Tick, vars, accountVars,
           resetVars, Configured
      <3> QED
        BY <1>a, <1>b, <3>1 DEF CodeBehind, Reset
    <2> QED
      BY <2>1, <2>2 DEF CodeBehind, RowsKnown
  <1>2. ASSUME NEW t \in Requests, request'[t].pc = "consume"
        PROVE  request'[t].id \in sent' /\ owner'[request'[t].id] = request'[t].user
    <2>1. CASE request'[t] = request[t]
      BY <1>a, <1>b, <1>2, <2>1, SlotFields DEF CodeBehind
    <2>2. ASSUME NEW u \in Users, NEW id \in Ids, Verify(t, u, id)
          PROVE  request'[t].id \in sent' /\ owner'[request'[t].id] = request'[t].user
      <3>1. PICK view \in ResetViews : \E row \in Latest(view, u) : row.id = id
        BY <2>2 DEF Verify
      <3>2. PICK row \in view : row.user = u /\ row.id = id
        BY <3>1 DEF Latest, Pending
      <3>3. owner[id] = u
        BY <3>1, <3>2 DEF ResetViews, RowsKnown, CodeBehind
      <3>4. /\ request'[t] = [pc |-> "consume", user |-> u, id |-> id]
            /\ id \in sent
        BY <1>a, <2>2 DEF Verify
      <3> QED
        BY <1>a, <1>b, <3>3, <3>4
    <2> QED
      BY <1>2, <1>a, <2>1, <2>2, SlotFields DEF Next, RequestStep, Forgot, DeletePrevious,
         InsertReset, Verify, Consume, Complete, Store, Abort, DeleteExpired, Replay, Tick,
         vars, resetVars, Idle
  <1>3. ASSUME NEW u \in Users, token'["pwd_reset"][u] > 0
        PROVE  Entitled(u)'
    <2>1. CASE token' = token
      BY <1>b, <1>3, <2>1 DEF CodeBehind
    <2>2. CASE token' # token
      <3>1. PICK s \in Requests : Consume(s)
        BY <2>2 DEF Next, RequestStep, Forgot, DeletePrevious, InsertReset, Verify,
           Complete, Store, Abort, DeleteExpired, Replay, CatchUp, Tick, vars, accountVars
      <3>2. /\ IssueToken("pwd_reset", request[s].user, TokenTTL)
            /\ redeemed' = [redeemed EXCEPT ![request[s].id] = redeemed[request[s].id] + 1]
            /\ owner' = owner /\ sent' = sent
        BY <2>2, <3>1 DEF Consume
      <3>3. /\ request[s].pc = "consume" /\ request[s].id \in Ids
            /\ request[s].user \in Users
        BY <1>a, <3>1, SlotFields DEF Consume
      <3>4. CASE u = request[s].user
        <4>1. request[s].id \in sent' /\ owner'[request[s].id] = u
          BY <3>2, <3>3, <3>4 DEF CodeBehind
        <4>2. redeemed'[request[s].id] > 0
          BY <1>a, <3>2, <3>3
        <4> QED
          BY <4>1, <4>2 DEF Entitled
      <3>5. CASE u # request[s].user
        <4>1. token'["pwd_reset"][u] = token["pwd_reset"][u]
          BY <1>a, <3>2, <3>3, <3>5 DEF IssueToken
        <4> QED
          BY <1>b, <1>3, <4>1 DEF CodeBehind
      <3> QED
        BY <3>4, <3>5
    <2> QED
      BY <2>1, <2>2
  <1>4. ASSUME NEW t \in Requests, request'[t].pc = "store"
        PROVE  \E u \in Users : request'[t].user = u /\ Entitled(u)'
    <2>1. CASE request'[t] = request[t]
      BY <1>a, <1>b, <1>4, <2>1, SlotFields DEF CodeBehind
    <2>2. ASSUME NEW u \in Users, NEW password \in Passwords, Complete(t, u, password)
          PROVE  request'[t].user = u /\ Entitled(u)'
      <3>1. token["pwd_reset"][u] > 0 /\ request'[t].user = u
        BY <1>a, <2>2 DEF Complete, Bears
      <3> QED
        BY <1>b, <3>1 DEF CodeBehind
    <2> QED
      BY <1>4, <1>a, <2>1, <2>2, SlotFields DEF Next, RequestStep, Forgot, DeletePrevious,
         InsertReset, Verify, Consume, Complete, Store, Abort, DeleteExpired, Replay, Tick,
         vars, resetVars, Idle
  <1>5. \A t \in Requests : request'[t].pc = "store" =>
            \E id \in sent' : owner'[id] = request'[t].user /\ redeemed'[id] > 0
    BY <1>4 DEF Entitled
  <1> QED
    BY <1>1, <1>2, <1>3, <1>5 DEF CodeBehind, Entitled

\* A password changes only behind an accepted code that was mailed to its
\* owner, however old the readings and whatever fails on the way.
THEOREM ChangeNeedsCodeSafe == Spec => ChangeNeedsCode
  <1> DEFINE Step == \A u \in Users :
                        users'[u].password # users[u].password =>
                            \E id \in sent : owner[id] = u /\ redeemed[id] > 0
  <1>1. Init => RowsKnown /\ CodeBehind
    BY DEF Init, AccountsInit, ResetInit, RowsKnown, CodeSingleUse, CodeBehind, Idle,
           Purposes
  <1>2. TypeOK /\ RowsKnown /\ CodeBehind /\ [Next]_vars => (RowsKnown /\ CodeBehind)'
    BY RowsKnownStep, CodeBehindStep
  <1>3. TypeOK /\ RowsKnown /\ CodeBehind /\ [Next]_vars => [Step]_vars
    <2> SUFFICES ASSUME TypeOK, CodeBehind, [Next]_vars, NEW u \in Users,
                        users'[u].password # users[u].password
                 PROVE  Entitled(u)
      BY DEF Entitled
    <2>1. PICK s \in Requests : Store(s)
      BY DEF Next, RequestStep, Forgot, DeletePrevious, InsertReset, Verify, Consume,
         Complete, Abort, DeleteExpired, Replay, CatchUp, Tick, vars, accountVars
    <2>2. /\ request[s].pc = "store" /\ request[s].user \in Users
          /\ \/ users' = UpdatePassword(users, request[s].user, request[s].password)
             \/ users' = users
      BY <2>1, SlotFields DEF Store, Exec, TypeOK
    <2>3. u = request[s].user
      BY <2>2, StatementRows DEF TypeOK, AccountsTypeOK
    <2> QED
      BY <2>2, <2>3 DEF CodeBehind
  <1> QED
    BY <1>1, <1>2, <1>3, PasswordResetTypeCorrect, PTL DEF Spec, ChangeNeedsCode

-----------------------------------------------------------------------------
(* The reset implements the abstract OneTimeCode. *)

openIds == {row.id : row \in {r \in resets : ~r.used}}
passwords == [u \in Users |-> users[u].password]
codeVars == <<owner, openIds, redeemed, passwords, overlap>>

\* Only a Store changes the users table.
LEMMA OnlyStoreWrites ==
    ASSUME [Next]_vars
    PROVE  users' = users \/ \E s \in Requests : Store(s)
  BY DEF Next, RequestStep, Forgot, DeletePrevious, InsertReset, Verify, Consume,
         Complete, Abort, DeleteExpired, Replay, CatchUp, Tick, vars, accountVars

\* When rows only go, the codes that are open only lapse.
LEMMA RowsLapse ==
    ASSUME resets' \subseteq resets, users' = users, overlap \subseteq overlap',
           overlap' \subseteq Users, UNCHANGED <<owner, redeemed>>
    PROVE  AbstractCodes!Lapse
  <1>1. openIds' \subseteq openIds
    BY DEF openIds
  <1>2. passwords' = passwords
    BY DEF passwords
  <1> QED
    BY <1>1, <1>2 DEF AbstractCodes!Lapse, openIds, passwords

\* Who stores a password is entitled to by a code that was accepted.
LEMMA StoreChanges ==
    ASSUME TypeOK, CodeBehind, NEW s \in Requests, Store(s)
    PROVE  [AbstractCodes!Next]_codeVars
  <1>0. PICK u \in Users : u = request[s].user
    BY SlotFields DEF Store, TypeOK
  <1>1. /\ Entitled(u) /\ users \in Table
        /\ \/ users' = UpdatePassword(users, u, request[s].password)
           \/ users' = users
        /\ UNCHANGED <<resets, owner, redeemed, overlap>>
    BY <1>0 DEF Store, Exec, TypeOK, AccountsTypeOK, CodeBehind
  <1>2. \A v \in Users : v # u => users'[v].password = users[v].password
    BY <1>1, StatementRows
  <1>3. openIds' = openIds
    BY <1>1 DEF openIds
  <1>4. \E id \in Ids : owner[id] = u /\ redeemed[id] > 0
    BY <1>1 DEF Entitled, TypeOK
  <1>5. passwords' = [passwords EXCEPT ![u] = passwords'[u]]
    BY <1>1, <1>2 DEF passwords
  <1>6. AbstractCodes!Change(u)
    BY <1>1, <1>3, <1>4, <1>5 DEF AbstractCodes!Change, openIds, passwords
  <1> QED
    BY <1>6 DEF AbstractCodes!Next

\* An INSERT makes a code, and the only open one of its user but for those
\* whose DELETE missed a row.
LEMMA InsertMakes ==
    ASSUME TypeOK, RowsKnown, NewestOnly, NEW s \in Requests, NEW id \in Ids, InsertReset(s, id)
    PROVE  AbstractCodes!Next
  <1>0. PICK u \in Users : u = request[s].user
    BY SlotFields DEF InsertReset, TypeOK
  <1> DEFINE new == [id |-> id, user |-> u, expires |-> request[s].expires, used |-> FALSE]
  <1>1. /\ Inserting(s, u) /\ resets \subseteq Reset
        /\ owner[id] = NoUser /\ owner' = [owner EXCEPT ![id] = u]
        /\ resets' = resets \cup {new} /\ users' = users
        /\ UNCHANGED <<redeemed, overlap>>
    BY <1>0 DEF InsertReset, Inserting, Created, TypeOK, accountVars
  <1>2. new.id = id /\ ~new.used
    OBVIOUS
  <1> HIDE DEF new
  <1>3. openIds' = openIds \cup {id}
    BY <1>1, <1>2 DEF openIds
  <1>4. u \in overlap \/ \A d \in openIds : owner[d] # u
    <2>1. ASSUME NEW row \in resets, owner[row.id] = u PROVE u \in overlap
      BY <1>1, <2>1 DEF RowsKnown, NewestOnly
    <2> QED
      BY <2>1 DEF openIds
  <1>5. passwords' = passwords
    BY <1>1 DEF passwords
  <1>6. AbstractCodes!Make(u, id)
    BY <1>1, <1>3, <1>4, <1>5 DEF AbstractCodes!Make, openIds, passwords
  <1> QED
    BY <1>1, <1>6 DEF AbstractCodes!Next

\* Consume takes an open code, or uses it up without anybody learning of it.
LEMMA ConsumeTakes ==
    ASSUME TypeOK, RowsKnown, NEW s \in Requests, Consume(s)
    PROVE  AbstractCodes!Next
  <1>0. PICK id \in Ids : id = request[s].id
    BY SlotFields DEF Consume, TypeOK
  <1> DEFINE hit == {row \in resets : row.id = id /\ ~row.used}
  <1>1. /\ resets \subseteq Reset
        /\ resets' = (resets \ hit) \cup {[row EXCEPT !.used = TRUE] : row \in hit}
        /\ \/ hit # {} /\ redeemed' = [redeemed EXCEPT ![id] = redeemed[id] + 1]
           \/ redeemed' = redeemed
        /\ UNCHANGED <<users, owner, overlap>>
    BY <1>0 DEF Consume, TypeOK
  <1>2. openIds' = openIds \ {id}
    <2>1. ASSUME NEW row \in resets' PROVE row.used \/ (row \in resets /\ row.id # id)
      <3>1. CASE row \in resets \ hit
        BY <3>1
      <3>2. CASE row \in {[r EXCEPT !.used = TRUE] : r \in hit}
        BY <1>1, <3>2 DEF Reset
      <3> QED
        BY <1>1, <3>1, <3>2
    <2>2. ASSUME NEW row \in resets, ~row.used, row.id # id PROVE row \in resets'
      BY <1>1, <2>2
    <2> HIDE DEF hit
    <2>3. openIds' \subseteq openIds \ {id}
      BY <2>1 DEF openIds
    <2>4. openIds \ {id} \subseteq openIds'
      BY <2>2 DEF openIds
    <2> QED
      BY <2>3, <2>4
  <1>3. hit # {} => id \in openIds
    BY DEF openIds
  <1>4. passwords' = passwords
    BY <1>1 DEF passwords
  <1> HIDE DEF hit
  <1>5. CASE hit # {} /\ redeemed' = [redeemed EXCEPT ![id] = redeemed[id] + 1]
    <2>1. AbstractCodes!Take(id)
      BY <1>1, <1>2, <1>3, <1>4, <1>5 DEF AbstractCodes!Take, openIds, passwords
    <2> QED
      BY <2>1 DEF AbstractCodes!Next
  <1>6. CASE redeemed' = redeemed
    <2>1. AbstractCodes!Lapse
      BY <1>1, <1>2, <1>4, <1>6 DEF AbstractCodes!Lapse, openIds, passwords, TypeOK
    <2> QED
      BY <2>1 DEF AbstractCodes!Next
  <1> QED
    BY <1>1, <1>5, <1>6

\* However its four statements race and fail, and however far replicas lag, the
\* reset of a password behaves as the abstract OneTimeCode: a code is made when
\* no other is open, taken once and while it is open, and a password changes
\* only behind one that was taken (password_reset.go:24-81,
\* auth_service.go:213-310).
THEOREM OneTimeCodeImplemented == Spec => ImplementsOneTimeCode
  <1>1. Init => RowsKnown /\ NewestOnly /\ CodeBehind
    <2> SUFFICES ASSUME Init PROVE RowsKnown /\ NewestOnly /\ CodeBehind
      OBVIOUS
    <2>1. RowsKnown
      BY DEF Init, ResetInit, RowsKnown, CodeSingleUse
    <2>2. NewestOnly
      BY DEF Init, ResetInit, NewestOnly, Inserting, Idle
    <2>3. CodeBehind
      BY DEF Init, AccountsInit, ResetInit, CodeBehind, Idle, Purposes
    <2> QED
      BY <2>1, <2>2, <2>3
  <1>2. TypeOK /\ RowsKnown /\ NewestOnly /\ CodeBehind /\ [Next]_vars
            => (RowsKnown /\ NewestOnly /\ CodeBehind)'
    BY RowsKnownStep, NewestOnlyStep, CodeBehindStep
  <1>3. Init => AbstractCodes!Init
    BY DEF Init, ResetInit, AbstractCodes!Init
  <1>4. TypeOK /\ TypeOK' /\ RowsKnown /\ NewestOnly /\ CodeBehind /\ [Next]_vars
            => [AbstractCodes!Next]_codeVars
    <2> SUFFICES ASSUME TypeOK, TypeOK', RowsKnown, NewestOnly, CodeBehind, [Next]_vars
                 PROVE  [AbstractCodes!Next]_codeVars
      OBVIOUS
    <2>1. ASSUME NEW s \in Requests, Store(s) PROVE [AbstractCodes!Next]_codeVars
      BY <2>1, StoreChanges
    <2>2. ASSUME NEW s \in Requests, NEW id \in Ids, InsertReset(s, id)
          PROVE  AbstractCodes!Next
      BY <2>2, InsertMakes
    <2>3. ASSUME NEW s \in Requests, Consume(s) PROVE AbstractCodes!Next
      BY <2>3, ConsumeTakes
    <2>4. ASSUME NEW s \in Requests, DeletePrevious(s) PROVE AbstractCodes!Next
      <3>1. /\ resets' \subseteq resets /\ overlap \subseteq overlap' /\ users' = users
            /\ UNCHANGED <<owner, redeemed>> /\ overlap' \subseteq Users
        BY <2>4 DEF DeletePrevious, accountVars, TypeOK
      <3> QED
        BY <3>1, RowsLapse DEF AbstractCodes!Next
    <2>5. CASE users' = users /\ resets' \subseteq resets /\ UNCHANGED <<owner, redeemed, overlap>>
      BY <2>5, RowsLapse DEF AbstractCodes!Next, TypeOK
    <2> QED
      BY <2>1, <2>2, <2>3, <2>4, <2>5, ResetsFrame, OnlyStoreWrites
  <1> QED
    BY <1>1, <1>2, <1>3, <1>4, PasswordResetTypeCorrect, PTL
       DEF Spec, ImplementsOneTimeCode, AbstractCodes!Spec, AbstractCodes!vars, codeVars, openIds,
           passwords
=============================================================================
