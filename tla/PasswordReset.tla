--------------------------- MODULE PasswordReset ---------------------------
(***************************************************************************)
(* The reset of a forgotten password: ForgotPassword mails a code,         *)
(* VerifyResetEmail trades the code for a pwd_reset token,                 *)
(* CompletePasswordReset trades the token for a new password, and a        *)
(* scheduled job removes expired codes.  One SQL statement per action.     *)
(*                                                                         *)
(* A code is identified with the reset it was made for: two of the million *)
(* codes being equal is not modelled.                                      *)
(***************************************************************************)
EXTENDS Accounts

CONSTANTS
    Requests,          \* requests in flight at once
    OTPTTL,            \* PASSWORD_RESET_OTP_MINUTES
    ResetTTL,          \* PASSWORD_RESET_JWT_MINUTES
    DefaultResetTTL,   \* the half hour used when that is not positive
    MaxResets,         \* bound: resets ever created
    NoUser             \* the owner of a reset not created yet

ASSUME PasswordResetAssumption ==
    /\ OTPTTL \in Nat
    /\ ResetTTL \in Nat
    /\ DefaultResetTTL \in Nat \ {0}
    /\ MaxResets \in Nat
    /\ NoUser \notin Users

VARIABLES
    resets,         \* the password_resets table on the write pool
    resetReplica,   \* the same table as each replica has replayed it
    request,        \* where each request is
    owner,          \* history: the user each reset was created for, by id
    sent,           \* history: resets whose code reached its user
    redeemed,       \* history: how often each reset's code was accepted
    overlap         \* history: users with a DELETE that missed a pending row

resetVars == <<resets, resetReplica, request, owner, sent, redeemed, overlap>>
vars == <<accountVars, resetVars>>

\* Ids count up with created_at.
Ids == 1..MaxResets
Reset == [id : Ids, user : Users, expires : Nat, used : BOOLEAN]
Created == {i \in Ids : owner[i] # NoUser}

Idle == [pc |-> "idle"]

Slot == [pc : {"idle"}]
        \cup [pc : {"delete", "insert"}, user : Users, expires : Nat]
        \cup [pc : {"consume"}, user : Users, id : Ids]
        \cup [pc : {"store"}, user : Users, password : Passwords]

ResetViews ==
    IF Configured = {} THEN {resets} ELSE {resetReplica[r] : r \in Configured}

IsExpired(row) == clock > row.expires

\* FindByUserID: the unused row of u created last, as a set of at most one.
Pending(table, u) == {row \in table : row.user = u /\ ~row.used}
Latest(table, u) ==
    {row \in Pending(table, u) : \A other \in Pending(table, u) : other.id <= row.id}

-----------------------------------------------------------------------------
(* ForgotPassword. *)

Forgot(s, u) ==
    /\ request[s] = Idle
    /\ \E view \in ReadViews : view[u].exists /\ view[u].active
    /\ request' = [request EXCEPT ![s] =
           [pc |-> "delete", user |-> u, expires |-> clock + OTPTTL]]
    /\ UNCHANGED <<accountVars, resets, resetReplica, owner, sent, redeemed, overlap>>

\* Slip: no DELETE before the INSERT.
DeleteNothing(s) ==
    /\ request[s].pc = "delete"
    /\ request' = [request EXCEPT ![s].pc = "insert"]
    /\ UNCHANGED <<accountVars, resets, resetReplica, owner, sent, redeemed, overlap>>

\* The DELETE that clears the way for the new row; its error is discarded.
\* It misses the row of a request that has deleted but not yet inserted.
DeletePrevious(s) ==
    /\ request[s].pc = "delete"
    /\ LET u == request[s].user IN
         /\ request' = [request EXCEPT ![s].pc = "insert"]
         /\ \/ /\ resets' = {row \in resets : row.user # u}
               /\ overlap' = IF \E t \in Requests :
                                    request[t].pc = "insert" /\ request[t].user = u
                             THEN overlap \cup {u} ELSE overlap
            \/ /\ Faults
               /\ resets' = resets
               /\ overlap' = overlap \cup {u}
    /\ UNCHANGED <<accountVars, resetReplica, owner, sent, redeemed>>

\* The row is inserted and its code mailed; when the answer of INSERT is
\* lost, the row is there and nobody knows its code.
InsertReset(s, id) ==
    /\ request[s].pc = "insert"
    /\ id \notin Created
    /\ \A i \in 1..(id - 1) : i \in Created
    /\ resets' = resets \cup {[id |-> id, user |-> request[s].user,
                               expires |-> request[s].expires, used |-> FALSE]}
    /\ owner' = [owner EXCEPT ![id] = request[s].user]
    /\ sent' = sent \cup {id} \/ (Faults /\ sent' = sent)
    /\ request' = [request EXCEPT ![s] = Idle]
    /\ UNCHANGED <<accountVars, resetReplica, redeemed, overlap>>

-----------------------------------------------------------------------------
(* VerifyResetEmail. *)

\* Slip: the code is looked up whoever it was made for.
VerifyAnybody(s, u, id) ==
    /\ request[s] = Idle
    /\ id \in sent
    /\ \E view \in ReadViews : view[u].exists
    /\ \E view \in ResetViews : \E row \in view :
          ~IsExpired(row) /\ ~row.used /\ row.id = id
    /\ request' = [request EXCEPT ![s] = [pc |-> "consume", user |-> u, id |-> id]]
    /\ UNCHANGED <<accountVars, resets, resetReplica, owner, sent, redeemed, overlap>>

\* The two reads and the checks on what they returned, for somebody who types
\* in u's address and a code that was mailed to its owner.
Verify(s, u, id) ==
    /\ request[s] = Idle
    /\ id \in sent
    /\ \E view \in ReadViews : view[u].exists
    /\ \E view \in ResetViews : \E row \in Latest(view, u) :
          ~IsExpired(row) /\ row.id = id
    /\ request' = [request EXCEPT ![s] = [pc |-> "consume", user |-> u, id |-> id]]
    /\ UNCHANGED <<accountVars, resets, resetReplica, owner, sent, redeemed, overlap>>

TokenTTL == IF ResetTTL = 0 THEN DefaultResetTTL ELSE ResetTTL

\* Slip: UPDATE without "used_at IS NULL", because the read has checked it.
ConsumeUnchecked(s) ==
    /\ request[s].pc = "consume"
    /\ request' = [request EXCEPT ![s] = Idle]
    /\ LET hit == {row \in resets : row.id = request[s].id} IN
         /\ hit # {}
         /\ resets' = (resets \ hit) \cup {[row EXCEPT !.used = TRUE] : row \in hit}
         /\ IssueToken("pwd_reset", request[s].user, TokenTTL)
         /\ redeemed' = [redeemed EXCEPT ![request[s].id] = @ + 1]
    /\ UNCHANGED <<users, replica, clock, resetReplica, owner, sent, overlap>>

\* UPDATE ... WHERE used_at IS NULL on the write pool; touching no row is an
\* error, and so is an answer that is lost.
Consume(s) ==
    /\ request[s].pc = "consume"
    /\ request' = [request EXCEPT ![s] = Idle]
    /\ LET hit == {row \in resets : row.id = request[s].id /\ ~row.used} IN
         /\ resets' = (resets \ hit) \cup {[row EXCEPT !.used = TRUE] : row \in hit}
         /\ \/ /\ hit # {}
               /\ IssueToken("pwd_reset", request[s].user, TokenTTL)
               /\ redeemed' = [redeemed EXCEPT ![request[s].id] = @ + 1]
            \/ /\ hit = {} \/ Faults
               /\ UNCHANGED <<token, redeemed>>
    /\ UNCHANGED <<users, replica, clock, resetReplica, owner, sent, overlap>>

-----------------------------------------------------------------------------
(* CompletePasswordReset: the token again and again while it lasts, with a *)
(* right authenticator code when one is enrolled.                          *)

\* Slip: an empty password is let through.
CompleteEmpty(s, u, password) ==
    /\ request[s] = Idle
    /\ Bears("pwd_reset", u)
    /\ \E view \in ReadViews : view[u].exists
    /\ request' = [request EXCEPT ![s] =
           [pc |-> "store", user |-> u, password |-> NoPassword]]
    /\ UNCHANGED <<accountVars, resets, resetReplica, owner, sent, redeemed, overlap>>

Complete(s, u, password) ==
    /\ request[s] = Idle
    /\ Bears("pwd_reset", u)
    /\ \E view \in ReadViews : view[u].exists
    /\ request' = [request EXCEPT ![s] =
           [pc |-> "store", user |-> u, password |-> password]]
    /\ UNCHANGED <<accountVars, resets, resetReplica, owner, sent, redeemed, overlap>>

Store(s) ==
    /\ request[s].pc = "store"
    /\ Exec(UpdatePassword(users, request[s].user, request[s].password))
    /\ request' = [request EXCEPT ![s] = Idle]
    /\ UNCHANGED <<replica, clock, token, resets, resetReplica, owner, sent,
                   redeemed, overlap>>

-----------------------------------------------------------------------------

\* The cleanup.expired_password_resets job, every 30 minutes.
DeleteExpired ==
    /\ resets' = {row \in resets : ~IsExpired(row)}
    /\ UNCHANGED <<accountVars, resetReplica, request, owner, sent, redeemed, overlap>>

\* A failing statement, a client that goes away or a process that dies.
Abort(s) ==
    /\ Faults
    /\ request[s] # Idle
    /\ request' = [request EXCEPT ![s] = Idle]
    /\ UNCHANGED <<accountVars, resets, resetReplica, owner, sent, redeemed, overlap>>

\* A replica replays both tables.
Replay(r) ==
    /\ CatchUp(r)
    /\ resetReplica' = [resetReplica EXCEPT ![r] = resets]
    /\ UNCHANGED <<resets, request, owner, sent, redeemed, overlap>>

ResetInit ==
    /\ resets = {}
    /\ resetReplica = [r \in Configured |-> {}]
    /\ request = [s \in Requests |-> Idle]
    /\ owner = [i \in Ids |-> NoUser]
    /\ sent = {}
    /\ redeemed = [i \in Ids |-> 0]
    /\ overlap = {}

\* Active and inactive accounts, with a first password.
AccountRow ==
    {[NoRow EXCEPT !.exists = TRUE, !.active = d.active, !.password = d.password] :
        d \in [active : BOOLEAN, password : Passwords]}

Init == AccountsInit(AccountRow) /\ ResetInit

RequestStep(s) ==
    \/ \E u \in Users : Forgot(s, u)
    \/ DeletePrevious(s)
    \/ \E id \in Ids : InsertReset(s, id)
    \/ \E u \in Users, id \in Ids : Verify(s, u, id)
    \/ Consume(s)
    \/ \E u \in Users, password \in Passwords : Complete(s, u, password)
    \/ Store(s)
    \/ Abort(s)

Next == \/ \E s \in Requests : RequestStep(s)
        \/ DeleteExpired
        \/ \E r \in Configured : Replay(r)
        \/ Tick /\ UNCHANGED resetVars

Spec == Init /\ [][Next]_vars

-----------------------------------------------------------------------------

TypeOK ==
    /\ AccountsTypeOK
    /\ resets \subseteq Reset
    /\ resetReplica \in [DOMAIN replica -> SUBSET Reset]
    /\ request \in [Requests -> Slot]
    /\ owner \in [Ids -> Users \cup {NoUser}]
    /\ sent \subseteq Ids
    /\ redeemed \in [Ids -> Nat]
    /\ overlap \subseteq Users

\* A code is accepted once at most, whatever requests race, replicas lag or
\* answers get lost: Consume decides on the write pool
\* (password_reset.go:71-81, auth_service.go:256-272).
CodeSingleUse == \A id \in Ids : redeemed[id] <= 1

\* A code is not accepted any more once a newer one exists for its user, even
\* by a request that had already found it, unless the DELETE before some
\* INSERT for that user had missed a row (password_reset.go:27-38, 71-81).
OldCodeDead ==
    [][\A id, newer \in Ids :
          redeemed'[id] > redeemed[id] /\ id < newer /\ owner[newer] = owner[id]
              => owner[id] \in overlap]_vars

\* A password changes only for a user one of whose mailed codes has been
\* accepted (auth_service.go:270-278, 283-309).
ChangeNeedsCode ==
    [][\A u \in Users :
          users'[u].password # users[u].password =>
              \E id \in sent : owner[id] = u /\ redeemed[id] > 0]_vars

\* A user has one code at a time, as interfaces/password_reset.go:14 has it,
\* except where a DELETE failed or ran between the DELETE and the INSERT of
\* another request: the two statements of Create share no transaction.
OnePending ==
    \A u \in Users \ overlap : Cardinality(Pending(resets, u)) <= 1

AbstractCodes == INSTANCE OneTimeCode
    WITH People <- Users, Codes <- Ids, Nobody <- NoUser,
         open <- {row.id : row \in {r \in resets : ~r.used}}, taken <- redeemed,
         password <- [u \in Users |-> users[u].password], excused <- overlap

\* The four statements of a reset, each request racing the others, implement
\* codes that are open one at a time, taken once and only while they are open,
\* and passwords that change for no other reason
\* (password_reset.go:24-81, auth_service.go:213-310).
ImplementsOneTimeCode == AbstractCodes!Spec
=============================================================================
