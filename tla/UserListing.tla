---------------------------- MODULE UserListing ----------------------------
(***************************************************************************)
(* GET /api/v1/users: the parsing of page and page_size, the two           *)
(* statements of the repository, COUNT and then one page, each on the pool *)
(* the round robin comes to, and the meta of the answer.  A client asks    *)
(* for any page, or walks from page 1 to the last one meta announces while *)
(* rows come and go and the replicas catch up one by one.                  *)
(*                                                                         *)
(* A list holds the users who match the client's filter, newest first.  No *)
(* row is ever deleted: a user leaves the list by a change of role.        *)
(***************************************************************************)
EXTENDS Integers, Sequences, FiniteSets, SequencesExt

CONSTANTS
    Users,            \* the users there may be
    MaxReplicas,      \* at most so many read replicas
    MaxChanges,       \* bound: so many rows join or leave the list
    CounterSize,      \* the round robin counts modulo this, 2^64 in the code
    MaxInt,           \* the largest int, 2^63 - 1 in the code
    DefaultPageSize, MaxPageSize,
    RawPages,         \* what Atoi makes of page
    RawSizes          \* and of page_size

defaultPage == 1

ASSUME ListingAssumption ==
    /\ MaxReplicas \in Nat /\ MaxChanges \in Nat
    /\ CounterSize \in Nat \ {0} /\ MaxInt \in Nat \ {0}
    /\ IsFiniteSet(Users) /\ Cardinality(Users) <= MaxInt
    /\ MaxPageSize \in Nat /\ DefaultPageSize \in 1..MaxPageSize
    /\ RawPages \cup RawSizes \subseteq -MaxInt-1 .. MaxInt

VARIABLES
    table,      \* the list on the write pool
    view,       \* per configured replica, the list it has replayed
    rr,         \* DB.rr
    changes,    \* how many rows have joined or left
    phase,      \* what the request is doing
    walking,    \* whether the client goes on to the next page
    page, size, \* the parsed parameters
    total,      \* what COUNT has returned
    counted,    \* history: the list it has counted, until the page is read
    answer,     \* the rows of the page
    same,       \* history: whether COUNT and the page saw the same list
    seen,       \* history: the users on the pages of this walk
    expected,   \* history: the users listed when the walk began
    shrunk      \* history: somebody has left a list that is read since

dataVars == <<table, view, rr, changes>>
clientVars == <<phase, walking, page, size, total, counted, answer, same, seen, expected>>
listVars == <<dataVars, clientVars, shrunk>>

-----------------------------------------------------------------------------
(* lib/pagination.go *)

\* A product of two ints, in two's complement.
Wrap(n) == LET m == n % (2 * (MaxInt + 1))
           IN IF m > MaxInt THEN m - 2 * (MaxInt + 1) ELSE m

ParsePage(raw) == IF raw < 1 THEN defaultPage ELSE raw

\* Slip: page_size is not capped.
ParseSizeUncapped(raw) == IF raw < 1 THEN DefaultPageSize ELSE raw

ParseSize(raw) == IF raw < 1 \/ raw > MaxPageSize THEN DefaultPageSize ELSE raw

\* Slip: pages counted from zero.
OffsetFromZero(p, s) == Wrap(p * s)

Offset(p, s) == Wrap((p - 1) * s)

\* Slip: the last, short page is not counted.
TotalPagesDown(n, s) == n \div s

TotalPages(n, s) == n \div s + (IF n % s > 0 THEN 1 ELSE 0)

\* Slip: LIMIT taken for the last row's number.
RowsUpTo(list, p, s) ==
    SubSeq(list, Offset(p, s) + 1, IF s < Len(list) THEN s ELSE Len(list))

\* ORDER BY created_at DESC LIMIT s OFFSET ...
Rows(list, p, s) ==
    SubSeq(list, Offset(p, s) + 1,
           IF Offset(p, s) + s < Len(list) THEN Offset(p, s) + s ELSE Len(list))

-----------------------------------------------------------------------------
(* The pools. *)

Replicas == DOMAIN view     \* 0 .. len(db.read) - 1

\* DB.Read: the pool a statement runs on, and the counter it leaves behind.
ReadList == IF Replicas = {} THEN table ELSE view[rr % Cardinality(Replicas)]
CountRead == rr' = IF Replicas = {} THEN rr ELSE (rr + 1) % CounterSize

OtherRead ==
    /\ Replicas # {}
    /\ CountRead
    /\ UNCHANGED <<table, view, changes, clientVars, shrunk>>

\* All who were listed still are, in the same order.
Keeps(old, new) ==
    \E at \in [1..Len(old) -> 1..Len(new)] :
        /\ \A i \in 1..Len(old) : new[at[i]] = old[i]
        /\ \A i, j \in 1..Len(old) : i < j => at[i] < at[j]

Changing == changes < MaxChanges /\ changes' = changes + 1

\* A row is inserted, or a role changed to the one asked for.  created_at is
\* the start of the transaction: a row may turn up below a younger one.
Join(u) ==
    /\ Changing
    /\ u \notin ToSet(table)
    /\ \E i \in 1..Len(table) + 1 : table' = InsertAt(table, i, u)
    /\ UNCHANGED <<view, rr, clientVars, shrunk>>

Leave(u) ==
    /\ Changing
    /\ \E i \in 1..Len(table) : table[i] = u /\ table' = RemoveAt(table, i)
    /\ shrunk' = (shrunk \/ (walking /\ Replicas = {}))
    /\ UNCHANGED <<view, rr, clientVars>>

CatchUp(r) ==
    /\ view' = [view EXCEPT ![r] = table]
    /\ shrunk' = (shrunk \/ (walking /\ ~Keeps(view[r], table)))
    /\ UNCHANGED <<table, rr, changes, clientVars>>

-----------------------------------------------------------------------------
(* Requests. *)

StartWalk(raw) ==
    /\ phase = "idle"
    /\ phase' = "count"
    /\ walking' = TRUE
    /\ page' = ParsePage(1)
    /\ size' = ParseSize(raw)
    /\ expected' = ToSet(ReadList)
    /\ shrunk' = FALSE
    /\ UNCHANGED <<dataVars, total, counted, answer, same, seen>>

Ask(rawPage, rawSize) ==
    /\ phase = "idle"
    /\ phase' = "count"
    /\ page' = ParsePage(rawPage)
    /\ size' = ParseSize(rawSize)
    /\ UNCHANGED <<dataVars, walking, total, counted, answer, same, seen, expected, shrunk>>

Count ==
    /\ phase = "count"
    /\ phase' = "page"
    /\ total' = Len(ReadList)
    /\ counted' = ReadList
    /\ CountRead
    /\ UNCHANGED <<table, view, changes, walking, page, size, answer, same, seen, expected, shrunk>>

\* A negative OFFSET is an error of PostgreSQL and the answer 500.
GetPage ==
    /\ phase = "page"
    /\ IF Offset(page, size) < 0
       THEN /\ phase' = "failed"
            /\ UNCHANGED <<answer, same, seen>>
       ELSE /\ phase' = "answered"
            /\ answer' = Rows(ReadList, page, size)
            /\ same' = (ReadList = counted)
            /\ seen' = IF walking THEN seen \cup ToSet(answer') ELSE seen
    /\ counted' = <<>>
    /\ CountRead
    /\ UNCHANGED <<table, view, changes, walking, page, size, total, expected, shrunk>>

LastPage == page >= TotalPages(total, size)

NextPage ==
    /\ phase = "answered"
    /\ walking
    /\ ~LastPage
    /\ page' = page + 1
    /\ phase' = "count"
    /\ answer' = <<>>
    /\ UNCHANGED <<dataVars, walking, size, total, counted, same, seen, expected, shrunk>>

\* Nothing is kept of a request that is over, nor of the walk it belonged to.
Forget ==
    /\ phase' = "idle" /\ walking' = FALSE
    /\ page' = defaultPage /\ size' = DefaultPageSize
    /\ total' = 0 /\ counted' = <<>> /\ answer' = <<>> /\ same' = TRUE
    /\ seen' = {} /\ expected' = {} /\ shrunk' = FALSE

Finish ==
    /\ phase \in {"answered", "failed"}
    /\ walking => LastPage
    /\ Forget
    /\ UNCHANGED dataVars

\* COUNT or the page fails for a reason of its own; the pool has been taken.
\* The answer is a 500, and a client that walks gives up.
QueryFails ==
    /\ phase \in {"count", "page"}
    /\ Forget
    /\ CountRead
    /\ UNCHANGED <<table, view, changes>>

-----------------------------------------------------------------------------

Lists == {l \in UNION {[1..n -> Users] : n \in 0..Cardinality(Users)} : IsInjective(l)}

ListInit ==
    /\ table \in Lists
    /\ \E n \in 0..MaxReplicas : view = [r \in 0..n - 1 |-> table]
    /\ rr = 0
    /\ changes = 0
    /\ phase = "idle" /\ walking = FALSE
    /\ page = defaultPage /\ size = DefaultPageSize
    /\ total = 0 /\ counted = <<>> /\ answer = <<>> /\ same = TRUE
    /\ seen = {} /\ expected = {} /\ shrunk = FALSE

ListNext ==
    \/ \E raw \in RawSizes : StartWalk(raw)
    \/ \E rawPage \in RawPages, rawSize \in RawSizes : Ask(rawPage, rawSize)
    \/ Count \/ GetPage \/ QueryFails \/ NextPage \/ Finish
    \/ \E u \in Users : Join(u) \/ Leave(u)
    \/ \E r \in Replicas : CatchUp(r)
    \/ OtherRead

ListSpec == ListInit /\ [][ListNext]_listVars

-----------------------------------------------------------------------------

ListTypeOK ==
    /\ {table, counted, answer} \subseteq Lists
    /\ \E n \in 0..MaxReplicas : view \in [0..n - 1 -> Lists]
    /\ rr \in 0..CounterSize - 1 /\ changes \in 0..MaxChanges
    /\ phase \in {"idle", "count", "page", "answered", "failed"}
    /\ {walking, same, shrunk} \subseteq BOOLEAN
    /\ page \in 1..MaxInt /\ total \in 0..Cardinality(Users)
    /\ size \in 1..MaxPageSize
    /\ seen \cup expected \subseteq Users

Fits(p, s) == (p - 1) * s <= MaxInt

\* On a list that stands still, every user is on exactly one of the pages meta
\* announces, none of which is empty, and nobody is on a page after them, as
\* long as the offset is an int: whatever page_size says
\* (pagination.go:22-24, 36-62, user.go:109-113).
PagesPartition ==
    \A raw \in RawSizes :
        LET s == ParseSize(raw)
            last == TotalPages(Len(table), s)
            On(p) == ToSet(Rows(table, p, s))
        IN /\ \A u \in ToSet(table) : Cardinality({p \in 1..last : u \in On(p)}) = 1
           /\ \A p \in 1..MaxInt : Fits(p, s) => (On(p) # {} <=> p <= last)

\* Rows and meta of an answer agree on whether the page exists, and the request
\* does not fail, unless the list has changed between the two statements, on
\* the pool or from one replica to the next, or the offset overflows
\* (user.go:100-116, database.go:26, pagination.go:23).
MetaAgrees ==
    Fits(page, size) =>
        /\ phase # "failed"
        /\ phase = "answered" /\ same =>
               (answer # <<>> <=> page <= TotalPages(total, size))

\* A client that walks to the last page meta announces has seen everybody who
\* was listed when it began, however many join on the way: when there is one
\* pool to read from, nobody leaves the list, and nobody joins between the two
\* statements of the last answer (user.go:78-131).
WalkMissesNobody ==
    /\ phase = "answered" /\ walking /\ LastPage
    /\ Cardinality(Replicas) <= 1
    /\ ~shrunk
    /\ same
    => expected \subseteq seen
=============================================================================
