-------------------------- MODULE ListRouteProofs --------------------------
(* GET /api/v1/users, a component after the other: the rate limiter in     *)
(* front of the handler, and the list behind it.                           *)
EXTENDS UserListing, RateLimiter, FiniteSetTheorems, SequenceTheorems,
        WellFoundedInduction, TLAPS

-----------------------------------------------------------------------------
\* Every set of natural numbers with an element has a least one.
LEMMA LeastOf ==
    ASSUME NEW T \in SUBSET Nat, T # {}
    PROVE  \E n \in T : \A m \in T : n <= m
  <1>1. PICK n \in T : \A m \in T : ~ (<<m, n>> \in OpToRel(<, Nat))
    BY NatLessThanWellFounded, WFMin
  <1>2. \A m \in T : ~(m < n)
    BY <1>1 DEF OpToRel
  <1> QED
    BY <1>2

-----------------------------------------------------------------------------
(* The rate limiter. *)

USE RateLimiterAssumption DEF RateLimiterAssumption


\* A request that is let through becomes the youngest of the window.
LEMMA AdmitSeq ==
    ASSUME admitted \in Seq(Ages), Admit
    PROVE  /\ admitted' \in Seq(Ages)
           /\ Len(admitted') = Len(admitted) + 1
           /\ admitted'[1] = 0
           /\ \A i \in 1..Len(admitted) : admitted'[i + 1] = admitted[i]
  <1>1. <<0>> \in Seq(Ages) /\ Len(<<0>>) = 1 /\ <<0>>[1] = 0
    BY DEF Ages
  <1>2. admitted' = <<0>> \o admitted
    BY DEF Admit
  <1>3. Len(admitted) \in Nat
    BY LenProperties
  <1> QED
    BY <1>1, <1>2, <1>3, ConcatProperties

\* A tick keeps a first part of the window, a tick older, and drops the rest,
\* which is a window old.
LEMMA GrowOlderSeq ==
    ASSUME admitted \in Seq(Ages), GrowOlder
    PROVE  /\ admitted' \in Seq(Ages)
           /\ Len(admitted') <= Len(admitted)
           /\ \A i \in 1..Len(admitted') : admitted'[i] = admitted[i] + 1
           /\ \A i \in 1..Len(admitted) : i > Len(admitted') => admitted[i] >= Window - 1
  <1>1. Len(admitted) \in Nat /\ \A i \in 1..Len(admitted) : admitted[i] \in Ages
    BY LenProperties
  <1>2. PICK n \in 0..Len(admitted) :
            /\ \A i \in 1..Len(admitted) : i <= n <=> admitted[i] + 1 \in Ages
            /\ admitted' = [i \in 1..n |-> admitted[i] + 1]
    BY DEF GrowOlder
  <1>3. \A i \in 1..n : admitted[i] + 1 \in Ages
    BY <1>1, <1>2
  <1>4. admitted' \in Seq(Ages) /\ Len(admitted') = n
    BY <1>1, <1>2, <1>3
  <1>5. \A i \in 1..n : admitted'[i] = admitted[i] + 1
    BY <1>2
  <1>6. ASSUME NEW i \in 1..Len(admitted), i > n PROVE admitted[i] >= Window - 1
    <2>1. admitted[i] \in Ages /\ admitted[i] + 1 \notin Ages
      BY <1>1, <1>2, <1>6
    <2>2. Window \in Nat
      OBVIOUS
    <2> QED
      BY <2>1, <2>2 DEF Ages
  <1>7. n <= Len(admitted)
    BY <1>1, <1>2
  <1> QED
    BY <1>4, <1>5, <1>6, <1>7

\* Every state of the rate limiter is well formed, for any limit, window and
\* number of requests.
THEOREM RateLimiterTypeCorrect == Spec => []TypeOK
  <1>1. Init => TypeOK
    <2> SUFFICES ASSUME Init PROVE TypeOK
      OBVIOUS
    <2>1. count \in 0..CountCap /\ ttl \in 0..Window
      BY DEF Init
    <2>2. /\ request \in [Requests -> {"idle", "expire"}]
          /\ lost \in BOOLEAN
      BY DEF Init
    <2>3. admitted \in Seq(Ages)
      BY DEF Init
    <2> QED
      BY <2>1, <2>2, <2>3 DEF TypeOK
  <1>2. TypeOK /\ [Next]_vars => TypeOK'
    <2> SUFFICES ASSUME TypeOK, [Next]_vars PROVE TypeOK'
      OBVIOUS
    <2>a. Admit => admitted' \in Seq(Ages)
      BY AdmitSeq DEF TypeOK
    <2>1. ASSUME NEW s \in Requests, Incr(s) PROVE TypeOK'
      BY <2>1, <2>a DEF Incr, TypeOK
    <2>2. ASSUME NEW s \in Requests, Expire(s) PROVE TypeOK'
      BY <2>2 DEF Expire, TypeOK
    <2>3. ASSUME NEW s \in Requests, FailOpen(s) PROVE TypeOK'
      BY <2>3 DEF FailOpen, TypeOK
    <2>4. ASSUME NEW s \in Requests, LoseExpire(s) PROVE TypeOK'
      BY <2>4 DEF LoseExpire, TypeOK
    <2>5. CASE Tick
      <3>1. admitted' \in Seq(Ages)
        BY <2>5, GrowOlderSeq DEF Tick, TypeOK
      <3>2. count' \in 0..CountCap /\ ttl' \in 0..Window
        BY <2>5 DEF Tick, TypeOK
      <3>3. request' = request /\ (lost' = lost \/ lost' = FALSE)
        BY <2>5 DEF Tick
      <3> QED
        BY <3>1, <3>2, <3>3 DEF TypeOK
    <2>6. CASE UNCHANGED vars
      BY <2>6 DEF vars, TypeOK
    <2> QED
      BY <2>1, <2>2, <2>3, <2>4, <2>5, <2>6 DEF Next
  <1> QED
    BY <1>1, <1>2, PTL DEF Spec

\* A key with a life has nobody left to give it one, and a request that is
\* about to has a key without; a counter that is gone is not on record as lost.
OneLife ==
    /\ \A s \in Requests : request[s] = "expire" => count > 0 /\ ttl = 0
    /\ ttl > 0 => count > 0
    /\ lost => count > 0
    /\ OneExpirePending

\* However requests race for the creation of a key, one of them and no other
\* sets its life; only a lost EXPIRE leaves a key without (rate_limit.go:50-57).
THEOREM OneExpirePendingSafe == Spec => []OneExpirePending
  <1>1. Init => OneLife
    BY DEF Init, OneLife, OneExpirePending
  <1>2. TypeOK /\ OneLife /\ [Next]_vars => OneLife'
    <2> SUFFICES ASSUME TypeOK, OneLife, [Next]_vars PROVE OneLife'
      OBVIOUS
    <2>1. ASSUME NEW s \in Requests, Incr(s) PROVE OneLife'
      <3>1. CASE count = 0
        <4>1. /\ ttl = 0 /\ ~lost /\ \A t \in Requests : request[t] # "expire"
          BY <3>1 DEF OneLife, TypeOK
        <4>2. /\ count' = 1 /\ ttl' = 0 /\ ~lost'
              /\ request' = [request EXCEPT ![s] = "expire"]
          BY <2>1, <3>1, <4>1 DEF Incr
        <4> QED
          BY <4>1, <4>2 DEF OneLife, OneExpirePending, TypeOK
      <3>2. CASE count # 0
        <4>1. count' > 0 /\ count > 0 /\ UNCHANGED <<request, ttl, lost>>
          BY <2>1, <3>2 DEF Incr, TypeOK
        <4> QED
          BY <4>1 DEF OneLife, OneExpirePending
      <3> QED
        BY <3>1, <3>2
    <2>2. ASSUME NEW s \in Requests, Expire(s) PROVE OneLife'
      <3>1. /\ count > 0 /\ ttl' = Window /\ UNCHANGED <<count, lost>>
            /\ request' = [request EXCEPT ![s] = "idle"]
        BY <2>2 DEF Expire, OneLife
      <3>2. \A t \in Requests : request'[t] # "expire"
        BY <2>2, <3>1 DEF Expire, OneLife, OneExpirePending, TypeOK
      <3> QED
        BY <3>1, <3>2 DEF OneLife, OneExpirePending
    <2>3. ASSUME NEW s \in Requests, FailOpen(s) PROVE OneLife'
      <3>1. count \in Nat /\ count' = count + 1 /\ count' > 0 /\ UNCHANGED <<request, ttl>>
        BY <2>3 DEF FailOpen, TypeOK
      <3>2. CASE count = 0
        <4>1. lost'
          BY <2>3, <3>2 DEF FailOpen
        <4>2. \A t \in Requests : request[t] # "expire"
          BY <3>2 DEF OneLife
        <4> QED
          BY <3>1, <4>1, <4>2 DEF OneLife, OneExpirePending
      <3>3. CASE count # 0
        <4>1. lost' = lost /\ count > 0
          BY <2>3, <3>1, <3>3 DEF FailOpen, TypeOK
        <4> QED
          BY <3>1, <4>1 DEF OneLife, OneExpirePending
      <3> QED
        BY <3>2, <3>3
    <2>4. ASSUME NEW s \in Requests, LoseExpire(s) PROVE OneLife'
      BY <2>4 DEF LoseExpire, OneLife, OneExpirePending, TypeOK
    <2>5. CASE Tick
      BY <2>5 DEF Tick, OneLife, OneExpirePending, TypeOK
    <2>6. CASE UNCHANGED vars
      BY <2>6 DEF vars, OneLife, OneExpirePending
    <2> QED
      BY <2>1, <2>2, <2>3, <2>4, <2>5, <2>6 DEF Next
  <1>3. OneLife => OneExpirePending
    BY DEF OneLife
  <1> QED
    BY <1>1, <1>2, <1>3, RateLimiterTypeCorrect, PTL DEF Spec

\* A window's admissions are kept youngest first.
YoungestFirst ==
    \A i, j \in 1..Len(admitted) : i < j => admitted[i] <= admitted[j]

\* Time is never held up: there is always a place where the admissions that are
\* a window old begin, which is what a tick drops (rate_limit.go:54-57).
OldOnesLast ==
    \E n \in 0..Len(admitted) :
        \A i \in 1..Len(admitted) : i <= n <=> admitted[i] + 1 \in Ages

\* The time of the model goes on in every reachable state, so the bound below
\* is not one on a clock that has stopped.
THEOREM TimeGoesOn == Spec => []OldOnesLast
  <1>1. Init => YoungestFirst
    BY DEF Init, YoungestFirst
  <1>2. TypeOK /\ YoungestFirst /\ [Next]_vars => YoungestFirst'
    <2> SUFFICES ASSUME TypeOK, YoungestFirst, [Next]_vars PROVE YoungestFirst'
      OBVIOUS
    <2>1. CASE Admit
      <3>1. Len(admitted) \in Nat /\ \A i \in 1..Len(admitted) : admitted[i] \in 0..Window - 1
        BY LenProperties DEF TypeOK, Ages
      <3>2. /\ Len(admitted') = Len(admitted) + 1 /\ admitted'[1] = 0
            /\ \A i \in 1..Len(admitted) : admitted'[i + 1] = admitted[i]
        BY <2>1, AdmitSeq DEF TypeOK
      <3>3. ASSUME NEW i \in 1..Len(admitted'), NEW j \in 1..Len(admitted'), i < j
            PROVE  admitted'[i] <= admitted'[j]
        <4>1. j - 1 \in 1..Len(admitted) /\ (j - 1) + 1 = j
          BY <3>1, <3>2, <3>3
        <4>2. admitted'[j] = admitted[j - 1] /\ admitted[j - 1] \in 0..Window - 1
          BY <3>1, <3>2, <4>1
        <4>3. CASE i = 1
          BY <3>2, <4>2, <4>3
        <4>4. CASE i # 1
          <5>1. i - 1 \in 1..Len(admitted) /\ (i - 1) + 1 = i /\ i - 1 < j - 1
            BY <3>1, <3>2, <3>3, <4>4
          <5>2. admitted'[i] = admitted[i - 1] /\ admitted[i - 1] <= admitted[j - 1]
            BY <3>2, <4>1, <5>1 DEF YoungestFirst
          <5> QED
            BY <4>2, <5>2
        <4> QED
          BY <4>3, <4>4
      <3> QED
        BY <3>3 DEF YoungestFirst
    <2>2. CASE Tick
      <3>1. /\ Len(admitted) \in Nat /\ Len(admitted') \in Nat
            /\ \A i \in 1..Len(admitted) : admitted[i] \in Nat
        BY <2>2, LenProperties, GrowOlderSeq DEF TypeOK, Tick, Ages
      <3>2. /\ Len(admitted') <= Len(admitted)
            /\ \A i \in 1..Len(admitted') : admitted'[i] = admitted[i] + 1
        BY <2>2, GrowOlderSeq DEF TypeOK, Tick
      <3> QED
        BY <3>1, <3>2 DEF YoungestFirst
    <2>3. CASE admitted' = admitted
      BY <2>3 DEF YoungestFirst
    <2>4. Next => Admit \/ Tick \/ admitted' = admitted
      BY DEF Next, Incr, Expire, FailOpen, LoseExpire
    <2> QED
      BY <2>1, <2>2, <2>3, <2>4 DEF vars
  <1>3. TypeOK /\ YoungestFirst => OldOnesLast
    <2> SUFFICES ASSUME TypeOK, YoungestFirst PROVE OldOnesLast
      OBVIOUS
    <2>1. Len(admitted) \in Nat /\ \A i \in 1..Len(admitted) : admitted[i] \in 0..Window - 1
      BY LenProperties DEF TypeOK, Ages
    <2> DEFINE Old == {i \in 1..Len(admitted) : admitted[i] + 1 \notin Ages}
    <2>2. CASE Old = {}
      <3>1. \A i \in 1..Len(admitted) : i <= Len(admitted) <=> admitted[i] + 1 \in Ages
        BY <2>1, <2>2
      <3>2. Len(admitted) \in 0..Len(admitted)
        BY <2>1
      <3> HIDE DEF Old
      <3> QED
        BY <3>1, <3>2, Zenon DEF OldOnesLast
    <2>3. CASE Old # {}
      <3>0. Old \in SUBSET Nat
        BY <2>1
      <3>1. PICK o \in Old : \A i \in Old : o <= i
        <4> HIDE DEF Old
        <4> QED
          BY <3>0, <2>3, LeastOf
      <3>2. o \in 1..Len(admitted) /\ o - 1 \in 0..Len(admitted) /\ admitted[o] + 1 > Window - 1
        BY <2>1, <3>1 DEF Ages
      <3>3. ASSUME NEW i \in 1..Len(admitted)
            PROVE  i <= o - 1 <=> admitted[i] + 1 \in Ages
        <4>1. CASE i < o
          BY <2>1, <3>1, <3>2, <4>1
        <4>2. CASE i >= o
          <5>1. admitted[o] <= admitted[i]
            BY <2>1, <3>2, <4>2 DEF YoungestFirst
          <5> QED
            BY <2>1, <3>2, <4>2, <5>1 DEF Ages
        <4> QED
          BY <2>1, <3>2, <4>1, <4>2
      <3> QED
        BY <3>2, <3>3 DEF OldOnesLast
    <2> QED
      BY <2>2, <2>3
  <1> QED
    BY <1>1, <1>2, <1>3, RateLimiterTypeCorrect, PTL DEF Spec

\* The last k admissions were made in the life of the present key, and no more
\* than a limit before; those are as old, at least, as the present key has lived.
TwoLives ==
    \E k \in 0..MaxCount :
        /\ k <= count
        /\ Len(admitted) <= k + MaxCount
        /\ \A i \in k + 1..Len(admitted) : ttl > 0 => admitted[i] >= Window - ttl

\* Who is let through belongs to the present key: a limit of them at most.
LEMMA AdmitKeeps ==
    ASSUME TypeOK, TwoLives, Admit, count' = count + 1, count' <= MaxCount, ttl' = ttl
    PROVE  TwoLives'
  <1>1. PICK k \in 0..MaxCount :
            /\ k <= count
            /\ Len(admitted) <= k + MaxCount
            /\ \A i \in k + 1..Len(admitted) : ttl > 0 => admitted[i] >= Window - ttl
    BY DEF TwoLives
  <1>2. /\ Len(admitted') = Len(admitted) + 1
        /\ \A i \in 1..Len(admitted) : admitted'[i + 1] = admitted[i]
    BY AdmitSeq DEF TypeOK
  <1>3. Len(admitted) \in Nat /\ count \in Nat /\ k + 1 \in 0..MaxCount
    BY <1>1, LenProperties DEF TypeOK
  <1>4. ASSUME NEW i \in (k + 1) + 1..Len(admitted'), ttl' > 0
        PROVE  admitted'[i] >= Window - ttl'
    <2>1. i - 1 \in k + 1..Len(admitted) /\ i - 1 \in 1..Len(admitted) /\ (i - 1) + 1 = i
      BY <1>2, <1>3
    <2>2. admitted'[i] = admitted[i - 1]
      BY <1>2, <2>1
    <2> QED
      BY <1>1, <1>4, <2>1, <2>2
  <1>5. k + 1 <= count' /\ Len(admitted') <= (k + 1) + MaxCount
    BY <1>1, <1>2, <1>3
  <1> QED
    BY <1>3, <1>4, <1>5 DEF TwoLives

\* When the key goes away, what was admitted before it is a window old, and what
\* was admitted in its life is what may be left of a limit.
LEMMA TickKeeps ==
    ASSUME TypeOK, TwoLives, Tick
    PROVE  TwoLives'
  <1>1. PICK k \in 0..MaxCount :
            /\ k <= count
            /\ Len(admitted) <= k + MaxCount
            /\ \A i \in k + 1..Len(admitted) : ttl > 0 => admitted[i] >= Window - ttl
    BY DEF TwoLives
  <1>2. /\ Len(admitted') <= Len(admitted)
        /\ \A i \in 1..Len(admitted') : admitted'[i] = admitted[i] + 1
        /\ \A i \in 1..Len(admitted) : i > Len(admitted') => admitted[i] >= Window - 1
    BY GrowOlderSeq DEF TypeOK, Tick
  <1>3. /\ Len(admitted) \in Nat /\ Len(admitted') \in Nat
        /\ \A i \in 1..Len(admitted) : admitted[i] \in 0..Window - 1
        /\ count \in Nat /\ ttl \in 0..Window
    BY LenProperties, GrowOlderSeq DEF TypeOK, Tick, Ages
  \* The key is removed: what was admitted in an earlier life is a window old.
  <1>4. CASE ttl = 1
    <2>1. count' = 0 /\ ttl' = 0
      BY <1>4 DEF Tick
    <2>2. Len(admitted') <= k
      <3> SUFFICES ASSUME Len(admitted') > k PROVE FALSE
        BY <1>3
      <3> DEFINE i == Len(admitted')
      <3>1. i \in 1..Len(admitted) /\ i \in k + 1..Len(admitted) /\ i \in 1..Len(admitted')
        BY <1>2, <1>3
      <3>2. admitted[i] >= Window - 1 /\ admitted'[i] = admitted[i] + 1
        BY <1>1, <1>2, <1>4, <3>1
      <3>3. admitted'[i] \in Ages
        BY <3>1, LenProperties, GrowOlderSeq DEF TypeOK, Tick
      <3> QED
        BY <1>3, <3>1, <3>2, <3>3 DEF Ages
    <2>3. 0 \in 0..MaxCount /\ 0 <= count' /\ Len(admitted') <= 0 + MaxCount
      BY <1>3, <2>1, <2>2
    <2>4. \A i \in 0 + 1..Len(admitted') : ttl' > 0 => admitted'[i] >= Window - ttl'
      BY <2>1
    <2> QED
      BY <2>3, <2>4 DEF TwoLives
  <1>5. CASE ttl # 1
    <2>1. count' = count /\ ttl' = IF ttl > 0 THEN ttl - 1 ELSE 0
      BY <1>5 DEF Tick
    <2>2. Len(admitted') <= k + MaxCount
      BY <1>1, <1>2, <1>3
    <2>3. ASSUME NEW i \in k + 1..Len(admitted'), ttl' > 0
          PROVE  admitted'[i] >= Window - ttl'
      <3>1. i \in k + 1..Len(admitted) /\ i \in 1..Len(admitted') /\ i \in 1..Len(admitted)
        BY <1>2, <1>3
      <3>2. ttl > 0 /\ ttl' = ttl - 1
        BY <1>3, <2>1, <2>3
      <3>3. admitted[i] >= Window - ttl /\ admitted'[i] = admitted[i] + 1
        BY <1>1, <1>2, <3>1, <3>2
      <3> QED
        BY <1>3, <3>1, <3>2, <3>3
    <2> QED
      BY <1>1, <2>1, <2>2, <2>3 DEF TwoLives
  <1> QED
    BY <1>4, <1>5

\* The counter lets through twice its limit at most in any stretch of one
\* window, whatever the number of requests, the limit and the window, and even
\* when Redis answers late or not at all (rate_limit.go:50-63).
THEOREM TwoWindowBoundSafe == Spec => []TwoWindowBound
  <1>1. Init => TwoLives
    <2> SUFFICES ASSUME Init PROVE TwoLives
      OBVIOUS
    <2>1. Len(admitted) = 0 /\ count = 0 /\ 0 \in 0..MaxCount
      BY DEF Init
    <2> QED
      BY <2>1 DEF TwoLives
  <1>2. TypeOK /\ TwoLives /\ [Next]_vars => TwoLives'
    <2> SUFFICES ASSUME TypeOK, TwoLives, [Next]_vars PROVE TwoLives'
      OBVIOUS
    <2>a. count \in Nat /\ Len(admitted) \in Nat
          /\ \A i \in 1..Len(admitted) : admitted[i] \in 0..Window - 1
      BY LenProperties DEF TypeOK, Ages
    <2>b. count' = count + 1 /\ UNCHANGED <<admitted, ttl>> => TwoLives'
      <3> SUFFICES ASSUME count' = count + 1, UNCHANGED <<admitted, ttl>> PROVE TwoLives'
        OBVIOUS
      <3>1. PICK k \in 0..MaxCount :
                /\ k <= count
                /\ Len(admitted) <= k + MaxCount
                /\ \A i \in k + 1..Len(admitted) : ttl > 0 => admitted[i] >= Window - ttl
        BY DEF TwoLives
      <3>2. k <= count'
        BY <2>a, <3>1
      <3> QED
        BY <3>1, <3>2 DEF TwoLives
    <2>1. ASSUME NEW s \in Requests, Incr(s) PROVE TwoLives'
      <3>1. CASE count' <= MaxCount
        BY <2>1, <3>1, AdmitKeeps DEF Incr
      <3>2. CASE ~(count' <= MaxCount)
        BY <2>1, <2>b, <3>2 DEF Incr
      <3> QED
        BY <3>1, <3>2
    <2>2. ASSUME NEW s \in Requests, Expire(s) PROVE TwoLives'
      <3>1. UNCHANGED <<count, admitted>> /\ (ttl' = Window \/ ttl' = 0)
        BY <2>2 DEF Expire
      <3>2. PICK k \in 0..MaxCount : k <= count /\ Len(admitted) <= k + MaxCount
        BY DEF TwoLives
      <3>3. \A i \in k + 1..Len(admitted) : admitted[i] >= 0
        BY <2>a, <3>2
      <3> QED
        BY <3>1, <3>2, <3>3 DEF TwoLives
    <2>3. ASSUME NEW s \in Requests, FailOpen(s) PROVE TwoLives'
      BY <2>3, <2>b DEF FailOpen
    <2>4. ASSUME NEW s \in Requests, LoseExpire(s) PROVE TwoLives'
      BY <2>4 DEF LoseExpire, TwoLives
    <2>5. CASE Tick
      BY <2>5, TickKeeps
    <2>6. CASE UNCHANGED vars
      BY <2>6 DEF vars, TwoLives
    <2> QED
      BY <2>1, <2>2, <2>3, <2>4, <2>5, <2>6 DEF Next
  <1>3. TypeOK /\ TwoLives => TwoWindowBound
    BY LenProperties DEF TypeOK, TwoLives, TwoWindowBound, InWindow
  <1> QED
    BY <1>1, <1>2, <1>3, RateLimiterTypeCorrect, PTL DEF Spec

-----------------------------------------------------------------------------
(* Lists and pages. *)

HIDE RateLimiterAssumption DEF RateLimiterAssumption

\* A list is a sequence without repetition, no longer than there are users.
LEMMA ListFacts ==
    ASSUME NEW l \in Lists
    PROVE  /\ l \in Seq(Users)
           /\ IsInjective(l)
           /\ Len(l) \in 0..Cardinality(Users) /\ Len(l) \in Nat
           /\ DOMAIN l = 1..Len(l)
           /\ ToSet(l) = {l[i] : i \in 1..Len(l)}
  <1>1. PICK n \in 0..Cardinality(Users) : l \in [1..n -> Users]
    BY DEF Lists
  <1>2. Cardinality(Users) \in Nat
    BY ListingAssumption, FS_CardinalityType DEF ListingAssumption
  <1>3. n \in Nat /\ l \in Seq(Users) /\ Len(l) = n
    BY <1>1, <1>2
  <1>4. DOMAIN l = 1..Len(l)
    BY <1>1, <1>3
  <1> QED
    BY <1>1, <1>2, <1>3, <1>4 DEF Lists, ToSet

\* A sequence of users without repetition is a list.
LEMMA InLists ==
    ASSUME NEW l \in Seq(Users), IsInjective(l)
    PROVE  l \in Lists
  <1>1. Len(l) \in Nat /\ l \in [1..Len(l) -> Users]
    BY LenProperties
  <1>2. l \in Injection(1..Len(l), Users)
    BY <1>1 DEF Injection
  <1>3. Cardinality(1..Len(l)) <= Cardinality(Users) /\ Cardinality(Users) \in Nat
    BY <1>2, ListingAssumption, FS_Injection, FS_CardinalityType DEF ListingAssumption
  <1>4. Cardinality(1..Len(l)) = Len(l)
    <2> DEFINE n == Len(l)
    <2>1. n \in Int /\ 1 \in Int /\ n >= 0
      BY <1>1
    <2> HIDE DEF n
    <2>2. Cardinality(1..n) = IF 1 > n THEN 0 ELSE n - 1 + 1
      BY <2>1, FS_Interval
    <2>3. Cardinality(1..n) = n
      BY <2>1, <2>2
    <2> QED
      BY <2>3 DEF n
  <1>5. Len(l) \in 0..Cardinality(Users)
    BY <1>1, <1>3, <1>4
  <1> QED
    BY <1>1, <1>5 DEF Lists

\* Who joins takes a place, and everyone else stays in the same order.
LEMMA InsertAtFacts ==
    ASSUME NEW l \in Lists, NEW u \in Users, u \notin ToSet(l), NEW i \in 1..Len(l) + 1
    PROVE  /\ InsertAt(l, i, u) \in Lists
           /\ Len(InsertAt(l, i, u)) = Len(l) + 1
           /\ InsertAt(l, i, u)[i] = u
           /\ \A j \in 1..Len(l) :
                  InsertAt(l, i, u)[IF j < i THEN j ELSE j + 1] = l[j]
  <1> DEFINE a == SubSeq(l, 1, i - 1)
             b == SubSeq(l, i, Len(l))
             c == a \o <<u>>
             m == c \o b
  <1>1. /\ Len(l) \in Nat /\ i \in Nat /\ l \in Seq(Users) /\ IsInjective(l)
        /\ \A j \in 1..Len(l) : l[j] \in Users /\ l[j] # u
        /\ DOMAIN l = 1..Len(l)
    BY ListFacts, ElementOfSeq
  <1>2. /\ a \in Seq(Users) /\ Len(a) = i - 1
        /\ \A j \in 1..i - 1 : a[j] = l[j]
    BY <1>1, SubSeqProperties
  <1>3. /\ b \in Seq(Users) /\ Len(b) = Len(l) - i + 1
        /\ \A j \in 1..Len(l) - i + 1 : b[j] = l[i + j - 1]
    BY <1>1, SubSeqProperties
  <1>4. /\ <<u>> \in Seq(Users) /\ Len(<<u>>) = 1 /\ <<u>>[1] = u
    OBVIOUS
  <1>5. /\ c \in Seq(Users) /\ Len(c) = i
        /\ \A j \in 1..i : c[j] = IF j <= i - 1 THEN a[j] ELSE u
    BY <1>1, <1>2, <1>4, ConcatProperties
  <1>6. /\ m \in Seq(Users) /\ Len(m) = Len(l) + 1
        /\ \A j \in 1..Len(l) + 1 : m[j] = IF j <= i THEN c[j] ELSE b[j - i]
    <2> HIDE DEF b, c
    <2>1. /\ m \in Seq(Users) /\ Len(m) = Len(c) + Len(b)
          /\ \A j \in 1..Len(c) + Len(b) : m[j] = IF j <= Len(c) THEN c[j] ELSE b[j - Len(c)]
      <3>1. c \in Seq(Users) /\ b \in Seq(Users)
        BY <1>3, <1>5
      <3> QED
        BY <3>1, ConcatProperties
    <2>2. Len(c) + Len(b) = Len(l) + 1 /\ Len(c) = i
      BY <1>1, <1>3, <1>5
    <2> QED
      BY <2>1, <2>2
  <1> HIDE DEF m, a, b, c
  <1>7. \A j \in 1..Len(l) + 1 :
            m[j] = IF j < i THEN l[j] ELSE IF j = i THEN u ELSE l[j - 1]
    <2> SUFFICES ASSUME NEW j \in 1..Len(l) + 1
                 PROVE  m[j] = IF j < i THEN l[j] ELSE IF j = i THEN u ELSE l[j - 1]
      OBVIOUS
    <2>1. CASE j < i
      BY <1>1, <1>2, <1>5, <1>6, <2>1
    <2>2. CASE j = i
      BY <1>1, <1>5, <1>6, <2>2
    <2>3. CASE j > i
      <3>1. j - i \in 1..Len(l) - i + 1 /\ i + (j - i) - 1 = j - 1
        BY <1>1, <2>3
      <3>2. m[j] = b[j - i] /\ b[j - i] = l[j - 1]
        BY <1>1, <1>3, <1>6, <2>3, <3>1
      <3> QED
        BY <1>1, <2>3, <3>2
    <2> QED
      BY <1>1, <2>1, <2>2, <2>3
  <1>8. IsInjective(m)
    <2>1. DOMAIN m = 1..Len(l) + 1
      BY <1>6, LenProperties
    <2>2. \A j, k \in 1..Len(l) : l[j] = l[k] => j = k
      BY <1>1 DEF IsInjective
    <2>3. ASSUME NEW j \in 1..Len(l) + 1, NEW k \in 1..Len(l) + 1, m[j] = m[k]
          PROVE  j = k
      <3> DEFINE old(n) == IF n < i THEN n ELSE n - 1
      <3>1. ASSUME NEW n \in 1..Len(l) + 1, n # i
            PROVE  old(n) \in 1..Len(l) /\ m[n] = l[old(n)] /\ m[n] # u
        BY <1>1, <1>7, <3>1
      <3>2. m[i] = u
        BY <1>1, <1>7
      <3>3. CASE j # i /\ k # i
        <4>1. l[old(j)] = l[old(k)] /\ old(j) \in 1..Len(l) /\ old(k) \in 1..Len(l)
          BY <2>3, <3>1, <3>3
        <4>2. old(j) = old(k)
          BY <2>2, <4>1
        <4> QED
          BY <1>1, <3>3, <4>2
      <3>4. CASE j = i \/ k = i
        BY <2>3, <3>1, <3>2, <3>4
      <3> QED
        BY <3>3, <3>4
    <2> QED
      BY <2>1, <2>3 DEF IsInjective
  <1>9. m \in Lists
    BY <1>6, <1>8, InLists
  <1>10. InsertAt(l, i, u) = m
    BY DEF InsertAt, m, a, b, c
  <1>11. \A j \in 1..Len(l) : m[IF j < i THEN j ELSE j + 1] = l[j]
    BY <1>1, <1>7
  <1> QED
    BY <1>1, <1>6, <1>7, <1>9, <1>10, <1>11

\* Who leaves leaves a list behind.
LEMMA RemoveAtList ==
    ASSUME NEW l \in Lists, NEW i \in 1..Len(l)
    PROVE  RemoveAt(l, i) \in Lists
  <1> DEFINE a == SubSeq(l, 1, i - 1)
             b == SubSeq(l, i + 1, Len(l))
             m == a \o b
  <1>1. /\ Len(l) \in Nat /\ i \in Nat /\ l \in Seq(Users) /\ IsInjective(l)
        /\ \A j \in 1..Len(l) : l[j] \in Users
        /\ DOMAIN l = 1..Len(l)
    BY ListFacts, ElementOfSeq
  <1>2. /\ a \in Seq(Users) /\ Len(a) = i - 1
        /\ \A j \in 1..i - 1 : a[j] = l[j]
    BY <1>1, SubSeqProperties
  <1>3. /\ b \in Seq(Users) /\ Len(b) = Len(l) - i
        /\ \A j \in 1..Len(l) - i : b[j] = l[i + j]
    <2>1. i + 1 \in Int /\ Len(l) \in Int /\ \A j \in i + 1..Len(l) : l[j] \in Users
      BY <1>1
    <2>2. /\ b \in Seq(Users)
          /\ Len(b) = IF i + 1 <= Len(l) THEN Len(l) - (i + 1) + 1 ELSE 0
          /\ \A j \in 1..Len(l) - (i + 1) + 1 : b[j] = l[(i + 1) + j - 1]
      BY <2>1, SubSeqProperties
    <2> HIDE DEF b
    <2>3. ASSUME NEW j \in 1..Len(l) - i PROVE b[j] = l[i + j]
      <3>1. j \in 1..Len(l) - (i + 1) + 1 /\ (i + 1) + j - 1 = i + j
        BY <1>1
      <3> QED
        BY <2>2, <3>1
    <2>4. Len(b) = Len(l) - i
      <3>1. Len(l) \in Nat /\ i \in 1..Len(l)
        BY <1>1
      <3>2. Len(b) = IF i + 1 <= Len(l) THEN Len(l) - (i + 1) + 1 ELSE 0
        BY <2>2
      <3> QED
        BY <3>1, <3>2
    <2> QED
      BY <2>2, <2>3, <2>4
  <1>4. /\ m \in Seq(Users) /\ Len(m) = Len(l) - 1
        /\ \A j \in 1..Len(l) - 1 : m[j] = IF j <= i - 1 THEN a[j] ELSE b[j - (i - 1)]
    <2> HIDE DEF a, b
    <2>1. /\ m \in Seq(Users) /\ Len(m) = Len(a) + Len(b)
          /\ \A j \in 1..Len(a) + Len(b) : m[j] = IF j <= Len(a) THEN a[j] ELSE b[j - Len(a)]
      BY <1>2, <1>3, ConcatProperties
    <2>2. Len(a) + Len(b) = Len(l) - 1 /\ Len(a) = i - 1
      BY <1>1, <1>2, <1>3
    <2> QED
      BY <2>1, <2>2
  <1> HIDE DEF m, a, b
  <1>5. \A j \in 1..Len(l) - 1 : m[j] = IF j < i THEN l[j] ELSE l[j + 1]
    <2> SUFFICES ASSUME NEW j \in 1..Len(l) - 1
                 PROVE  m[j] = IF j < i THEN l[j] ELSE l[j + 1]
      OBVIOUS
    <2>1. CASE j < i
      <3>1. j <= i - 1 /\ j \in 1..i - 1
        BY <1>1, <2>1
      <3>2. m[j] = a[j] /\ a[j] = l[j]
        BY <1>2, <1>4, <3>1
      <3> QED
        BY <2>1, <3>2
    <2>2. CASE ~(j < i)
      <3>1. ~(j <= i - 1) /\ j - (i - 1) \in 1..Len(l) - i /\ i + (j - (i - 1)) = j + 1
        BY <1>1, <2>2
      <3>2. m[j] = b[j - (i - 1)] /\ b[j - (i - 1)] = l[i + (j - (i - 1))]
        BY <1>3, <1>4, <3>1
      <3> QED
        BY <2>2, <3>1, <3>2
    <2> QED
      BY <2>1, <2>2
  <1>6. IsInjective(m)
    <2>1. DOMAIN m = 1..Len(l) - 1
      BY <1>4, LenProperties
    <2>2. \A j, k \in 1..Len(l) : l[j] = l[k] => j = k
      BY <1>1 DEF IsInjective
    <2>3. \A j, k \in 1..Len(l) - 1 : m[j] = m[k] => j = k
      BY <1>1, <1>5, <2>2
    <2> QED
      BY <2>1, <2>3 DEF IsInjective
  <1>7. RemoveAt(l, i) = m
    BY DEF RemoveAt, m, a, b
  <1> QED
    BY <1>4, <1>6, <1>7, InLists

\* An offset that fits an int is not changed by the multiplication.
LEMMA OffsetFits ==
    ASSUME NEW p \in Nat \ {0}, NEW s \in Nat \ {0}, Fits(p, s)
    PROVE  Offset(p, s) = (p - 1) * s /\ Offset(p, s) \in Nat
  <1> DEFINE n == (p - 1) * s
  <1>1. n \in Nat /\ n <= MaxInt
    BY DEF Fits
  <1> HIDE DEF n
  <1>2. n % (2 * (MaxInt + 1)) = n
    BY <1>1, ListingAssumption DEF ListingAssumption
  <1>3. Wrap(n) = n
    BY <1>1, <1>2, ListingAssumption DEF Wrap, ListingAssumption
  <1> QED
    BY <1>1, <1>3 DEF Offset, n

\* However it wraps, an offset is an integer.
LEMMA OffsetInt ==
    ASSUME NEW p \in Nat \ {0}, NEW s \in Nat \ {0}
    PROVE  Offset(p, s) \in Int
  <1> DEFINE n == (p - 1) * s
  <1>1. n \in Int /\ MaxInt \in Nat
    BY ListingAssumption DEF ListingAssumption
  <1> HIDE DEF n
  <1>2. n % (2 * (MaxInt + 1)) \in Int
    BY <1>1
  <1>3. Wrap(n) \in Int
    BY <1>1, <1>2 DEF Wrap
  <1> QED
    BY <1>3 DEF Offset, n

\* A page number is one of those meta announces when its first row exists.
LEMMA PageCount ==
    ASSUME NEW n \in Nat, NEW s \in Nat \ {0}
    PROVE  /\ TotalPages(n, s) \in Nat /\ TotalPages(n, s) <= n
           /\ \A p \in Nat \ {0} : p <= TotalPages(n, s) <=> (p - 1) * s < n
  <1> DEFINE q == n \div s
             r == n % s
  <1>1. q \in Nat /\ r \in 0..s - 1 /\ n = q * s + r
    OBVIOUS
  <1> HIDE DEF q, r
  <1>2. q <= q * s
    BY <1>1
  <1>3. TotalPages(n, s) = q + (IF r > 0 THEN 1 ELSE 0)
    BY DEF TotalPages, q, r
  <1>4. ASSUME NEW p \in Nat \ {0}
        PROVE  p <= TotalPages(n, s) <=> (p - 1) * s < n
    <2>1. CASE p - 1 < q
      <3>1. PICK d \in Nat \ {0} : q = (p - 1) + d
        BY <1>1, <2>1
      <3>2. q * s = (p - 1) * s + d * s /\ d * s > 0 /\ (p - 1) * s \in Nat /\ d * s \in Nat
        BY <3>1
      <3> QED
        BY <1>1, <1>3, <2>1, <3>2
    <2>2. CASE p - 1 = q
      BY <1>1, <1>3, <2>2
    <2>3. CASE p - 1 > q
      <3>1. PICK d \in Nat \ {0} : p - 1 = q + d
        BY <1>1, <2>3
      <3>2. (p - 1) * s = q * s + d * s /\ d * s >= s /\ q * s \in Nat /\ d * s \in Nat
        BY <1>1, <3>1
      <3> QED
        BY <1>1, <1>3, <2>3, <3>2
    <2> QED
      BY <1>1, <2>1, <2>2, <2>3
  <1> QED
    BY <1>1, <1>2, <1>3, <1>4

\* A page is the part of the list between its offset and the next one's.
LEMMA RowsFacts ==
    ASSUME NEW l \in Lists, NEW p \in Nat \ {0}, NEW s \in Nat \ {0},
           Offset(p, s) \in Nat
    PROVE  /\ Rows(l, p, s) \in Lists
           /\ ToSet(Rows(l, p, s)) =
                  {l[i] : i \in {j \in 1..Len(l) : Offset(p, s) < j /\ j <= Offset(p, s) + s}}
           /\ Rows(l, p, s) # <<>> <=> Offset(p, s) < Len(l)
  <1> DEFINE o == Offset(p, s)
             h == IF o + s < Len(l) THEN o + s ELSE Len(l)
             m == SubSeq(l, o + 1, h)
  <1>1. /\ Len(l) \in Nat /\ l \in Seq(Users) /\ IsInjective(l)
        /\ \A j \in 1..Len(l) : l[j] \in Users
        /\ DOMAIN l = 1..Len(l)
    BY ListFacts, ElementOfSeq
  <1>2. Rows(l, p, s) = m
    BY DEF Rows
  <1>3. o \in Nat
    OBVIOUS
  <1> HIDE DEF o
  <1>4. /\ h \in Nat /\ h <= Len(l) /\ h <= o + s
        /\ h = o + s \/ h = Len(l)
    <2>1. CASE o + s < Len(l)
      <3>1. h = o + s
        BY <2>1
      <3> HIDE DEF h
      <3> QED
        BY <1>1, <1>3, <2>1, <3>1
    <2>2. CASE ~(o + s < Len(l))
      <3>1. h = Len(l)
        BY <2>2
      <3> HIDE DEF h
      <3> QED
        BY <1>1, <1>3, <2>2, <3>1
    <2> QED
      BY <2>1, <2>2
  <1> HIDE DEF h
  <1>5. /\ m \in Seq(Users)
        /\ Len(m) = IF o + 1 <= h THEN h - o ELSE 0
        /\ \A i \in 1..h - o : m[i] = l[o + i]
    <2>1. ASSUME NEW j \in o + 1..h PROVE l[j] \in Users
      <3>1. Len(l) \in Nat
        BY <1>1
      <3>2. j \in 1..Len(l)
        BY <1>3, <1>4, <3>1
      <3> QED
        BY <1>1, <3>2
    <2> QED
      <3>1. /\ m \in Seq(Users)
            /\ Len(m) = IF o + 1 <= h THEN h - (o + 1) + 1 ELSE 0
            /\ \A i \in 1..h - (o + 1) + 1 : m[i] = l[(o + 1) + i - 1]
        BY <1>3, <1>4, <2>1, SubSeqProperties
      <3> HIDE DEF m
      <3>2. ASSUME NEW i \in 1..h - o PROVE m[i] = l[o + i]
        <4>1. i \in 1..h - (o + 1) + 1 /\ (o + 1) + i - 1 = o + i
          BY <1>3, <1>4
        <4> QED
          BY <3>1, <4>1
      <3>3. Len(m) = IF o + 1 <= h THEN h - o ELSE 0
        BY <1>3, <1>4, <3>1
      <3> QED
        BY <3>1, <3>2, <3>3
  <1> HIDE DEF m
  <1>6. DOMAIN m = 1..Len(m)
    BY <1>5, LenProperties
  <1>7. IsInjective(m)
    <2>1. \A j, k \in 1..Len(l) : l[j] = l[k] => j = k
      BY <1>1 DEF IsInjective
    <2>2. ASSUME NEW j \in 1..Len(m), NEW k \in 1..Len(m), m[j] = m[k]
          PROVE  j = k
      <3>1. j \in 1..h - o /\ k \in 1..h - o
        BY <1>3, <1>4, <1>5
      <3>2. l[o + j] = l[o + k]
        BY <1>5, <2>2, <3>1
      <3>3. o + j \in 1..Len(l) /\ o + k \in 1..Len(l)
        BY <1>3, <1>4, <3>1
      <3>4. o + j = o + k
        BY <2>1, <3>2, <3>3
      <3> QED
        BY <1>3, <3>1, <3>4
    <2> QED
      BY <1>6, <2>2 DEF IsInjective
  <1>8. ToSet(m) = {l[i] : i \in {j \in 1..Len(l) : o < j /\ j <= o + s}}
    <2>1. ToSet(m) = {m[i] : i \in 1..Len(m)}
      BY <1>6 DEF ToSet
    <2>2. ASSUME NEW i \in 1..Len(m)
          PROVE  m[i] \in {l[j] : j \in {k \in 1..Len(l) : o < k /\ k <= o + s}}
      <3>1. Len(l) \in Nat /\ Len(m) = IF o + 1 <= h THEN h - o ELSE 0
        BY <1>1, <1>5
      <3>2. i \in 1..h - o
        BY <1>3, <1>4, <3>1
      <3>3. o + i \in 1..Len(l) /\ o < o + i /\ o + i <= o + s
        BY <1>3, <1>4, <3>1, <3>2
      <3>4. m[i] = l[o + i]
        BY <1>5, <3>2
      <3> QED
        BY <3>3, <3>4
    <2>3. ASSUME NEW j \in 1..Len(l), o < j, j <= o + s
          PROVE  l[j] \in {m[i] : i \in 1..Len(m)}
      <3>1. Len(l) \in Nat /\ j \in Nat /\ j <= Len(l)
        BY <1>1
      <3>2. j <= h
        <4>1. CASE h = o + s
          BY <2>3, <4>1
        <4>2. CASE h = Len(l)
          BY <3>1, <4>2
        <4> QED
          BY <1>4, <4>1, <4>2
      <3>3. j - o \in 1..h - o /\ o + (j - o) = j /\ o + 1 <= h
        BY <1>3, <1>4, <2>3, <3>1, <3>2
      <3>4. Len(m) = h - o
        BY <1>5, <3>3
      <3>5. m[j - o] = l[j]
        BY <1>5, <3>3
      <3> QED
        BY <3>3, <3>4, <3>5
    <2> QED
      BY <2>1, <2>2, <2>3
  <1>9. m # <<>> <=> o < Len(l)
    <2>1. m # <<>> <=> Len(m) # 0
      BY <1>5
    <2>2. Len(m) # 0 <=> o < Len(l)
      <3>1. Len(l) \in Nat /\ Len(m) = IF o + 1 <= h THEN h - o ELSE 0
        BY <1>1, <1>5
      <3> QED
        BY <1>3, <1>4, <3>1
    <2> QED
      BY <2>1, <2>2
  <1> QED
    BY <1>2, <1>5, <1>7, <1>8, <1>9, InLists DEF o

\* A page without rows is one on which nobody is.
LEMMA NoRows ==
    ASSUME NEW l \in Lists
    PROVE  ToSet(l) # {} <=> l # <<>>
  <1>1. Len(l) \in Nat /\ l \in Seq(Users) /\ ToSet(l) = {l[i] : i \in 1..Len(l)}
    BY ListFacts
  <1>2. l # <<>> <=> Len(l) # 0
    BY <1>1
  <1>3. Len(l) # 0 <=> 1 \in 1..Len(l)
    BY <1>1
  <1>4. 1..Len(l) = {} \/ 1 \in 1..Len(l)
    BY <1>1
  <1> QED
    BY <1>1, <1>2, <1>3, <1>4

-----------------------------------------------------------------------------
(* The states of the list and of its requests. *)

\* What the assumptions say of single numbers.
LEMMA Sizes ==
    /\ MaxReplicas \in Nat /\ MaxChanges \in Nat /\ CounterSize \in Nat \ {0}
    /\ MaxInt \in Nat \ {0} /\ MaxPageSize \in Nat /\ DefaultPageSize \in 1..MaxPageSize
    /\ Cardinality(Users) \in Nat /\ Cardinality(Users) <= MaxInt
  BY ListingAssumption, FS_CardinalityType DEF ListingAssumption

\* The pool that is read is one of the configured ones, and with one or none
\* it is always the same.
LEMMA ReadListFacts ==
    ASSUME ListTypeOK
    PROVE  /\ ReadList \in Lists
           /\ Cardinality(Replicas) <= 1 =>
                  \/ Replicas = {} /\ ReadList = table
                  \/ Replicas = {0} /\ ReadList = view[0]
  <1>1. PICK n \in 0..MaxReplicas : view \in [0..n - 1 -> Lists]
    BY DEF ListTypeOK
  <1>2. n \in Nat /\ rr \in Nat /\ table \in Lists
    BY <1>1, Sizes DEF ListTypeOK
  <1>3. Replicas = 0..n - 1
    BY <1>1 DEF Replicas
  <1>4. Cardinality(Replicas) = n
    BY <1>2, <1>3, FS_Interval
  <1>5. CASE n = 0
    BY <1>2, <1>3, <1>5 DEF ReadList
  <1>6. CASE n # 0
    <2>1. Replicas # {} /\ rr % n \in 0..n - 1
      BY <1>2, <1>3, <1>6
    <2>2. ReadList = view[rr % n]
      BY <1>4, <2>1 DEF ReadList
    <2>3. ReadList \in Lists
      BY <1>1, <2>1, <2>2
    <2>4. ASSUME n <= 1 PROVE Replicas = {0} /\ ReadList = view[0]
      <3>1. n = 1 /\ rr % 1 = 0 /\ 0..n - 1 = {0}
        BY <1>2, <1>6, <2>4
      <3> QED
        BY <1>3, <2>2, <3>1
    <2> QED
      BY <1>4, <2>3, <2>4
  <1> QED
    BY <1>5, <1>6

\* What page and page_size are parsed to are a page and a size.
LEMMA ParseTypes ==
    /\ ParsePage(1) = 1 /\ 1 \in 1..MaxInt
    /\ \A raw \in RawPages : ParsePage(raw) \in 1..MaxInt
    /\ \A raw \in RawSizes : ParseSize(raw) \in 1..MaxPageSize
  <1>1. /\ \A raw \in RawPages : raw \in Int /\ raw <= MaxInt
        /\ \A raw \in RawSizes : raw \in Int
    BY ListingAssumption DEF ListingAssumption
  <1>2. 1 \in 1..MaxInt /\ ParsePage(1) = 1
    BY Sizes DEF ParsePage, defaultPage
  <1>3. ASSUME NEW raw \in RawPages PROVE ParsePage(raw) \in 1..MaxInt
    BY <1>1, <1>2, Sizes DEF ParsePage, defaultPage
  <1>4. ASSUME NEW raw \in RawSizes PROVE ParseSize(raw) \in 1..MaxPageSize
    BY <1>1, Sizes DEF ParseSize
  <1> QED
    BY <1>2, <1>3, <1>4

\* Nobody at all is a list.
LEMMA EmptyList == <<>> \in Lists
  <1>1. <<>> \in Seq(Users) /\ IsInjective(<<>>)
    BY DEF IsInjective
  <1> QED
    BY <1>1, InLists

\* A changed table, or a replica that has replayed it, is a list again.
LEMMA DataType ==
    ASSUME ListTypeOK
    PROVE  /\ \A u \in Users : Join(u) => table' \in Lists
           /\ \A u \in Users : Leave(u) => table' \in Lists
           /\ \A r \in Replicas : CatchUp(r) =>
                  \E n \in 0..MaxReplicas : view' \in [0..n - 1 -> Lists]
           /\ CountRead => rr' \in 0..CounterSize - 1
  <1>1. table \in Lists
    BY DEF ListTypeOK
  <1>2. ASSUME NEW u \in Users, Join(u) PROVE table' \in Lists
    BY <1>1, <1>2, InsertAtFacts DEF Join
  <1>3. ASSUME NEW u \in Users, Leave(u) PROVE table' \in Lists
    BY <1>1, <1>3, RemoveAtList DEF Leave
  <1>4. ASSUME NEW r \in Replicas, CatchUp(r)
        PROVE  \E n \in 0..MaxReplicas : view' \in [0..n - 1 -> Lists]
    BY <1>1, <1>4 DEF CatchUp, ListTypeOK
  <1>5. CountRead => rr' \in 0..CounterSize - 1
    <2>1. rr \in Nat /\ CounterSize \in Nat \ {0} /\ rr <= CounterSize - 1
      BY Sizes DEF ListTypeOK
    <2>2. (rr + 1) % CounterSize \in 0..CounterSize - 1
      BY <2>1
    <2> QED
      BY <2>1, <2>2 DEF CountRead
  <1> QED
    BY <1>2, <1>3, <1>4, <1>5

\* Every state of the list and its requests is well formed, for any users,
\* replicas and widths of the integers.
THEOREM ListTypeCorrect == ListSpec => []ListTypeOK
  <1>1. ListInit => ListTypeOK
    <2> SUFFICES ASSUME ListInit PROVE ListTypeOK
      OBVIOUS
    <2>1. {table, counted, answer} \subseteq Lists
      BY EmptyList DEF ListInit
    <2>2. \E n \in 0..MaxReplicas : view \in [0..n - 1 -> Lists]
      BY DEF ListInit
    <2>3. rr \in 0..CounterSize - 1 /\ changes \in 0..MaxChanges
      BY Sizes DEF ListInit
    <2>4. page \in 1..MaxInt /\ total \in 0..Cardinality(Users) /\ size \in 1..MaxPageSize
      BY Sizes DEF ListInit, defaultPage
    <2>5. /\ phase \in {"idle", "count", "page", "answered", "failed"}
          /\ {walking, same, shrunk} \subseteq BOOLEAN
          /\ seen \cup expected \subseteq Users
      BY DEF ListInit
    <2> QED
      BY <2>1, <2>2, <2>3, <2>4, <2>5 DEF ListTypeOK
  <1>2. ListTypeOK /\ [ListNext]_listVars => ListTypeOK'
    <2> SUFFICES ASSUME ListTypeOK, [ListNext]_listVars PROVE ListTypeOK'
      OBVIOUS
    <2>a. ReadList \in Lists /\ ToSet(ReadList) \subseteq Users /\ Len(ReadList) \in 0..Cardinality(Users)
      BY ReadListFacts, ListFacts, ElementOfSeq
    <2>b. dataVars' = dataVars =>
              /\ UNCHANGED <<table, view, rr, changes>>
              /\ Replicas' = Replicas
      BY DEF dataVars, Replicas
    <2>1. ASSUME NEW raw \in RawSizes, StartWalk(raw) PROVE ListTypeOK'
      <3>1. page' \in 1..MaxInt /\ size' \in 1..MaxPageSize
        BY <2>1, ParseTypes DEF StartWalk
      <3>2. seen' \cup expected' \subseteq Users
        BY <2>1, <2>a DEF StartWalk, ListTypeOK
      <3> QED
        BY <2>1, <2>b, <3>1, <3>2 DEF StartWalk, ListTypeOK
    <2>2. ASSUME NEW rawPage \in RawPages, NEW rawSize \in RawSizes, Ask(rawPage, rawSize)
          PROVE  ListTypeOK'
      <3>1. page' \in 1..MaxInt /\ size' \in 1..MaxPageSize
        BY <2>2, ParseTypes DEF Ask
      <3> QED
        BY <2>2, <2>b, <3>1 DEF Ask, ListTypeOK
    <2>3. CASE Count
      <3>1. rr' \in 0..CounterSize - 1
        BY <2>3, DataType DEF Count
      <3>2. counted' \in Lists /\ total' \in 0..Cardinality(Users)
        BY <2>3, <2>a DEF Count
      <3> QED
        BY <2>3, <3>1, <3>2 DEF Count, ListTypeOK
    <2>4. CASE GetPage
      <3>1. rr' \in 0..CounterSize - 1
        BY <2>4, DataType DEF GetPage
      <3>2. counted' \in Lists
        BY <2>4, EmptyList DEF GetPage
      <3>3. answer' \in Lists /\ seen' \subseteq Users /\ same' \in BOOLEAN
        <4>1. CASE Offset(page, size) < 0
          BY <2>4, <4>1 DEF GetPage, ListTypeOK
        <4>2. CASE ~(Offset(page, size) < 0)
          <5>1. page \in Nat \ {0} /\ size \in Nat \ {0}
            BY Sizes DEF ListTypeOK
          <5>2. Offset(page, size) \in Nat
            BY <4>2, <5>1, OffsetInt
          <5>3. answer' = Rows(ReadList, page, size)
            BY <2>4, <4>2 DEF GetPage
          <5>4. answer' \in Lists /\ ToSet(answer') \subseteq Users
            BY <2>a, <5>1, <5>2, <5>3, RowsFacts, ListFacts, ElementOfSeq
          <5>5. seen' = seen \cup ToSet(answer') \/ seen' = seen
            BY <2>4, <4>2 DEF GetPage
          <5>6. seen' \subseteq Users
            BY <5>4, <5>5 DEF ListTypeOK
          <5>7. same' \in BOOLEAN
            BY <2>4, <4>2 DEF GetPage
          <5> QED
            BY <5>4, <5>6, <5>7
        <4> QED
          BY <4>1, <4>2
      <3>4. phase' \in {"idle", "count", "page", "answered", "failed"}
        BY <2>4 DEF GetPage
      <3> QED
        BY <2>4, <3>1, <3>2, <3>3, <3>4 DEF GetPage, ListTypeOK
    <2>5. CASE NextPage
      <3>1. total \in Nat /\ size \in Nat \ {0} /\ page \in Nat \ {0} /\ total <= MaxInt
        BY Sizes DEF ListTypeOK
      <3>2. page < TotalPages(total, size)
        BY <2>5, <3>1, PageCount DEF NextPage, LastPage
      <3>3. page + 1 \in 1..MaxInt
        BY <3>1, <3>2, Sizes, PageCount
      <3> QED
        BY <2>5, <2>b, <3>3, EmptyList DEF NextPage, ListTypeOK
    <2>6. CASE Finish \/ QueryFails
      <3>1. Forget /\ UNCHANGED <<table, view, changes>>
        BY <2>6 DEF Finish, QueryFails, dataVars
      <3>2. page' \in 1..MaxInt /\ total' \in 0..Cardinality(Users) /\ size' \in 1..MaxPageSize
        BY <3>1, Sizes DEF Forget, defaultPage
      <3>3. rr' \in 0..CounterSize - 1
        <4>1. CASE Finish
          BY <4>1 DEF Finish, dataVars, ListTypeOK
        <4>2. CASE QueryFails
          BY <4>2, DataType DEF QueryFails
        <4> QED
          BY <2>6, <4>1, <4>2
      <3> QED
        BY <2>b, <3>1, <3>2, <3>3, EmptyList DEF Forget, ListTypeOK
    <2>7. ASSUME NEW u \in Users, Join(u) PROVE ListTypeOK'
      <3>1. table' \in Lists
        BY <2>7, DataType
      <3>2. changes' \in 0..MaxChanges
        BY <2>7, Sizes DEF Join, Changing, ListTypeOK
      <3> QED
        BY <2>7, <3>1, <3>2 DEF Join, clientVars, ListTypeOK
    <2>8. ASSUME NEW u \in Users, Leave(u) PROVE ListTypeOK'
      <3>1. table' \in Lists
        BY <2>8, DataType
      <3>2. changes' \in 0..MaxChanges
        BY <2>8, Sizes DEF Leave, Changing, ListTypeOK
      <3>3. shrunk' \in BOOLEAN
        BY <2>8 DEF Leave
      <3> QED
        BY <2>8, <3>1, <3>2, <3>3 DEF Leave, clientVars, ListTypeOK
    <2>9. ASSUME NEW r \in Replicas, CatchUp(r) PROVE ListTypeOK'
      <3>1. \E n \in 0..MaxReplicas : view' \in [0..n - 1 -> Lists]
        BY <2>9, DataType
      <3>2. shrunk' \in BOOLEAN
        BY <2>9 DEF CatchUp
      <3> QED
        BY <2>9, <3>1, <3>2 DEF CatchUp, clientVars, ListTypeOK
    <2>10. CASE OtherRead
      <3>1. rr' \in 0..CounterSize - 1
        BY <2>10, DataType DEF OtherRead
      <3> QED
        BY <2>10, <3>1 DEF OtherRead, clientVars, ListTypeOK
    <2>11. CASE UNCHANGED listVars
      BY <2>11 DEF listVars, dataVars, clientVars, ListTypeOK
    <2> QED
      BY <2>1, <2>2, <2>3, <2>4, <2>5, <2>6, <2>7, <2>8, <2>9, <2>10, <2>11 DEF ListNext
  <1> QED
    BY <1>1, <1>2, PTL DEF ListSpec

-----------------------------------------------------------------------------
(* What a page and its meta are worth. *)

\* The page whose rows hold the user at position i.
PageOf(i, s) == (i - 1) \div s + 1

\* One page has the row at a position, and it is announced.
LEMMA OnePage ==
    ASSUME NEW i \in Nat \ {0}, NEW s \in Nat \ {0}
    PROVE  /\ PageOf(i, s) \in Nat \ {0}
           /\ \A p \in Nat \ {0} :
                  (p - 1) * s < i /\ i <= (p - 1) * s + s <=> p = PageOf(i, s)
  <1> DEFINE q == (i - 1) \div s
             r == (i - 1) % s
  <1>1. q \in Nat /\ r \in 0..s - 1 /\ i - 1 = q * s + r
    OBVIOUS
  <1> HIDE DEF q, r
  <1>2. PageOf(i, s) = q + 1
    BY DEF PageOf, q
  <1>3. ASSUME NEW p \in Nat \ {0}
        PROVE  (p - 1) * s < i /\ i <= (p - 1) * s + s <=> p = q + 1
    <2>1. CASE p - 1 < q
      <3>1. PICK d \in Nat \ {0} : q = (p - 1) + d
        BY <1>1, <2>1
      <3>2. q * s = (p - 1) * s + d * s /\ d * s >= s /\ (p - 1) * s \in Nat /\ d * s \in Nat
        BY <3>1
      <3> QED
        BY <1>1, <2>1, <3>2
    <2>2. CASE p - 1 = q
      <3>1. (p - 1) * s = q * s /\ q * s \in Nat
        BY <1>1, <2>2
      <3> QED
        BY <1>1, <2>2, <3>1
    <2>3. CASE p - 1 > q
      <3>1. PICK d \in Nat \ {0} : p - 1 = q + d
        BY <1>1, <2>3
      <3>2. (p - 1) * s = q * s + d * s /\ d * s >= s /\ q * s \in Nat /\ d * s \in Nat
        BY <1>1, <3>1
      <3> QED
        BY <1>1, <2>3, <3>2
    <2> QED
      BY <1>1, <2>1, <2>2, <2>3
  <1> QED
    BY <1>1, <1>2, <1>3

\* An announced page of a list begins within it, so its offset fits.
LEMMA AnnouncedFits ==
    ASSUME NEW l \in Lists, NEW s \in Nat \ {0}, NEW p \in 1..TotalPages(Len(l), s)
    PROVE  /\ Fits(p, s) /\ (p - 1) * s \in Nat /\ p \in Nat \ {0} /\ p <= MaxInt
           /\ Offset(p, s) = (p - 1) * s
  <1>1. Len(l) \in Nat /\ Len(l) <= MaxInt /\ MaxInt \in Nat
    BY ListFacts, Sizes
  <1> DEFINE t == TotalPages(Len(l), s)
  <1>a. /\ t \in Nat /\ t <= Len(l)
        /\ \A k \in Nat \ {0} : k <= t <=> (k - 1) * s < Len(l)
    BY <1>1, PageCount
  <1> HIDE DEF t
  <1>b. p \in Nat \ {0} /\ p <= t
    BY <1>a DEF t
  <1>2. p \in Nat \ {0} /\ (p - 1) * s < Len(l) /\ p <= Len(l)
    BY <1>1, <1>a, <1>b
  <1>3. (p - 1) * s \in Nat
    BY <1>2
  <1> DEFINE n == (p - 1) * s
  <1>4. n <= MaxInt
    <2> HIDE DEF n
    <2>1. n \in Nat /\ n < Len(l)
      BY <1>2, <1>3 DEF n
    <2> QED
      BY <1>1, <2>1
  <1> QED
    BY <1>1, <1>2, <1>3, <1>4, OffsetFits DEF Fits

\* Every user of a list that stands still is on one page and on no other, and
\* exactly the announced pages have rows, for every list, page and size
\* (pagination.go:22-24, 36-62).
THEOREM PagesPartitionSafe == ListSpec => []PagesPartition
  <1>1. ListTypeOK => PagesPartition
    <2> SUFFICES ASSUME ListTypeOK, NEW raw \in RawSizes
                 PROVE  LET s == ParseSize(raw)
                            last == TotalPages(Len(table), s)
                            On(p) == ToSet(Rows(table, p, s))
                        IN /\ \A u \in ToSet(table) :
                                  Cardinality({p \in 1..last : u \in On(p)}) = 1
                           /\ \A p \in 1..MaxInt : Fits(p, s) => (On(p) # {} <=> p <= last)
      BY DEF PagesPartition
    <2> DEFINE s == ParseSize(raw)
               last == TotalPages(Len(table), s)
               On(p) == ToSet(Rows(table, p, s))
    <2>1. table \in Lists /\ Len(table) \in Nat /\ DOMAIN table = 1..Len(table)
      BY ListFacts DEF ListTypeOK
    <2>2. s \in Nat \ {0}
      BY ParseTypes, Sizes
    <2> HIDE DEF s
    <2>3. last \in Nat /\ \A p \in Nat \ {0} : p <= last <=> (p - 1) * s < Len(table)
      BY <2>1, <2>2, PageCount
    <2>4. ASSUME NEW u \in ToSet(table) PROVE Cardinality({p \in 1..last : u \in On(p)}) = 1
      <3>1. PICK i \in 1..Len(table) : u = table[i]
        BY <2>1 DEF ToSet
      <3>2. i \in Nat \ {0} /\ \A j \in 1..Len(table) : table[j] = u => j = i
        BY <2>1, <3>1, ListFacts DEF IsInjective
      <3>3. ASSUME NEW p \in 1..last PROVE u \in On(p) <=> p = PageOf(i, s)
        <4>1. p \in Nat \ {0} /\ Offset(p, s) = (p - 1) * s /\ (p - 1) * s \in Nat
          BY <2>1, <2>2, AnnouncedFits
        <4>2. u \in On(p) <=> \E j \in 1..Len(table) :
                  /\ (p - 1) * s < j /\ j <= (p - 1) * s + s
                  /\ u = table[j]
          <5>1. On(p) = {table[j] : j \in {k \in 1..Len(table) :
                             (p - 1) * s < k /\ k <= (p - 1) * s + s}}
            <6>1. Offset(p, s) \in Nat
              BY <4>1
            <6>2. On(p) = {table[j] : j \in {k \in 1..Len(table) :
                               Offset(p, s) < k /\ k <= Offset(p, s) + s}}
              BY <2>1, <2>2, <4>1, <6>1, RowsFacts
            <6> HIDE DEF On
            <6> QED
              BY <4>1, <6>2
          <5> HIDE DEF On
          <5> QED
            BY <5>1
        <4>3. u \in On(p) <=> (p - 1) * s < i /\ i <= (p - 1) * s + s
          BY <3>1, <3>2, <4>2
        <4> QED
          BY <2>2, <3>2, <4>1, <4>3, OnePage
      <3>4. PageOf(i, s) \in 1..last
        <4>1. PageOf(i, s) \in Nat \ {0} /\ (PageOf(i, s) - 1) * s < i
          BY <2>2, <3>2, OnePage
        <4> DEFINE n == (PageOf(i, s) - 1) * s
        <4>2. n \in Int
          BY <2>2, <4>1
        <4>3. n < Len(table)
          <5> HIDE DEF n
          <5>1. n < i
            BY <4>1 DEF n
          <5> QED
            BY <2>1, <4>2, <5>1
        <4> QED
          BY <2>3, <4>1, <4>3
      <3>5. {p \in 1..last : u \in On(p)} = {PageOf(i, s)}
        BY <3>3, <3>4
      <3> QED
        BY <3>5, FS_Singleton
    <2>5. ASSUME NEW p \in 1..MaxInt, Fits(p, s) PROVE On(p) # {} <=> p <= last
      <3>1. p \in Nat \ {0}
        OBVIOUS
      <3>2. Offset(p, s) = (p - 1) * s /\ Offset(p, s) \in Nat
        BY <2>2, <2>5, <3>1, OffsetFits
      <3>3. Rows(table, p, s) # <<>> <=> (p - 1) * s < Len(table)
        BY <2>1, <2>2, <3>1, <3>2, RowsFacts
      <3>4. On(p) # {} <=> Rows(table, p, s) # <<>>
        BY <2>1, <2>2, <3>1, <3>2, RowsFacts, NoRows
      <3> QED
        BY <2>3, <3>1, <3>3, <3>4
    <2> QED
      BY <2>4, <2>5 DEF s
  <1> QED
    BY <1>1, ListTypeCorrect, PTL

\* COUNT has counted the list it is compared with, and what is known of an
\* answer is known from the moment of its SELECT.
MetaKnown ==
    /\ phase = "page" => total = Len(counted)
    /\ MetaAgrees

\* The rows and the meta of an answer agree, and the request does not fail,
\* unless the list moved in between or the offset overflows, for every page
\* and size a client may ask for (user.go:100-116, database.go:26).
THEOREM MetaAgreesSafe == ListSpec => []MetaAgrees
  <1>1. ListInit => MetaKnown
    BY DEF ListInit, MetaKnown, MetaAgrees
  <1>2. ListTypeOK /\ MetaKnown /\ [ListNext]_listVars => MetaKnown'
    <2> SUFFICES ASSUME ListTypeOK, MetaKnown, [ListNext]_listVars PROVE MetaKnown'
      OBVIOUS
    <2>1. ASSUME NEW raw \in RawSizes, StartWalk(raw) PROVE MetaKnown'
      BY <2>1 DEF StartWalk, MetaKnown, MetaAgrees
    <2>2. ASSUME NEW rawPage \in RawPages, NEW rawSize \in RawSizes, Ask(rawPage, rawSize)
          PROVE  MetaKnown'
      BY <2>2 DEF Ask, MetaKnown, MetaAgrees
    <2>3. CASE Count
      <3>1. phase' = "page" /\ total' = Len(counted')
        BY <2>3 DEF Count
      <3> QED
        BY <3>1 DEF MetaKnown, MetaAgrees
    <2>4. CASE GetPage
      <3>1. phase' # "page" /\ phase = "page" /\ UNCHANGED <<page, size, total>>
        BY <2>4 DEF GetPage
      <3>2. ASSUME Fits(page, size)
            PROVE  /\ phase' # "failed"
                   /\ same' => (answer' # <<>> <=> page <= TotalPages(total, size))
        <4>1. page \in Nat \ {0} /\ size \in Nat \ {0}
          BY Sizes DEF ListTypeOK
        <4>2. Offset(page, size) = (page - 1) * size /\ Offset(page, size) \in Nat
          BY <3>2, <4>1, OffsetFits
        <4>3. phase' = "answered" /\ answer' = Rows(ReadList, page, size)
              /\ same' = (ReadList = counted)
          BY <2>4, <4>2 DEF GetPage
        <4>4. answer' # <<>> <=> (page - 1) * size < Len(ReadList)
          BY <4>1, <4>2, <4>3, ReadListFacts, RowsFacts
        <4>5. ASSUME same' PROVE Len(ReadList) = total /\ total \in Nat
          <5>1. ReadList = counted
            BY <4>3, <4>5, Zenon
          <5>2. Len(ReadList) = total
            BY <3>1, <5>1 DEF MetaKnown
          <5> QED
            BY <5>2, ReadListFacts, ListFacts
        <4> QED
          BY <4>1, <4>3, <4>4, <4>5, PageCount
      <3>3. Fits(page, size)' = Fits(page, size)
        BY <3>1 DEF Fits
      <3>4. TotalPages(total, size)' = TotalPages(total, size)
        BY <3>1 DEF TotalPages
      <3> QED
        BY <3>1, <3>2, <3>3, <3>4 DEF MetaKnown, MetaAgrees
    <2>5. CASE NextPage
      BY <2>5 DEF NextPage, MetaKnown, MetaAgrees
    <2>6. CASE Finish \/ QueryFails
      BY <2>6 DEF Finish, QueryFails, Forget, MetaKnown, MetaAgrees
    <2>7. UNCHANGED clientVars => MetaKnown'
      BY DEF clientVars, MetaKnown, MetaAgrees, Fits, TotalPages
    <2>8. ASSUME NEW u \in Users, Join(u) \/ Leave(u) PROVE MetaKnown'
      BY <2>7, <2>8 DEF Join, Leave
    <2>9. ASSUME NEW r \in Replicas, CatchUp(r) PROVE MetaKnown'
      BY <2>7, <2>9 DEF CatchUp
    <2>10. CASE OtherRead
      BY <2>7, <2>10 DEF OtherRead
    <2>11. CASE UNCHANGED listVars
      BY <2>7, <2>11 DEF listVars
    <2> QED
      BY <2>1, <2>2, <2>3, <2>4, <2>5, <2>6, <2>8, <2>9, <2>10, <2>11 DEF ListNext
  <1>3. MetaKnown => MetaAgrees
    BY DEF MetaKnown
  <1> QED
    BY <1>1, <1>2, <1>3, ListTypeCorrect, PTL DEF ListSpec

-----------------------------------------------------------------------------
(* A walk over the pages. *)

\* Nobody in an order that is kept moves towards the front.
LEMMA KeepsPositions ==
    ASSUME NEW old \in Lists, NEW new \in Lists, Keeps(old, new)
    PROVE  /\ ToSet(old) \subseteq ToSet(new)
           /\ \A j \in 1..Len(new) : new[j] \in ToSet(old) =>
                  \E i \in 1..Len(old) : i <= j /\ old[i] = new[j]
  <1>1. PICK at \in [1..Len(old) -> 1..Len(new)] :
            /\ \A i \in 1..Len(old) : new[at[i]] = old[i]
            /\ \A i, j \in 1..Len(old) : i < j => at[i] < at[j]
    BY DEF Keeps
  <1>2. /\ Len(old) \in Nat /\ Len(new) \in Nat
        /\ ToSet(old) = {old[i] : i \in 1..Len(old)}
        /\ ToSet(new) = {new[i] : i \in 1..Len(new)}
        /\ \A i, j \in 1..Len(new) : new[i] = new[j] => i = j
    BY ListFacts DEF IsInjective
  <1>3. \A i \in 1..Len(old) : i <= at[i]
    <2> DEFINE T == {i \in 1..Len(old) : ~(i <= at[i])}
    <2> SUFFICES ASSUME T # {} PROVE FALSE
      OBVIOUS
    <2>1. PICK n \in T : \A m \in T : n <= m
      <3>1. T \in SUBSET Nat
        BY <1>2
      <3> HIDE DEF T
      <3> QED
        BY <3>1, LeastOf
    <2>2. n \in 1..Len(old) /\ ~(n <= at[n]) /\ at[n] \in 1..Len(new)
      BY <1>1
    <2>3. n - 1 \in 1..Len(old)
      BY <1>2, <2>2
    <2>4. n - 1 <= at[n - 1] /\ at[n - 1] \in 1..Len(new)
      <3>1. n - 1 \notin T
        <4> HIDE DEF T
        <4> QED
          BY <1>2, <2>1, <2>2
      <3> QED
        BY <1>1, <2>3, <3>1
    <2>5. at[n - 1] < at[n]
      <3>1. n - 1 < n
        BY <1>2, <2>2
      <3> QED
        BY <1>1, <2>2, <2>3, <3>1
    <2> HIDE DEF T
    <2> QED
      BY <1>2, <2>2, <2>4, <2>5
  <1>4. ToSet(old) \subseteq ToSet(new)
    BY <1>1, <1>2
  <1>5. ASSUME NEW j \in 1..Len(new), new[j] \in ToSet(old)
        PROVE  \E i \in 1..Len(old) : i <= j /\ old[i] = new[j]
    <2>1. PICK i \in 1..Len(old) : old[i] = new[j]
      BY <1>2, <1>5
    <2>2. at[i] = j
      BY <1>1, <1>2, <2>1
    <2> QED
      BY <1>3, <2>1, <2>2
  <1> QED
    BY <1>4, <1>5

\* A list that stands still keeps its order.
LEMMA KeepsSame ==
    ASSUME NEW l \in Lists
    PROVE  Keeps(l, l)
  <1> DEFINE at == [i \in 1..Len(l) |-> i]
  <1>1. at \in [1..Len(l) -> 1..Len(l)]
    OBVIOUS
  <1>2. /\ \A i \in 1..Len(l) : l[at[i]] = l[i]
        /\ \A i, j \in 1..Len(l) : i < j => at[i] < at[j]
    OBVIOUS
  <1> HIDE DEF at
  <1> QED
    BY <1>1, <1>2 DEF Keeps

\* Whoever joins leaves the others in their order.
LEMMA JoinKeeps ==
    ASSUME ListTypeOK, NEW u \in Users, Join(u)
    PROVE  Keeps(table, table')
  <1>1. table \in Lists /\ Len(table) \in Nat
    BY ListFacts DEF ListTypeOK
  <1>2. PICK i \in 1..Len(table) + 1 : table' = InsertAt(table, i, u)
    BY DEF Join
  <1>3. /\ Len(table') = Len(table) + 1
        /\ \A j \in 1..Len(table) : table'[IF j < i THEN j ELSE j + 1] = table[j]
    BY <1>1, <1>2, InsertAtFacts DEF Join
  <1> DEFINE at == [j \in 1..Len(table) |-> IF j < i THEN j ELSE j + 1]
  <1>4. at \in [1..Len(table) -> 1..Len(table')]
    <2> SUFFICES ASSUME NEW j \in 1..Len(table)
                 PROVE  (IF j < i THEN j ELSE j + 1) \in 1..Len(table')
      OBVIOUS
    <2>1. Len(table') = Len(table) + 1
      BY <1>3
    <2> QED
      BY <1>1, <2>1
  <1>5. \A j \in 1..Len(table) : table'[at[j]] = table[j]
    BY <1>3
  <1>6. \A j, k \in 1..Len(table) : j < k => at[j] < at[k]
    BY <1>1
  <1> HIDE DEF at
  <1> QED
    BY <1>4, <1>5, <1>6 DEF Keeps

\* With one pool to read from, the same pool is read before and after a step.
LEMMA OnePool ==
    ASSUME ListTypeOK, ListTypeOK', Replicas' = Replicas, Cardinality(Replicas) <= 1
    PROVE  \/ Replicas = {} /\ ReadList = table /\ ReadList' = table'
           \/ Replicas = {0} /\ ReadList = view[0] /\ ReadList' = view'[0]
  <1>1. CASE Replicas = {}
    BY <1>1 DEF ReadList
  <1>2. CASE Replicas # {}
    <2>1. Replicas = {0} /\ ReadList = view[0]
      BY <1>2, ReadListFacts
    <2>2. rr' \in Nat
      BY Sizes DEF ListTypeOK
    <2>3. rr' % 1 = 0
      <3>1. \A n \in Nat : n % 1 = 0
        OBVIOUS
      <3> QED
        BY <2>2, <3>1
    <2>4. Cardinality({0}) = 1
      BY FS_Singleton
    <2>5. ReadList' = view'[0]
      BY <2>1, <2>3, <2>4 DEF ReadList
    <2> QED
      BY <2>1, <2>5
  <1> QED
    BY <1>1, <1>2

\* The pages of a walk that have been read.
Done == IF phase = "answered" THEN page ELSE page - 1

\* A walk that reads from one pool, and from a list that nobody leaves, has
\* seen everybody of those expected who is on the pages it has read; people who
\* join move the others to later pages only.
Swept ==
    /\ expected \subseteq ToSet(ReadList)
    /\ \A i \in 1..Len(ReadList) :
           i <= Done * size /\ ReadList[i] \in expected => ReadList[i] \in seen
    /\ phase = "answered" /\ LastPage /\ same => expected \subseteq seen

WalkOnTrack ==
    /\ phase = "page" => total = Len(counted)
    /\ walking => phase \in {"count", "page", "answered"} /\ Fits(page, size)
    /\ walking /\ Cardinality(Replicas) <= 1 /\ ~shrunk => Swept

\* The list moving on under a walk.
LEMMA SweptStays ==
    ASSUME ListTypeOK, ListTypeOK', UNCHANGED clientVars, Swept,
           ReadList' \in Lists, Keeps(ReadList, ReadList')
    PROVE  Swept'
  <1>1. UNCHANGED <<expected, seen, phase, page, size, same, total>>
    BY DEF clientVars
  <1>2. Done' = Done /\ LastPage' = LastPage
    BY <1>1 DEF Done, LastPage, TotalPages
  <1>3. ReadList \in Lists
    BY ReadListFacts
  <1>4. /\ ToSet(ReadList) \subseteq ToSet(ReadList')
        /\ \A j \in 1..Len(ReadList') : ReadList'[j] \in ToSet(ReadList) =>
               \E i \in 1..Len(ReadList) : i <= j /\ ReadList[i] = ReadList'[j]
    BY <1>3, KeepsPositions
  <1>5. expected' \subseteq ToSet(ReadList')
    BY <1>1, <1>4 DEF Swept
  <1>6. ASSUME NEW j \in 1..Len(ReadList'), j <= Done' * size', ReadList'[j] \in expected'
        PROVE  ReadList'[j] \in seen'
    <2>1. ReadList'[j] \in ToSet(ReadList)
      BY <1>1, <1>6 DEF Swept
    <2>2. PICK i \in 1..Len(ReadList) : i <= j /\ ReadList[i] = ReadList'[j]
      BY <1>4, <2>1
    <2> DEFINE d == Done * size
    <2>3. d \in Int /\ j <= d
      <3>1. page \in Nat /\ size \in Nat
        BY Sizes DEF ListTypeOK
      <3>2. Done \in Int
        BY <3>1 DEF Done
      <3> QED
        BY <1>1, <1>2, <1>6, <3>1, <3>2
    <2>4. i <= Done * size
      <3> HIDE DEF d
      <3>1. Len(ReadList) \in Nat /\ Len(ReadList') \in Nat
        BY <1>3, ListFacts
      <3>2. i <= d
        BY <2>2, <2>3, <3>1
      <3> QED
        BY <3>2 DEF d
    <2>5. ReadList[i] \in expected
      BY <1>1, <1>6, <2>2
    <2> QED
      BY <1>1, <2>2, <2>4, <2>5 DEF Swept
  <1>7. phase' = "answered" /\ LastPage' /\ same' => expected' \subseteq seen'
    BY <1>1, <1>2 DEF Swept
  <1> QED
    BY <1>5, <1>6, <1>7 DEF Swept

\* A client that walks to the last announced page has seen everybody who was
\* there when it began, however long the list, however many join and in
\* whatever place, and whatever the size of a page (user.go:78-131).
THEOREM WalkMissesNobodySafe == ListSpec => []WalkMissesNobody
  <1>1. ListInit => WalkOnTrack
    BY DEF ListInit, WalkOnTrack
  <1>2. ListTypeOK /\ ListTypeOK' /\ WalkOnTrack /\ [ListNext]_listVars => WalkOnTrack'
    <2> SUFFICES ASSUME ListTypeOK, ListTypeOK', WalkOnTrack, [ListNext]_listVars
                 PROVE  WalkOnTrack'
      OBVIOUS
    <2>a. /\ page \in Nat \ {0} /\ size \in Nat \ {0} /\ total \in Nat /\ total <= MaxInt
          /\ page' \in Nat \ {0} /\ size' \in Nat \ {0}
      <3>1. /\ page \in 1..MaxInt /\ page' \in 1..MaxInt
            /\ size \in 1..MaxPageSize /\ size' \in 1..MaxPageSize
            /\ total \in 0..Cardinality(Users)
        BY DEF ListTypeOK
      <3> QED
        BY <3>1, Sizes
    <2>b. /\ ReadList \in Lists /\ Len(ReadList) \in Nat
          /\ ToSet(ReadList) = {ReadList[i] : i \in 1..Len(ReadList)}
      BY ReadListFacts, ListFacts
    <2>c. ASSUME UNCHANGED <<table, view>>
          PROVE  /\ Replicas' = Replicas
                 /\ Cardinality(Replicas) <= 1 => ReadList' = ReadList
      <3>1. Replicas' = Replicas
        BY <2>c DEF Replicas
      <3> QED
        BY <2>c, <3>1, OnePool
    <2>1. ASSUME NEW raw \in RawSizes, StartWalk(raw) PROVE WalkOnTrack'
      <3>1. /\ phase' = "count" /\ page' = 1 /\ expected' = ToSet(ReadList)
            /\ UNCHANGED <<table, view>>
        BY <2>1, ParseTypes DEF StartWalk, dataVars
      <3>2. (page' - 1) * size' = 0 /\ Done' = 0 /\ Done' * size' = 0
        <4>1. page' - 1 = 0
          BY <3>1
        <4>3. \A n \in Nat : 0 * n = 0
          OBVIOUS
        <4>4. 0 * size' = 0
          BY <2>a, <4>3, Zenon
        <4>2. Done' = page' - 1
          BY <3>1, Zenon DEF Done
        <4> QED
          BY <4>1, <4>2, <4>4, Zenon
      <3>3. Fits(page, size)'
        BY <3>2, Sizes DEF Fits
      <3>4. ASSUME Cardinality(Replicas') <= 1 PROVE Swept'
        <4>1. ReadList' = ReadList
          BY <2>c, <3>1, <3>4
        <4>2. \A i \in 1..Len(ReadList') : ~(i <= Done' * size')
          BY <2>b, <3>2, <4>1
        <4> QED
          BY <3>1, <4>1, <4>2 DEF Swept
      <3> QED
        BY <3>1, <3>3, <3>4 DEF WalkOnTrack
    <2>2. ASSUME NEW rawPage \in RawPages, NEW rawSize \in RawSizes, Ask(rawPage, rawSize)
          PROVE  WalkOnTrack'
      <3>1. ~walking' /\ phase' = "count"
        BY <2>2 DEF Ask, WalkOnTrack
      <3> QED
        BY <3>1 DEF WalkOnTrack
    <2>3. CASE Count
      <3>1. /\ phase = "count" /\ phase' = "page" /\ total' = Len(counted')
            /\ UNCHANGED <<table, view, walking, page, size, seen, expected, shrunk>>
        BY <2>3 DEF Count
      <3>2. Fits(page, size)' = Fits(page, size) /\ Done' = Done
        BY <3>1 DEF Fits, Done
      <3>3. ASSUME Swept, Cardinality(Replicas) <= 1 PROVE Swept'
        <4>1. ReadList' = ReadList
          BY <2>c, <3>1, <3>3
        <4> QED
          BY <3>1, <3>2, <3>3, <4>1 DEF Swept
      <3>4. Replicas' = Replicas
        BY <2>c, <3>1
      <3> QED
        BY <3>1, <3>2, <3>3, <3>4 DEF WalkOnTrack
    <2>4. CASE GetPage
      <3>1. /\ phase = "page" /\ phase' \in {"failed", "answered"}
            /\ UNCHANGED <<table, view, walking, page, size, total, expected, shrunk>>
        BY <2>4 DEF GetPage
      <3>2. Fits(page, size)' = Fits(page, size) /\ Replicas' = Replicas
        BY <2>c, <3>1 DEF Fits
      <3>3. CASE ~walking
        BY <3>1, <3>3 DEF WalkOnTrack
      <3>4. CASE walking
        <4>1. Fits(page, size)
          BY <3>4 DEF WalkOnTrack
        <4> DEFINE o == (page - 1) * size
        <4>2. Offset(page, size) = o /\ Offset(page, size) \in Nat
          BY <2>a, <4>1, OffsetFits
        <4>3. /\ phase' = "answered" /\ answer' = Rows(ReadList, page, size)
              /\ same' = (ReadList = counted)
              /\ seen' = seen \cup ToSet(answer')
          BY <2>4, <3>4, <4>2 DEF GetPage
        <4>4. ASSUME Cardinality(Replicas) <= 1, ~shrunk PROVE Swept'
          <5>1. Swept /\ ReadList' = ReadList
            BY <2>c, <3>1, <3>4, <4>4 DEF WalkOnTrack
          <5>2. Done = page - 1 /\ Done' = page
            BY <3>1, <4>3 DEF Done
          <5>3. page * size = o + size /\ o \in Nat
            BY <2>a
          <5> HIDE DEF o
          <5>4. ASSUME NEW i \in 1..Len(ReadList), i <= page * size, ReadList[i] \in expected
                PROVE  ReadList[i] \in seen'
            <6>1. CASE i <= o
              <7>1. ReadList[i] \in seen
                BY <5>1, <5>2, <5>4, <6>1 DEF Swept, o
              <7> QED
                BY <4>3, <7>1
            <6>2. CASE o < i
              <7>1. i <= o + size
                BY <5>3, <5>4
              <7>2. ReadList[i] \in ToSet(answer')
                BY <2>a, <2>b, <4>2, <4>3, <6>2, <7>1, RowsFacts
              <7> QED
                BY <4>3, <7>2
            <6> QED
              BY <2>b, <5>3, <6>1, <6>2
          <5>5. ASSUME LastPage', same' PROVE expected \subseteq seen'
            <6>1. ReadList = counted
              BY <4>3, <5>5, Zenon
            <6>2. Len(ReadList) = total
              BY <3>1, <6>1 DEF WalkOnTrack
            <6>3. page >= TotalPages(total, size)
              BY <3>1, <5>5 DEF LastPage, TotalPages
            <6>4. ~(page + 1 <= TotalPages(total, size)) /\ page + 1 \in Nat \ {0}
              BY <2>a, <6>3, PageCount
            <6>5. ~(((page + 1) - 1) * size < total)
              BY <2>a, <6>4, PageCount
            <6>6. page * size \in Nat /\ total <= page * size
              BY <2>a, <6>5
            <6>7. \A i \in 1..Len(ReadList) : i <= page * size
              <7> DEFINE n == page * size
              <7> HIDE DEF n
              <7>1. n \in Nat /\ total <= n
                BY <6>6 DEF n
              <7>2. \A i \in 1..Len(ReadList) : i <= n
                BY <2>a, <6>2, <7>1
              <7> QED
                BY <7>2 DEF n
            <6>8. expected \subseteq {ReadList[i] : i \in 1..Len(ReadList)}
              BY <2>b, <5>1 DEF Swept
            <6> QED
              BY <5>4, <6>7, <6>8
          <5>6. expected' \subseteq ToSet(ReadList')
            BY <3>1, <5>1 DEF Swept
          <5> QED
            BY <3>1, <5>1, <5>2, <5>4, <5>5, <5>6 DEF Swept
        <4>5. phase' # "page" /\ (walking' => Fits(page, size)')
          BY <3>2, <4>1, <4>3
        <4> QED
          BY <3>1, <3>2, <4>3, <4>4, <4>5 DEF WalkOnTrack
      <3> QED
        BY <3>3, <3>4
    <2>5. CASE NextPage
      <3>1. /\ phase = "answered" /\ phase' = "count" /\ walking /\ ~LastPage /\ page' = page + 1
            /\ UNCHANGED <<table, view, walking, size, seen, expected, shrunk>>
        BY <2>5 DEF NextPage, dataVars
      <3>2. Done = page /\ Done' = page
        BY <2>a, <3>1 DEF Done
      <3>3. Fits(page, size)'
        <4>1. page + 1 \in Nat \ {0} /\ page + 1 <= TotalPages(total, size)
          BY <2>a, <3>1, PageCount DEF LastPage
        <4>2. ((page + 1) - 1) * size < total
          BY <2>a, <4>1, PageCount
        <4>3. (page' - 1) * size' = page * size /\ page * size \in Nat
              /\ ((page + 1) - 1) * size = page * size
          BY <2>a, <3>1
        <4>4. page * size <= MaxInt
          <5> DEFINE n == page * size
          <5>1. n \in Nat /\ n < total
            BY <4>2, <4>3
          <5> HIDE DEF n
          <5>2. n <= MaxInt
            BY <2>a, <5>1, Sizes
          <5> QED
            BY <5>2 DEF n
        <4> QED
          BY <4>3, <4>4 DEF Fits
      <3>4. ASSUME Swept, Cardinality(Replicas) <= 1 PROVE Swept'
        <4>1. ReadList' = ReadList
          BY <2>c, <3>1, <3>4
        <4> QED
          BY <3>1, <3>2, <3>4, <4>1 DEF Swept
      <3>5. Replicas' = Replicas
        BY <2>c, <3>1
      <3> QED
        BY <3>1, <3>3, <3>4, <3>5 DEF WalkOnTrack
    <2>6. CASE Finish \/ QueryFails
      BY <2>6 DEF Finish, QueryFails, Forget, WalkOnTrack
    <2>d. ASSUME UNCHANGED clientVars, Replicas' = Replicas, shrunk => shrunk',
                 walking /\ Cardinality(Replicas) <= 1 /\ ~shrunk' =>
                     ReadList' \in Lists /\ Keeps(ReadList, ReadList')
          PROVE  WalkOnTrack'
      <3>1. UNCHANGED <<phase, walking, page, size, total, counted>>
        BY <2>d DEF clientVars
      <3>2. Fits(page, size)' = Fits(page, size)
        BY <3>1 DEF Fits
      <3>3. ASSUME walking, Cardinality(Replicas) <= 1, ~shrunk' PROVE Swept'
        <4>1. Swept
          BY <2>d, <3>3 DEF WalkOnTrack
        <4> QED
          BY <2>d, <3>3, <4>1, SweptStays
      <3> QED
        BY <2>d, <3>1, <3>2, <3>3 DEF WalkOnTrack
    <2>e. UNCHANGED <<table, view, shrunk, clientVars>> => WalkOnTrack'
      BY <2>b, <2>c, <2>d, KeepsSame
    <2>7. ASSUME NEW u \in Users, Join(u) PROVE WalkOnTrack'
      <3>1. UNCHANGED <<view, clientVars, shrunk>> /\ Replicas' = Replicas
        BY <2>7 DEF Join, Replicas
      <3>2. ASSUME Cardinality(Replicas) <= 1
            PROVE  ReadList' \in Lists /\ Keeps(ReadList, ReadList')
        <4>1. CASE ReadList = table /\ ReadList' = table'
          BY <2>7, <4>1, JoinKeeps DEF ListTypeOK
        <4>2. CASE ReadList = view[0] /\ ReadList' = view'[0]
          BY <2>b, <3>1, <4>2, KeepsSame
        <4> QED
          BY <3>1, <3>2, <4>1, <4>2, OnePool
      <3> QED
        BY <2>d, <3>1, <3>2
    <2>8. ASSUME NEW u \in Users, Leave(u) PROVE WalkOnTrack'
      <3>1. UNCHANGED <<view, clientVars>> /\ Replicas' = Replicas
            /\ shrunk' = (shrunk \/ (walking /\ Replicas = {}))
        BY <2>8 DEF Leave, Replicas
      <3>2. ASSUME walking, Cardinality(Replicas) <= 1, ~shrunk'
            PROVE  ReadList' \in Lists /\ Keeps(ReadList, ReadList')
        <4>1. Replicas # {}
          BY <3>1, <3>2, Zenon
        <4>2. ReadList = view[0] /\ ReadList' = view'[0]
          BY <3>1, <3>2, <4>1, OnePool
        <4> QED
          BY <2>b, <3>1, <4>2, KeepsSame
      <3>3. shrunk => shrunk'
        BY <3>1, Zenon
      <3> QED
        BY <2>d, <3>1, <3>2, <3>3
    <2>9. ASSUME NEW r \in Replicas, CatchUp(r) PROVE WalkOnTrack'
      <3>1. /\ UNCHANGED <<table, clientVars>>
            /\ view' = [view EXCEPT ![r] = table]
            /\ shrunk' = (shrunk \/ (walking /\ ~Keeps(view[r], table)))
        BY <2>9 DEF CatchUp
      <3>2. Replicas' = Replicas
        BY <3>1 DEF Replicas
      <3>3. ASSUME walking, Cardinality(Replicas) <= 1, ~shrunk'
            PROVE  ReadList' \in Lists /\ Keeps(ReadList, ReadList')
        <4>1. Replicas = {0} /\ ReadList = view[0] /\ ReadList' = view'[0] /\ r = 0
          BY <3>2, <3>3, OnePool
        <4>2. ReadList' = table
          BY <3>1, <4>1 DEF Replicas
        <4>3. Keeps(view[r], table)
          BY <3>1, <3>3, Zenon
        <4> QED
          BY <4>1, <4>2, <4>3 DEF ListTypeOK
      <3>4. shrunk => shrunk'
        BY <3>1, Zenon
      <3> QED
        BY <2>d, <3>1, <3>2, <3>3, <3>4
    <2>10. CASE OtherRead
      BY <2>e, <2>10 DEF OtherRead
    <2>11. CASE UNCHANGED listVars
      BY <2>e, <2>11 DEF listVars, dataVars
    <2> QED
      BY <2>1, <2>2, <2>3, <2>4, <2>5, <2>6, <2>7, <2>8, <2>9, <2>10, <2>11 DEF ListNext
  <1>3. WalkOnTrack => WalkMissesNobody
    BY DEF WalkOnTrack, Swept, WalkMissesNobody
  <1> QED
    BY <1>1, <1>2, <1>3, ListTypeCorrect, PTL DEF ListSpec
=============================================================================
