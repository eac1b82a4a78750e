---------------------------- MODULE RateLimiter ----------------------------
(***************************************************************************)
(* middleware.RateLimit for one key, that is one client and one route: a   *)
(* Redis counter created by INCR and given its time to live by a separate  *)
(* EXPIRE.  Redis removes the key when the time is over.                   *)
(***************************************************************************)
EXTENDS Naturals, Sequences

CONSTANTS
    Requests,    \* requests of the client in flight at once
    MaxCount,    \* max
    Window,      \* window, in ticks
    CountCap,    \* bound: the counter
    Faults       \* commands that may fail, the answer or the effect lost

ASSUME RateLimiterAssumption ==
    /\ MaxCount \in Nat \ {0}
    /\ Window \in Nat \ {0}
    /\ CountCap \in Nat
    /\ Faults \subseteq {"INCR", "EXPIRE"}

VARIABLES
    count,      \* the counter; 0 when Redis has no such key
    ttl,        \* ticks before Redis removes the key; 0 when none is set
    request,    \* requests between INCR and EXPIRE
    admitted,   \* history: ages in ticks of the requests the counter has let
                \* through in the last window, youngest first
    lost        \* history: an EXPIRE for the present key did not happen

vars == <<count, ttl, request, admitted, lost>>

Ages == 0..(Window - 1)

Admit == admitted' = <<0>> \o admitted

\* All grow older by a tick, and those that are a window old by then are dropped.
GrowOlder == \E n \in 0..Len(admitted) :
    /\ \A i \in 1..Len(admitted) : i <= n <=> admitted[i] + 1 \in Ages
    /\ admitted' = [i \in 1..n |-> admitted[i] + 1]

-----------------------------------------------------------------------------

\* Slips: the limit compared before the increment, and EXPIRE left to the
\* second request of a window, or to none.
IncrOneMore(s) ==
    /\ request[s] = "idle"
    /\ count < CountCap
    /\ count' = count + 1
    /\ IF count <= MaxCount THEN Admit ELSE admitted' = admitted
    /\ request' = IF count' = 1 THEN [request EXCEPT ![s] = "expire"] ELSE request
    /\ UNCHANGED <<ttl, lost>>

IncrExpireAt(s, first) ==
    /\ request[s] = "idle"
    /\ count < CountCap
    /\ count' = count + 1
    /\ IF count' <= MaxCount THEN Admit ELSE admitted' = admitted
    /\ request' = IF count' = first THEN [request EXCEPT ![s] = "expire"] ELSE request
    /\ UNCHANGED <<ttl, lost>>
IncrExpireSecond(s) == IncrExpireAt(s, 2)
IncrExpireNever(s) == IncrExpireAt(s, 0)

\* INCR; the answer decides whether the request passes.
Incr(s) ==
    /\ request[s] = "idle"
    /\ count < CountCap
    /\ count' = count + 1
    /\ IF count' <= MaxCount THEN Admit ELSE admitted' = admitted
    /\ request' = IF count' = 1 THEN [request EXCEPT ![s] = "expire"] ELSE request
    /\ UNCHANGED <<ttl, lost>>

\* Slip: the life of the key is rounded up.
ExpireLonger(s) ==
    /\ request[s] = "expire"
    /\ ttl' = IF count > 0 THEN Window + 1 ELSE 0
    /\ request' = [request EXCEPT ![s] = "idle"]
    /\ UNCHANGED <<count, admitted, lost>>

Expire(s) ==
    /\ request[s] = "expire"
    /\ ttl' = IF count > 0 THEN Window ELSE 0
    /\ request' = [request EXCEPT ![s] = "idle"]
    /\ UNCHANGED <<count, admitted, lost>>

\* INCR is answered with an error, and the request passes.  When Redis has not
\* run it nothing here changes; this is an answer that got lost.
FailOpen(s) ==
    /\ "INCR" \in Faults
    /\ request[s] = "idle"
    /\ count < CountCap
    /\ count' = count + 1
    /\ lost' = (lost \/ count = 0)
    /\ UNCHANGED <<ttl, request, admitted>>

\* EXPIRE runs under the request's context, and its error is not looked at.
LoseExpire(s) ==
    /\ "EXPIRE" \in Faults
    /\ request[s] = "expire"
    /\ request' = [request EXCEPT ![s] = "idle"]
    /\ lost' = TRUE
    /\ UNCHANGED <<count, ttl, admitted>>

Tick ==
    /\ ttl' = IF ttl > 0 THEN ttl - 1 ELSE 0
    /\ IF ttl = 1 THEN count' = 0 /\ lost' = FALSE ELSE UNCHANGED <<count, lost>>
    /\ GrowOlder
    /\ UNCHANGED request

-----------------------------------------------------------------------------

Init ==
    /\ count = 0
    /\ ttl = 0
    /\ request = [s \in Requests |-> "idle"]
    /\ admitted = <<>>
    /\ lost = FALSE

Next == \/ \E s \in Requests : Incr(s) \/ Expire(s) \/ FailOpen(s) \/ LoseExpire(s)
        \/ Tick

Spec == Init /\ [][Next]_vars

\* Time passes, and a request that has begun goes on to its EXPIRE.
FairSpec == /\ Spec
            /\ WF_vars(Tick)
            /\ \A s \in Requests : WF_vars(Expire(s))

-----------------------------------------------------------------------------

TypeOK ==
    /\ count \in 0..CountCap
    /\ ttl \in 0..Window
    /\ request \in [Requests -> {"idle", "expire"}]
    /\ admitted \in Seq(Ages)
    /\ lost \in BOOLEAN

InWindow == Len(admitted)

\* The counter lets no more than twice the limit through in any stretch of
\* one window: it touches two lives of the key at most, because a key lives a
\* full window after its EXPIRE (rate_limit.go:50-63).
TwoWindowBound == InWindow <= 2 * MaxCount

\* A key that has no time to live has exactly one request about to give it
\* one, unless that request's EXPIRE was lost (rate_limit.go:54-57).
OneExpirePending ==
    /\ count > 0 /\ ttl = 0 /\ ~lost =>
           \E s \in Requests : request[s] = "expire"
    /\ \A s, t \in Requests :
           request[s] = "expire" /\ request[t] = "expire" => s = t

\* A blocked client is let through again: the key goes away in the end, unless
\* its EXPIRE is lost (rate_limit.go:54-57).
KeyGoesAway == count > 0 ~> count = 0 \/ lost

\* rate_limit.go:14-16 promises a window, and that an unavailable Redis lets
\* requests through: no key blocks its client for good.
BlockEnds == count > MaxCount ~> count <= MaxCount

\* rate_limit.go:14 and docs/architecture.md:111 say that the limit is a
\* sliding window: no stretch of one window lets more than max through.
SlidingWindow == InWindow <= MaxCount
=============================================================================
