---------------------------- MODULE OneTimeCode ----------------------------
(***************************************************************************)
(* What the reset of a password promises, without requests, tables and     *)
(* replicas: somebody has one open code at a time, a code is taken once    *)
(* and only while it is open, and a password changes only for somebody     *)
(* whose code was taken.  People may be excused from having one code only. *)
(***************************************************************************)
EXTENDS Naturals

CONSTANTS People, Codes, Nobody

VARIABLES
    owner,      \* whose a code is; Nobody while it has not been made
    open,       \* the codes that can be taken
    taken,      \* how often a code was taken
    password,   \* per person
    excused     \* people who may have several open codes

vars == <<owner, open, taken, password, excused>>

Make(u, c) ==
    /\ owner[c] = Nobody
    /\ u \in excused \/ \A d \in open : owner[d] # u
    /\ owner' = [owner EXCEPT ![c] = u]
    /\ open' = open \cup {c}
    /\ UNCHANGED <<taken, password, excused>>

Take(c) ==
    /\ c \in open
    /\ open' = open \ {c}
    /\ taken' = [taken EXCEPT ![c] = @ + 1]
    /\ UNCHANGED <<owner, password, excused>>

\* Codes run out, or are withdrawn; what was open for one excused may stay so.
Lapse ==
    /\ open' \subseteq open
    /\ excused \subseteq excused' /\ excused' \subseteq People
    /\ UNCHANGED <<owner, taken, password>>

Change(u) ==
    /\ \E c \in Codes : owner[c] = u /\ taken[c] > 0
    /\ password' = [password EXCEPT ![u] = password'[u]]
    /\ UNCHANGED <<owner, open, taken, excused>>

Init ==
    /\ owner = [c \in Codes |-> Nobody]
    /\ open = {}
    /\ taken = [c \in Codes |-> 0]
    /\ excused = {}

Next ==
    \/ \E c \in Codes : Take(c) \/ \E u \in People : Make(u, c)
    \/ Lapse
    \/ \E u \in People : Change(u)

Spec == Init /\ [][Next]_vars
=============================================================================
