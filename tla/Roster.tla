------------------------------- MODULE Roster -------------------------------
(***************************************************************************)
(* What user management promises about the active super admins: one joins  *)
(* or leaves at a time, and the last one stays, unless the roster has been *)
(* excused from that.                                                      *)
(***************************************************************************)
CONSTANT People

VARIABLES
    admins,    \* the active super admins
    excused    \* TRUE once readings of the roster may have been out of date

Join(u) == admins' = admins \cup {u}
Leave(u) == (admins = {u} => excused') /\ admins' = admins \ {u}
Excuse == excused' = TRUE /\ admins' = admins

Init == admins \in SUBSET People /\ excused \in BOOLEAN
Next == /\ excused => excused'
        /\ excused' \in BOOLEAN
        /\ Excuse \/ \E u \in People : Join(u) \/ Leave(u)

Spec == Init /\ [][Next]_<<admins, excused>>
=============================================================================
