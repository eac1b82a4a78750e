---------------------------- MODULE MCAuthSystem ----------------------------
(* Instances of AuthSystem for TLC. *)
EXTENDS AuthSystem, TLC

Symmetry == Permutations(Enrolments) \cup Permutations(Logins)
                \cup Permutations(Secrets)
=============================================================================
