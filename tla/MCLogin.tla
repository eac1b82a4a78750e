------------------------------ MODULE MCLogin ------------------------------
(* Instances of Login for TLC. *)
EXTENDS Login, TLC

Symmetry == Permutations(Logins) \cup Permutations(Users)
                \cup Permutations(Passwords)
=============================================================================
