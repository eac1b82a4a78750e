--------------------------- MODULE MCUserService ---------------------------
(* Instances of UserService for TLC. *)
EXTENDS UserService, TLC

Symmetry == Permutations(Procs)
=============================================================================
