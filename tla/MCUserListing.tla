--------------------------- MODULE MCUserListing ---------------------------
(* Instances of UserListing for TLC. *)
EXTENDS UserListing, TLC

Symmetry == Permutations(Users)

\* Negative, zero, every int there is, of which the larger ones overflow.
Pages == -1..MaxInt

\* Zero, every size, one that is too large.
Sizes == 0..MaxPageSize + 1
=============================================================================
