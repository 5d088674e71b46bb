--------------------------- MODULE MCSparseMigration ---------------------------
(* Three requests at a time and two points, copied one by one, for TLC. *)
EXTENDS SparseMigration, TLC

TwoPoints == 1 .. 2
Symmetry == Permutations(Calls)
=============================================================================
