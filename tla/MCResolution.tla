----------------------------- MODULE MCResolution -----------------------------
(* Small supersedes graphs for TLC. *)
EXTENDS Resolution, TLC

CONSTANTS p1, p2

TwoProcs == {p1, p2}
TwoFacts == 1 .. 2

(* Sound for safety only: ingests are interchangeable. *)
Symmetry == Permutations(TwoProcs)
=============================================================================
