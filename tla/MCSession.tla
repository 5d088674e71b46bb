------------------------------ MODULE MCSession ------------------------------
(* A few short sessions for TLC; ids and calls are interchangeable. *)
EXTENDS Session, TLC

CONSTANTS a, b, c1, c2

TwoNames == {a, b}
TwoCalls == {c1, c2}

Symmetric == Permutations(TwoNames) \cup Permutations(TwoCalls)
=============================================================================
