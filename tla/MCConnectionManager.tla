-------------------------- MODULE MCConnectionManager --------------------------
(* Two callers and two reconnect loops for TLC. *)
EXTENDS ConnectionManager

CONSTANTS p1, p2, s1, s2

TwoCallers == {p1, p2}
TwoSlots == {s1, s2}
=============================================================================
