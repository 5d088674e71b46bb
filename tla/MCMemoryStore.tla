---------------------------- MODULE MCMemoryStore ----------------------------
(* Small dual stores for TLC. *)
EXTENDS MemoryStore, TLC

CONSTANTS p1, p2, t1, t2

TwoProcs == {p1, p2}
OneText == {t1}
TwoTexts == {t1, t2}
TwoIds == 1 .. 2

(* Sound for safety only: processes and texts are interchangeable. *)
Symmetry == Permutations(TwoProcs) \cup Permutations(TwoTexts)
=============================================================================
