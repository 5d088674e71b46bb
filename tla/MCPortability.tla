---------------------------- MODULE MCPortability ----------------------------
(* Two memories, exported, changed and imported again, for TLC. *)
EXTENDS Portability, TLC

(* What memories say is only ever compared, so that the texts can be       *)
(* swapped for each other.                                                 *)
Rewordings == Permutations(Contents)

PmfModes == {m \in AllModes : m.format = "pmf"}
JsonModes == AllModes \ PmfModes
=============================================================================
