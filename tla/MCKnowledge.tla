----------------------------- MODULE MCKnowledge -----------------------------
(* A small knowledge base for TLC.                                         *)
EXTENDS Knowledge, TLC

CONSTANTS b1, a1, a2, p1, p2

OneBucket == {b1}
TwoAgents == {a1, a2}
TwoRequests == {p1, p2}

(* The texts of up to twelve characters of which at most three are not     *)
(* letters, or two when there are spaces: up to four chunks of seven.      *)
Places(n, most) == UNION {kSubset(k, 1 .. n) : k \in 0 .. most}

Marks(n) == UNION ({[S -> {"stop", "newline"}] : S \in Places(n, 3)}
                     \cup {[S -> {"stop", "newline", "space"}] : S \in Places(n, 2)})

AllTexts == UNION {{[k \in 1 .. n |-> IF k \in DOMAIN m THEN m[k] ELSE "letter"] : m \in Marks(n)} :
                     n \in 0 .. 12}

(* One chunk, and two.                                                     *)
TwoTexts == {<<"letter", "stop">>, <<"letter", "letter", "letter", "stop", "letter">>}

Symmetry == Permutations(TwoAgents) \cup Permutations(TwoRequests)
=============================================================================
