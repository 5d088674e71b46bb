----------------------------- MODULE MCProcessor -----------------------------
(* Instances of Processor for TLC.                                         *)
EXTENDS Processor, TLC

MCSalience == [i \in Ids |-> IF i = 1 THEN 8 ELSE IF i = 2 THEN 6 ELSE 3]
MCDecayRate == [i \in Ids |-> IF i = 1 THEN 75 ELSE IF i = 2 THEN 10 ELSE 0]

(* A chain: similarity is not transitive.                                  *)
MCChain == {{1, 2}, {2, 3}}
MCPair == {{1, 2}}

(* One run decays and consolidates, the other relates and consolidates.    *)
MCTasks == [r \in Runs |-> {"consolidation",
                            IF r = "run 1" THEN "decay" ELSE "relations"}]
MCDecay == [r \in Runs |-> {"decay"}]
=============================================================================
