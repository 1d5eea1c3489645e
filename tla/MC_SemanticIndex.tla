-------------------------- MODULE MC_SemanticIndex --------------------------
(* Instances of SemanticIndex for TLC.                                     *)
EXTENDS SemanticIndex, TLC

BothBackends == {"bolt", "memory"}

(* The first version is the longer one.                                    *)
Shrinking == [v \in 1 .. MaxVersion |-> IF v = 1 THEN 2 ELSE 1]

Symmetry == Permutations(Files) \cup Permutations(Models) \cup Permutations(Callers)
=============================================================================
