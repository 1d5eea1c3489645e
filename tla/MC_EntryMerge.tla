--------------------------- MODULE MC_EntryMerge ----------------------------
(* Instances of EntryMerge for TLC.                                        *)
EXTENDS EntryMerge, TLC

(* Tools are interchangeable.                                              *)
Symmetry == Permutations(Tools)
=============================================================================
