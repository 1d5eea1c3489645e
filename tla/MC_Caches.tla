----------------------------- MODULE MC_Caches ------------------------------
(* Instances of the two halves of the index for TLC.  They share nothing   *)
(* but the file they are kept in: each behaviour runs one of them, with    *)
(* the other at rest in its first state.                                   *)
EXTENDS BodyCache, AttrCache, TLC

CONSTANTS v1, v2

VARIABLE part

MCSizeOf == v1 :> 1 @@ v2 :> 2
BothBackends == {"bolt", "memory"}

(* Interchangeable: paths and goroutines; versions of a body differ in     *)
(* size, those of a file in age.                                           *)
Symmetry == Permutations(Keys) \cup Permutations(Callers)
              \cup Permutations(Paths) \cup Permutations(Builders)

CachesInit ==
  /\ part \in {"bodies", "attributes"}
  /\ BodyInit /\ (part # "bodies" => cap = Max(Caps))
  /\ Init /\ (part # "attributes" => backend = "memory")

CachesNext ==
  /\ IF part = "bodies" THEN BodyNext ELSE UNCHANGED bodyVars
  /\ IF part = "attributes" THEN Next ELSE UNCHANGED vars
  /\ UNCHANGED part

CachesSpec == CachesInit /\ [][CachesNext]_<<bodyVars, vars, part>>
=============================================================================
