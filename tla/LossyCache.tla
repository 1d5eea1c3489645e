----------------------------- MODULE LossyCache -----------------------------
(***************************************************************************)
(* What index.Index promises about one half of the cache (attributes or    *)
(* bodies), whatever the backend: a value is visible under a path only     *)
(* because somebody offered that very value for that very path, and the    *)
(* cache may forget anything at any time.  Nothing is said of how long an  *)
(* offer takes, whether it is dropped, or what evicts an entry.            *)
(***************************************************************************)
CONSTANTS
  Keys,      \* absolute paths
  Values,    \* what can be cached under a path (a version of its content)
  None       \* "no entry"

VARIABLES
  cached,    \* what a lookup would find under each path
  offered    \* offers accepted but not yet settled

lvars == <<cached, offered>>

Offers == Keys \X Values

Init ==
  /\ cached \in [Keys -> Values \cup {None}]
  /\ offered = {}

(* A caller hands the cache a value: Put / PutBody.                        *)
Offer ==
  \E o \in Offers :
    /\ offered' \subseteq offered \cup {o}
    /\ UNCHANGED cached

(* The cache moves on: some offers become visible, some entries and some   *)
(* offers are forgotten.                                                   *)
Settle ==
  /\ cached' \in [Keys -> Values \cup {None}]
  /\ \A k \in Keys : \/ cached'[k] \in {cached[k], None}
                     \/ <<k, cached'[k]>> \in offered
  /\ offered' \subseteq offered

Next == Offer \/ Settle

Spec == Init /\ [][Next]_lvars
=============================================================================
