---------------------------- MODULE SearchResult ----------------------------
(***************************************************************************)
(* What a search promises its caller: it reports matching files only, each *)
(* once, and when it ends without an error it has reported all of them.    *)
(* A search that was cancelled, or that failed, may have reported fewer.   *)
(***************************************************************************)
CONSTANT Matching    \* the files that match

VARIABLES
  found,      \* the files reported so far
  outcome     \* "running", "complete" or "partial"

svars == <<found, outcome>>

Init == found = {} /\ outcome = "running"

Report ==
  /\ outcome = "running"
  /\ \E f \in Matching \ found : found' = found \cup {f}
  /\ UNCHANGED outcome

End ==
  /\ outcome = "running"
  /\ \/ outcome' = "complete" /\ found = Matching
     \/ outcome' = "partial"
  /\ UNCHANGED found

Next == Report \/ End

Spec == Init /\ [][Next]_svars
=============================================================================
