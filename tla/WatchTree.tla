----------------------------- MODULE WatchTree ------------------------------
(***************************************************************************)
(* Which directories a watch watches: addDirsRecursive and the CREATE      *)
(* branch of watchLoop (internal/search/watch.go).  fsnotify is not        *)
(* recursive: each directory is registered by itself, the roots' trees at  *)
(* the start and later ones when a CREATE event names them.                *)
(*                                                                         *)
(* filepath.WalkDir calls the visitor for a directory, which registers it, *)
(* and lists the directory after that: what is made before the listing is  *)
(* found by it, what is made after the registration raises an event.       *)
(***************************************************************************)
EXTENDS Integers, Sequences, SequencesExt, FiniteSets

CONSTANTS
  Nodes,       \* directories and files under the roots, and the roots
  Files,       \* those that are files
  Parent,      \* parent of each node, itself for a topmost one
  Roots,       \* the watch's roots, a sequence
  Hidden,      \* directories whose name is excluded, .git among them
  Ignored,     \* directories a root's .gitignore names
  FileCosts,   \* values of fileWatchCostsFD
  MaxWatchFDs, \* the descriptor budget
  MaxMoves     \* bound: changes made to the tree

ASSUME WatchTreeAssumption ==
  /\ IsFiniteSet(Nodes) /\ Files \subseteq Nodes /\ Parent \in [Nodes -> Nodes \ Files]
  /\ Roots \in Seq(Nodes) \ {<<>>}
  /\ Hidden \subseteq Nodes /\ Ignored \subseteq Nodes
  /\ FileCosts \subseteq BOOLEAN
  /\ MaxWatchFDs \in Nat /\ MaxMoves \in Nat

VARIABLES
  exists,     \* nodes that exist
  moves,      \* changes made to the tree
  watched,    \* directories with a watch
  arrivals,   \* CREATE events of directories, not yet received
  toRegister, \* roots still to be registered
  toVisit,    \* what the walk under way has before it
  top,        \* root of that walk
  remaining,  \* budget.remaining
  truncated,  \* budget.truncated
  costly,     \* fileWatchCostsFD
  setup       \* "ok", or "failed" when a root is missing

treeVars == <<exists, moves, arrivals, watched>>
budgetVars == <<remaining, truncated, costly>>
treeWatchVars == <<treeVars, toRegister, toVisit, top, budgetVars, setup>>

Dirs == Nodes \ Files
RootSet == {Roots[i] : i \in DOMAIN Roots}

Children(d) == {n \in Nodes \ {d} : Parent[n] = d}
Whole(S) == \A n \in S : Parent[n] \in S \* a tree that may exist

(* A node is in the subtree of those that exist whenever it does.          *)
Above == [n \in Nodes |-> {d \in Nodes : \A S \in SUBSET Nodes : n \in S /\ Whole(S) => d \in S}]
Subtree(d) == {n \in Nodes : d \in Above[n]}

Todo(what, n) == [does |-> what, node |-> n]

TreeStart(S, costs) ==
  /\ exists = S /\ moves = 0
  /\ watched = {} /\ arrivals = <<>>
  /\ toRegister = Roots /\ toVisit = <<>> /\ top = Head(Roots)
  /\ remaining = MaxWatchFDs /\ truncated = FALSE /\ costly = costs
  /\ setup = "ok"

TreeInit ==
  \E S \in {S \in SUBSET Nodes : Whole(S) /\ RootSet \subseteq S}, costs \in FileCosts :
    TreeStart(S, costs)

-----------------------------------------------------------------------------
(* The tree.  A directory appears empty, or with what is in it when it is  *)
(* unpacked or moved here; only a watch on its parent reports it.  A       *)
(* directory that goes takes its watches along.                            *)
Appear(n) ==
  /\ n \notin exists /\ Parent[n] \in exists /\ moves < MaxMoves
  /\ \E S \in SUBSET Subtree(n) :
       /\ n \in S /\ Whole(S \cup exists)
       /\ exists' = exists \cup S
  /\ moves' = moves + 1
  /\ arrivals' = IF n \in Dirs /\ Parent[n] \in watched THEN Append(arrivals, n) ELSE arrivals
  /\ UNCHANGED <<watched, toRegister, toVisit, top, budgetVars, setup>>

Vanish(n) ==
  /\ n \in exists /\ moves < MaxMoves
  /\ exists' = exists \ Subtree(n)
  /\ watched' = watched \ Subtree(n)
  /\ moves' = moves + 1
  /\ UNCHANGED <<arrivals, toRegister, toVisit, top, budgetVars, setup>>

-----------------------------------------------------------------------------
Idle == toVisit = <<>> /\ setup = "ok"

WalkFrom(n) == top' = n /\ toVisit' = <<Todo("visit", n)>>

(* addDirsRecursive for one of the roots.  For a single file the watch is  *)
(* on its directory, whatever the budget.                                  *)
RegisterRoot ==
  /\ Idle /\ toRegister # <<>>
  /\ LET r == Head(toRegister) IN
       CASE r \notin exists -> setup' = "failed" /\ UNCHANGED <<watched, toVisit, top>>
         [] r \in Files \cap exists -> /\ watched' = watched \cup {Parent[r]}
                                       /\ UNCHANGED <<toVisit, top, setup>>
         [] OTHER -> WalkFrom(r) /\ UNCHANGED <<watched, setup>>
  /\ toRegister' = Tail(toRegister)
  /\ UNCHANGED <<exists, moves, arrivals, budgetVars>>

(* The loop's CREATE branch, with its own os.Stat.                         *)
ReceiveCreate ==
  /\ Idle /\ toRegister = <<>> /\ arrivals # <<>>
  /\ IF Head(arrivals) \in exists THEN WalkFrom(Head(arrivals)) ELSE UNCHANGED <<toVisit, top>>
  /\ arrivals' = Tail(arrivals)
  /\ UNCHANGED <<exists, moves, watched, toRegister, budgetVars, setup>>

Doing(what, n) == setup = "ok" /\ toVisit # <<>> /\ Head(toVisit) = Todo(what, n)

(* The root of a walk is exempt from the exclusions, and the .gitignore of *)
(* a directory that came later is that directory's own.                    *)
Excluded(n) == n # top /\ (n \in Hidden \/ (n \in Ignored /\ top \in RootSet))

Stop == truncated' = TRUE /\ toVisit' = <<>>

VisitFile(n) ==
  /\ Doing("visit", n) /\ n \in Files
  /\ remaining' = IF costly THEN remaining - 1 ELSE remaining
  /\ IF costly /\ remaining <= 1 THEN Stop ELSE toVisit' = Tail(toVisit) /\ UNCHANGED truncated
  /\ UNCHANGED <<treeVars, toRegister, top, costly, setup>>

(* What the visit of a directory leads to.                                 *)
Opened_ListFirst(n) == <<Todo("list", n), Todo("add", n)>>
Opened(n) == <<Todo("add", n), Todo("list", n)>>

VisitDir(n) ==
  /\ Doing("visit", n) /\ n \in Dirs
  /\ IF Excluded(n) \/ (n = top /\ n \notin exists)
       THEN toVisit' = Tail(toVisit) /\ UNCHANGED truncated
       ELSE IF remaining <= 0 THEN Stop
                              ELSE toVisit' = Opened(n) \o Tail(toVisit) /\ UNCHANGED truncated
  /\ UNCHANGED <<treeVars, toRegister, top, remaining, costly, setup>>

(* watcher.Add fails for a directory that has gone, and is charged for.    *)
AddWatch(n) ==
  /\ Doing("add", n)
  /\ watched' = watched \cup ({n} \cap exists)
  /\ remaining' = remaining - 1
  /\ toVisit' = Tail(toVisit)
  /\ UNCHANGED <<exists, moves, arrivals, toRegister, top, truncated, costly, setup>>

ListDir(n) ==
  /\ Doing("list", n)
  /\ LET found == SetToSeq(Children(n) \cap exists)
     IN  toVisit' = [i \in DOMAIN found |-> Todo("visit", found[i])] \o Tail(toVisit)
  /\ UNCHANGED <<treeVars, toRegister, top, budgetVars, setup>>

WatchStep ==
  \/ RegisterRoot \/ ReceiveCreate
  \/ \E n \in Nodes : VisitFile(n) \/ VisitDir(n) \/ AddWatch(n) \/ ListDir(n)

TreeNext == WatchStep \/ \E n \in Nodes : Appear(n) \/ Vanish(n)

TreeSpec == TreeInit /\ [][TreeNext]_treeWatchVars

-----------------------------------------------------------------------------
TreeTypeOK ==
  /\ exists \subseteq Nodes /\ watched \subseteq Dirs /\ moves \in 0 .. MaxMoves
  /\ arrivals \in Seq(Dirs) /\ toRegister \in Seq(Nodes) /\ top \in Nodes
  /\ toVisit \in Seq([does : {"visit", "add", "list"}, node : Nodes])
  /\ remaining \in -1 .. MaxWatchFDs
  /\ truncated \in BOOLEAN /\ costly \in BOOLEAN
  /\ setup \in {"ok", "failed"}

(* A directory in a watched one is watched, or known to the watcher: no    *)
(* order of creations, removals and listings lets one slip through unless  *)
(* the budget has run out.  (A watch on the directory of a single file     *)
(* says nothing about what else is in there.)                              *)
FileRootDirs == {Parent[r] : r \in RootSet \cap Files}

Known(d) ==
  \/ \E i \in DOMAIN arrivals : arrivals[i] = d
  \/ \E i \in DOMAIN toRegister : toRegister[i] = d
  \/ \E i \in DOMAIN toVisit : \/ toVisit[i].node = d /\ toVisit[i].does # "list"
                               \/ toVisit[i] = Todo("list", Parent[d])

NothingSlips ==
  \A d \in (Dirs \cap exists) \ (Hidden \cup Ignored) :
    Parent[d] \in watched \ FileRootDirs => d \in watched \/ Known(d) \/ truncated

(* The watches never cost more descriptors than the budget, but for those  *)
(* of single files.                                                        *)
WithinFDs == Cardinality(watched \ FileRootDirs) + remaining <= MaxWatchFDs

(* Everything that can be watched is.                                      *)
TreeWatched == NothingSlips /\ WithinFDs

(* Whatever happens to the tree, the watcher catches up with it.           *)
CatchesUp == []<>(setup = "failed" \/ (arrivals = <<>> /\ toVisit = <<>> /\ toRegister = <<>>))
=============================================================================
