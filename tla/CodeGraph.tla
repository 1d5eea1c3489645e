----------------------------- MODULE CodeGraph ------------------------------
(***************************************************************************)
(* The cross-file symbol index (internal/search/codegraph.go): one pass    *)
(* over the files a walk has found, in the order they arrived, and the     *)
(* questions asked of the result.  Everything is by bare name.  A walk     *)
(* that was cut short leaves a graph of the files it had seen.             *)
(***************************************************************************)
EXTENDS SourceSymbols

CONSTANTS
  Names,       \* symbol names, integers in the order of the names
  SourceTrees, \* trees considered: functions from paths to files
  RefLangs,    \* refExtractionLangs
  EntryPoints, \* init and main
  TestEntries, \* names the go test runner calls
  CmdNames     \* names that end in Cmd

ASSUME CodeGraphAssumption ==
  /\ Names \subseteq Nat \ {NoName} /\ IsFiniteSet(Names)
  /\ Upper \subseteq Names /\ EntryPoints \subseteq Names \ Upper
  /\ TestEntries \subseteq Upper /\ CmdNames \subseteq Names
  /\ \A tr \in SourceTrees :
       IsFiniteSet(DOMAIN tr) /\ \A p \in DOMAIN tr : CallEdges(tr[p]) \subseteq Names \X Names

VARIABLES
  files,           \* the tree
  results,         \* files the walk has found
  unbuilt,         \* those the graph has not taken in
  importedBy,      \* <<module, path>>
  definedIn,       \* definitions: name, path, kind, owner, place in its file
  referencedBy,    \* <<name, path>>
  callsByName,     \* <<caller, callee>>
  testFiles,       \* paths
  dispatchTargets  \* functions registered as values

indexVars == <<importedBy, definedIn, referencedBy, callsByName, testFiles, dispatchTargets>>
graphVars == <<files, results, unbuilt, indexVars>>

GraphStart(tr, found) ==
  /\ files = tr /\ results = found /\ unbuilt = found
  /\ importedBy = {} /\ definedIn = {} /\ referencedBy = {} /\ callsByName = {}
  /\ testFiles = {} /\ dispatchTargets = {}

GraphInit == \E tr \in SourceTrees : \E found \in SUBSET DOMAIN tr : GraphStart(tr, found)

Definitions(p) ==
  LET f == files[p]
      funcs == Functions(f)
  IN  {[name |-> funcs[i], path |-> p, kind |-> "function",
        owner |-> Owner(f, funcs[i]), nth |-> i] : i \in DOMAIN funcs}
      \cup {[name |-> t, path |-> p, kind |-> "type", owner |-> NoName, nth |-> 0]
            : t \in TypeNames(f)}

(* One turn of BuildCodeGraph's loop.                                      *)
AddFile(p) ==
  /\ p \in unbuilt /\ unbuilt' = unbuilt \ {p}
  /\ importedBy' = importedBy \cup (files[p].imports \X {p})
  /\ definedIn' = definedIn \cup Definitions(p)
  /\ referencedBy' = referencedBy \cup (References(files[p]) \X {p})
  /\ callsByName' = callsByName \cup CallEdges(files[p])
  /\ testFiles' = IF files[p].test THEN testFiles \cup {p} ELSE testFiles
  /\ dispatchTargets' = dispatchTargets \cup ValueRefs(files[p])
  /\ UNCHANGED <<files, results>>

BuildNext == \E p \in unbuilt : AddFile(p)

GraphSpec == GraphInit /\ [][BuildNext]_graphVars

-----------------------------------------------------------------------------
(* Look-ups.                                                               *)
ImportedBy(matched) == {i[2] : i \in {i \in importedBy : i[1] \in matched}}
FindDefinition(name, kinds) ==
  {[path |-> e.path, kind |-> e.kind, owner |-> e.owner]
   : e \in {e \in definedIn : e.name = name /\ e.kind \in kinds}}
WhoCalls(name) == {r[2] : r \in {r \in referencedBy : r[1] = name}}
OwnersOf(name) == {e.owner : e \in {e \in definedIn : e.name = name}} \ {NoName}
CalleesOf(name) == {c[2] : c \in {c \in callsByName : c[1] = name}}
CallersOf(name) == {c[1] : c \in {c \in callsByName : c[2] = name}}

(* Impact: breadth first over the callers.  A hop visits the frontier and  *)
(* gathers the next one; maxDepth 0 is no limit.                           *)
Impact(symbol, maxDepth) ==
  LET limit == IF maxDepth = 0 THEN Cardinality(Names) ELSE maxDepth
      bfs[d \in 0 .. limit] ==
        IF d = 0 THEN [visited |-> {}, frontier |-> CallersOf(symbol)]
        ELSE LET prev == bfs[d - 1]
                 seen == {v[1] : v \in prev.visited} \cup {symbol}
                 fresh == prev.frontier \ seen
             IN  [visited |-> prev.visited \cup {<<n, d>> : n \in fresh},
                  frontier |-> (UNION {CallersOf(n) : n \in fresh}) \ seen]
  IN  bfs[limit].visited

InOrder_Reversed(S) ==
  CHOOSE q \in [1 .. Cardinality(S) -> S] : \A i, j \in DOMAIN q : i < j => q[i] > q[j]
InOrder(S) ==
  CHOOSE q \in [1 .. Cardinality(S) -> S] : \A i, j \in DOMAIN q : i < j => q[i] < q[j]

(* CallPath: a queue, parent pointers, callees in the order of their       *)
(* names; the search stops when it meets `to'.                             *)
Visit(st, cur, to) ==
  LET fresh == CalleesOf(cur) \ DOMAIN st.parent
      hit == to \in fresh
      met == {c \in fresh : hit => c <= to}
      known == DOMAIN st.parent \cup met
  IN  [parent |-> [c \in known |-> IF c \in met THEN cur ELSE st.parent[c]],
       depth  |-> [c \in known |-> IF c \in met THEN st.depth[cur] + 1 ELSE st.depth[c]],
       queue  |-> Tail(st.queue) \o InOrder(met),
       found  |-> hit]

Back(parent, from, to) ==
  LET up[k \in 0 .. Cardinality(Names)] ==
        IF k = 0 THEN <<to>>
        ELSE LET path == up[k - 1]
             IN  IF Head(path) = from THEN path ELSE <<parent[Head(path)]>> \o path
  IN  up[Cardinality(Names)]

CallPath(from, to, maxDepth) ==
  LET bfs[i \in 0 .. Cardinality(Names)] ==
        IF i = 0 THEN [parent |-> [c \in {from} |-> NoName], depth |-> [c \in {from} |-> 0],
                       queue |-> <<from>>, found |-> FALSE]
        ELSE LET st == bfs[i - 1]
             IN  IF st.found \/ st.queue = <<>> THEN st
                 ELSE IF maxDepth > 0 /\ st.depth[Head(st.queue)] >= maxDepth
                   THEN [st EXCEPT !.queue = Tail(st.queue)]
                 ELSE Visit(st, Head(st.queue), to)
      end == bfs[Cardinality(Names)]
  IN  IF from = to THEN <<from>>
      ELSE IF end.found THEN Back(end.parent, from, to) ELSE <<>>

-----------------------------------------------------------------------------
(* Reports.                                                                *)
IsReflectionDispatched(kind, name, p) ==
  \/ files[p].lang = "go" /\ kind = "function" /\ name \in EntryPoints
  \/ files[p].lang = "go" /\ kind = "function" /\ name \in TestEntries /\ files[p].test
  \/ kind # "function" /\ name \in CmdNames

DeadCode ==
  {[name |-> e.name, path |-> e.path, kind |-> e.kind, owner |-> e.owner]
   : e \in {e \in definedIn :
              /\ WhoCalls(e.name) = {} /\ files[e.path].lang \in RefLangs
              /\ ~IsReflectionDispatched(e.kind, e.name, e.path)}}

ReferencedFromTest(name) == WhoCalls(name) \cap testFiles # {}

(* TestGaps counts a name as often as its file defines it.                 *)
TestGaps ==
  LET assessable(p) ==
        {e \in definedIn : e.path = p /\ e.kind = "function" /\ e.name \notin dispatchTargets}
      untested(p) == {e \in assessable(p) : ~ReferencedFromTest(e.name)}
  IN  {[path |-> p, functions |-> Cardinality(assessable(p)),
        untested |-> {e.name : e \in untested(p)},
        fully |-> untested(p) = assessable(p)]
       : p \in {p \in results \ testFiles : files[p].lang \in RefLangs /\ untested(p) # {}}}

(* Overview's duplicate definitions and import hubs.                       *)
DuplicateDefs ==
  LET paths(n, k) == {e.path : e \in {e \in definedIn : e.name = n /\ e.kind = k}}
  IN  {d \in Names \X {"function", "type"} : Cardinality(paths(d[1], d[2])) > 1}
FanIn(module) == Cardinality(ImportedBy({module}))

-----------------------------------------------------------------------------
(* Call chains by their definition: every chain of calls that begins at s. *)
Chains(s) ==
  LET longer[k \in 0 .. Cardinality(Names)] ==
        IF k = 0 THEN {<<s>>}
        ELSE LET prev == longer[k - 1]
             IN  prev \cup UNION {{Append(c, n) : n \in CalleesOf(Last(c))} : c \in prev}
  IN  longer[Cardinality(Names)]

Shortest(S) == {c \in S : \A d \in S : Len(c) <= Len(d)}
FirstInOrder(c, S) ==
  \A d \in S : \A i \in DOMAIN c : (\A j \in 1 .. i - 1 : c[j] = d[j]) => c[i] <= d[i]

(* The blast radius of t holds every function from which some chain leads  *)
(* to t, at the length of the shortest one, within the depth asked for and *)
(* cycles and self-calls notwithstanding; and the call path is the first   *)
(* in the order of names of the shortest chains, nothing if there is none. *)
ChainsRight(s, t, limit, chains) ==
  LET within == {c \in chains : Last(c) = t /\ (limit > 0 => Len(c) - 1 <= limit)}
      depths == {v[2] : v \in {v \in Impact(t, limit) : v[1] = s}}
      path == CallPath(s, t, limit)
  IN  IF within = {} THEN depths = {} /\ path = <<>>
      ELSE /\ path \in Shortest(within) /\ FirstInOrder(path, Shortest(within))
           /\ depths = {Len(path) - 1}

CallsExact ==
  unbuilt = {} =>
    \A s \in Names : LET chains == Chains(s)
                     IN  \A t \in Names \ {s}, limit \in 0 .. Cardinality(Names) :
                           ChainsRight(s, t, limit, chains)
=============================================================================
