--------------------------- MODULE UnusedExports ----------------------------
(***************************************************************************)
(* Exported names that only their own package uses                         *)
(* (internal/search/unused_exports.go): another pass over the files of a   *)
(* walk, in the order they arrived, that attributes each definition and    *)
(* each mention to a package.  An external test file is a package of its   *)
(* own.  The verdicts are compared with those of the code graph.           *)
(***************************************************************************)
EXTENDS CodeGraph

CONSTANTS
  ExportLangs,  \* unusedExportsLangs
  NoPackage     \* of a file that no package identity can be given

VARIABLES
  unnoted,          \* results the pass has not taken in
  defs,             \* per name: the first definition seen, NoDef before
  refPkgs,          \* <<name, package that mentions it>>
  valueRefFuncs,    \* functions registered as values
  sigTypes,         \* <<function, exported type of its signature>>
  interfaceMethods  \* methods of the interfaces seen

exportVars == <<unnoted, defs, refPkgs, valueRefFuncs, sigTypes, interfaceMethods>>

NoDef == [kind |-> "none"]

ExportInit ==
  /\ unnoted = results
  /\ defs = [n \in Names |-> NoDef] /\ refPkgs = {}
  /\ valueRefFuncs = {} /\ sigTypes = {} /\ interfaceMethods = {}

Attributed(p) == files[p].lang \in ExportLangs /\ files[p].pkg # NoPackage
EffectivePkg(p) == <<files[p].pkg, files[p].external>>

KindOf(p, n) == IF n \in Range(Functions(files[p])) THEN "function" ELSE "type"
ExportedNames(p) ==
  {n \in Range(Functions(files[p])) \cup TypeNames(files[p]) : Exported(files[p], n)}

(* note: the first definition gives kind and path, another package's makes *)
(* the name ambiguous.                                                     *)
Noted(p) ==
  [n \in Names |->
     IF n \notin ExportedNames(p) THEN defs[n]
     ELSE IF defs[n] = NoDef
       THEN [kind |-> KindOf(p, n), path |-> p, pkg |-> EffectivePkg(p), multi |-> FALSE]
     ELSE [defs[n] EXCEPT !.multi = @ \/ defs[n].pkg # EffectivePkg(p)]]

(* One turn of the loop.                                                   *)
NoteFile(p) ==
  /\ p \in unnoted /\ unnoted' = unnoted \ {p}
  /\ IF Attributed(p)
       THEN /\ defs' = Noted(p)
            /\ refPkgs' = refPkgs \cup (References(files[p]) \X {EffectivePkg(p)})
            /\ valueRefFuncs' = valueRefFuncs \cup ValueRefs(files[p])
            /\ sigTypes' = sigTypes \cup SignatureTypes(files[p])
            /\ interfaceMethods' = interfaceMethods \cup InterfaceMethods(files[p])
       ELSE UNCHANGED <<defs, refPkgs, valueRefFuncs, sigTypes, interfaceMethods>>

ExportNext == \E p \in unnoted : NoteFile(p)

(* The two passes, over the same walk.                                     *)
ReportNext ==
  \/ BuildNext /\ UNCHANGED exportVars
  \/ ExportNext /\ UNCHANGED graphVars
ReportSpec == GraphInit /\ ExportInit /\ [][ReportNext]_<<graphVars, exportVars>>

BoundaryExempt == {s[2] : s \in {s \in sigTypes : s[1] \in valueRefFuncs}}

UserPkgs(n) == {r[2] : r \in {r \in refPkgs : r[1] = n}}

Candidate_AnyPackage(n) == defs[n] # NoDef /\ ~defs[n].multi /\ UserPkgs(n) # {}
Candidate(n) ==
  /\ defs[n] # NoDef /\ ~defs[n].multi
  /\ ~IsReflectionDispatched(defs[n].kind, n, defs[n].path)
  /\ ~(defs[n].kind = "type" /\ n \in BoundaryExempt)
  /\ ~(defs[n].kind = "function" /\ n \in interfaceMethods)
  /\ UserPkgs(n) = {defs[n].pkg}

Candidates == {n \in Names : Candidate(n)}

-----------------------------------------------------------------------------
(* The same from the sources: the files that define an exported name, and  *)
(* those that mention it in a call, an argument or a type, a method's      *)
(* receiver included.                                                      *)
DefiningFiles(n) == {p \in results : Attributed(p) /\ n \in ExportedNames(p)}
Mentions(n) ==
  {p \in results : Attributed(p) /\
     \E d \in AllDecls(files[p]) :
       n = d.recv \/ n \in d.params \cup d.uses
         \/ \E c \in d.calls : n = c.callee \/ n \in c.args}

OnePackage(S) == Cardinality({EffectivePkg(p) : p \in S}) = 1

(* A kind for which the name is pinned by the outside.                     *)
Pinned(n, p) ==
  \/ IsReflectionDispatched(KindOf(p, n), n, p)
  \/ /\ KindOf(p, n) = "type"
     /\ \E q, r \in results :
          /\ Attributed(q) /\ Attributed(r)
          /\ \E d \in AllDecls(files[q]), e \in AllDecls(files[r]) :
               /\ d.what = "func" /\ n \in d.params
               /\ \E c \in e.calls : d.name \in c.args
  \/ /\ KindOf(p, n) = "function"
     /\ \E q \in results : Attributed(q) /\ \E d \in AllDecls(files[q]) : n \in d.methods

(* Whatever the order the files arrived in, the three reports fit together *)
(* and fit the sources: a candidate for unexporting is mentioned, in its   *)
(* own package alone, and is not pinned by a registration, an interface or *)
(* the runtime; every such name is a candidate, unless its definitions     *)
(* differ in kind; nothing is both dead and a candidate, nothing dead has  *)
(* callers at any depth, and a dead function of a production file is among *)
(* the functions no test names.                                            *)
Uniform(n) ==
  \A p, q \in DefiningFiles(n) : KindOf(p, n) = KindOf(q, n) /\ Pinned(n, p) = Pinned(n, q)

VerdictsAgree ==
  unbuilt = {} /\ unnoted = {} =>
    /\ \A n \in Names :
         LET local == /\ Mentions(n) # {} /\ DefiningFiles(n) # {}
                      /\ OnePackage(Mentions(n) \cup DefiningFiles(n))
         IN  /\ Candidate(n) => local /\ \E p \in DefiningFiles(n) : ~Pinned(n, p)
             /\ local /\ Uniform(n) /\ (\A p \in DefiningFiles(n) : ~Pinned(n, p))
                  => Candidate(n)
    /\ \A d \in DeadCode :
         /\ d.name \notin Candidates /\ Impact(d.name, 0) = {}
         /\ [path |-> d.path, kind |-> d.kind, owner |-> d.owner]
              \in FindDefinition(d.name, {d.kind})
         /\ d.kind = "function" /\ d.path \notin testFiles =>
              \E g \in TestGaps : g.path = d.path /\ d.name \in g.untested
=============================================================================
