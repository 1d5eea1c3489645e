------------------------------ MODULE Selection ------------------------------
(* Which files a search visits, which rows it makes of them and in which   *)
(* order it returns them.                                                  *)
(*                                                                         *)
(* The disk is a tree of directories, files, symbolic links and special    *)
(* files (pipes, sockets, devices); a path is the sequence of its names.   *)
(* One producer walks the roots one after the other, keeping for every     *)
(* open directory the entries it has read; workers take the queued paths,  *)
(* as many at a time as there are workers, and finish them in any order.   *)
(* How producer, workers and consumer come to an end is WalkStream's       *)
(* subject.                                                                *)
EXTENDS Integers, Sequences, FiniteSets, SequencesExt, TLC

CONSTANTS
  NameOrder,     \* the names, in lexical order
  DiskTrees,     \* what the disk may be at first: path -> [kind, to, file, ignore]
  WalkOptions,   \* [roots, follow, globs, gitDir, respect, prune]
  DiskChanges,   \* [at, into]: what another program may put in a place
  GitName,       \* the name .git
  Marker,        \* the name that marks a project
  Artefacts,     \* names of what its build leaves behind
  Values,        \* file -> [key, keyword, likeness, formula, lines]
  MissingKey,    \* the file has no value for the sort key
  Arrangements,  \* [how, order, limit]: what may be asked of the rows
  Workers,       \* number of workers
  SnippetLines   \* lines a snippet may have

VARIABLES
  disk,          \* path -> [kind, to, file, ignore]
  option,        \* [roots, follow, globs, gitDir, respect, prune]
  specs,         \* what is left to walk: [root, names, rules]
  frames,        \* directories being walked, innermost first
  queued,        \* jobs no worker has finished: [at, shown, root]
  rows,          \* rows in the order they arrived: [shown, root, file, rank, snippet]
  phase,         \* of the search: begun, walking, hung, scored, arranged
  returned,      \* what the caller gets, and what was asked
  firstDisk      \* the disk at first

selectionVars == <<disk, option, specs, frames, queued, rows, phase, returned, firstDisk>>

Spot(k) == [kind |-> k, to |-> <<>>, file |-> "", ignore |-> {}]
NoSpot == Spot("none")

EntryNames == Range(NameOrder)
TreePaths == Seq(EntryNames)
NameRank(n) == CHOOSE i \in DOMAIN NameOrder : NameOrder[i] = n
IsSpot(s) ==
  /\ s \in [kind : {"dir", "file", "link", "special"}, to : TreePaths,
            file : DOMAIN Values \cup {""}, ignore : SUBSET TreePaths]
  /\ s.kind = "file" => s.file \in DOMAIN Values
(* Whatever there is, is in a directory.                                   *)
IsTree(d) ==
  \A p \in DOMAIN d : /\ p \in TreePaths /\ p # <<>> /\ IsSpot(d[p])
                      /\ Len(p) > 1 => Front(p) \in DOMAIN d /\ d[Front(p)].kind = "dir"

ASSUME SelectionAssumption ==
  /\ NameOrder \in Seq(EntryNames) /\ \A i, j \in DOMAIN NameOrder : NameOrder[i] = NameOrder[j] => i = j
  /\ \A d \in DiskTrees : IsTree(d)
  /\ \A o \in WalkOptions : o.roots \in Seq(TreePaths) /\ o.roots # <<>> /\ o.follow \in BOOLEAN
  /\ \A c \in DiskChanges : c.at \in TreePaths \ {<<>>} /\ (c.into = NoSpot \/ IsSpot(c.into))
  /\ MissingKey \in Int
  /\ \A f \in DOMAIN Values :
       {Values[f].key, Values[f].keyword, Values[f].likeness, Values[f].formula} \subseteq Int
  /\ \A a \in Arrangements : a.limit \in Int

-----------------------------------------------------------------------------
(* The disk.  A path is followed name by name; where it meets a link it    *)
(* goes on from where that leads, and it may do so as many times as there  *)
(* are levels here (ELOOP).                                                *)
Lost == [found |-> FALSE, path |-> <<>>]
Found(p) == [found |-> TRUE, path |-> p]
StepIn(d, via, up, n) ==
  LET q == Append(up.path, n)
  IN  CASE ~up.found \/ q \notin DOMAIN d -> Lost
        [] up.found /\ q \in DOMAIN d /\ d[q].kind = "link" -> via[q]
        [] OTHER -> Found(q)
Resolved(d, via, p) ==
  LET real[q \in TreePaths] ==
        IF q = <<>> THEN Found(<<>>) ELSE StepIn(d, via, real[Front(q)], Last(q))
  IN  real[p]
LinksIn(d) == {p \in DOMAIN d : d[p].kind = "link"}
Follow(d, via) == [p \in LinksIn(d) |-> Resolved(d, via, d[p].to)]
MaxLinks(d) == Follow(d, Follow(d, Follow(d, [p \in LinksIn(d) |-> Lost])))
RealPath(d, p) == Resolved(d, MaxLinks(d), p)

KindAt(d, p) ==
  LET r == RealPath(d, p)
  IN  CASE ~r.found -> "gone"
        [] r.found /\ r.path = <<>> -> "dir"
        [] OTHER -> d[r.path].kind
IsLinkAt(d, p) ==
  LET up == RealPath(d, Front(p))
      q == Append(up.path, Last(p))
  IN  up.found /\ q \in DOMAIN d /\ d[q].kind = "link"
IsRealDir(d, p) == KindAt(d, p) = "dir"

(* ReadDir: the entries, with their own kinds; they are taken in the order *)
(* of their names.                                                         *)
EntryKind_Followed(d, p) == KindAt(d, p)
EntryKind(d, p) == d[p].kind
Entries(d, p) ==
  LET at == RealPath(d, p).path
      here == {n \in EntryNames : Append(at, n) \in DOMAIN d}
  IN  IF IsRealDir(d, p) THEN {[name |-> n, kind |-> EntryKind(d, Append(at, n))] : n \in here}
      ELSE {}
FirstEntry(todo) == CHOOSE e \in todo : \A f \in todo : NameRank(e.name) <= NameRank(f.name)

-----------------------------------------------------------------------------
(* Exclusion.  A name that a glob matches, .git unless it is asked for,    *)
(* what builds of the projects below the root leave behind, all wherever   *)
(* they are; and what the .gitignore of the root, not those below it, says *)
(* of a path from the root.                                                *)
CollectBuildExcludes(d, root) ==
  LET at == RealPath(d, root).path
      isProject == \E p \in DOMAIN d : IsPrefix(at, p) /\ Last(p) = Marker
  IN  IF isProject THEN Artefacts ELSE {}
ExcludesFor(d, o, root) ==
  o.globs \cup (IF o.prune THEN CollectBuildExcludes(d, root) ELSE {})

NewExcluder(d, o, root) ==
  LET at == RealPath(d, root).path
  IN  [root |-> root,
       names |-> ExcludesFor(d, o, root) \cup (IF o.gitDir THEN {} ELSE {GitName}),
       rules |-> IF o.respect /\ at \in DOMAIN d /\ IsRealDir(d, root)
                 THEN d[at].ignore ELSE {}]

Excluded(spec, rel) == Last(rel) \in spec.names \/ rel \in spec.rules

(* A project's and a root's rules are read before the first root is walked.*)
BuildWalkSpecs(d, o) == [i \in 1 .. Len(o.roots) |-> NewExcluder(d, o, o.roots[i])]

-----------------------------------------------------------------------------
(* The walk.  A frame is a directory of which some entries are to come: the*)
(* path it is read at, the path from the root it is shown under, and       *)
(* whether it is below a link that was followed.                           *)
Frame(d, at, rel, linked) ==
  [at |-> at, rel |-> rel, linked |-> linked, todo |-> Entries(d, at)]
Push(f, fs) == IF f.todo = {} THEN fs ELSE <<f>> \o fs
Rest == Push([Head(frames) EXCEPT !.todo = @ \ {FirstEntry(@)}], Tail(frames))

SelectionStart(d, o) ==
  /\ disk = d /\ firstDisk = d /\ option = o
  /\ specs = BuildWalkSpecs(d, o)
  /\ frames = <<>> /\ queued = <<>> /\ rows = <<>>
  /\ phase = "begun" /\ returned = [rows |-> <<>>, asked |-> {}]

SelectionInit == \E d \in DiskTrees, o \in WalkOptions : SelectionStart(d, o)

CurrentRoot == Len(option.roots) + 1 - Len(specs)
unwalked == <<disk, option, rows, returned, firstDisk>>

(* The next root; one that is not there has no entries, and that is all.   *)
OpenRoot ==
  /\ phase \in {"begun", "walking"} /\ frames = <<>>
  /\ phase = "walking" => Len(specs) > 1
  /\ LET left == IF phase = "begun" THEN specs ELSE Tail(specs)
     IN  /\ specs' = left
         /\ frames' = Push(Frame(disk, Head(left).root, <<>>, FALSE), <<>>)
  /\ phase' = "walking"
  /\ UNCHANGED <<unwalked, queued>>

(* One entry: left out, entered, or queued.  A link to a directory is a    *)
(* leaf, or entered if links are followed; below one that was followed it  *)
(* is always a leaf.                                                       *)
VisitEntry ==
  LET f == Head(frames)
      e == FirstEntry(f.todo)
      at == Append(f.at, e.name)
      rel == Append(f.rel, e.name)
      target == RealPath(disk, at).path
      enters == e.kind = "link" /\ option.follow /\ ~f.linked /\ IsRealDir(disk, at)
  IN  /\ phase = "walking" /\ frames # <<>>
      /\ \/ /\ (Excluded(Head(specs), rel) \/ e.kind = "special")
            /\ frames' = Rest /\ UNCHANGED queued
         \/ /\ ~Excluded(Head(specs), rel) /\ e.kind = "dir"
            /\ frames' = Push(Frame(disk, at, rel, f.linked), Rest)
            /\ UNCHANGED queued
         \/ /\ ~Excluded(Head(specs), rel) /\ enters
            /\ frames' = Push(Frame(disk, target, rel, TRUE), Rest)
            /\ UNCHANGED queued
         \/ /\ ~Excluded(Head(specs), rel) /\ e.kind \in {"file", "link"} /\ ~enters
            /\ frames' = Rest
            /\ queued' = Append(queued, [at |-> at, shown |-> Head(specs).root \o rel,
                                        root |-> CurrentRoot])
      /\ UNCHANGED <<unwalked, specs, phase>>

-----------------------------------------------------------------------------
(* A worker.  Opening a pipe waits for its writer: the walk looks at the   *)
(* kind of the entry only, so that a link to a special file, or one that   *)
(* has taken a file's place, still gets here.                              *)
Snippet(lines) ==
  LET long == SelectInSeq(lines, LAMBDA l : l = "long")
      whole == IF long = 0 THEN lines ELSE SubSeq(lines, 1, long - 1)
  IN  IF Len(whole) > SnippetLines THEN SubSeq(whole, 1, SnippetLines) ELSE whole

RowOf(j, file) ==
  [shown |-> j.shown, root |-> j.root, file |-> file, rank |-> 0,
   snippet |-> IF file = "leaf" THEN <<>> ELSE Snippet(Values[file].lines)]

ProcessJob(i) ==
  LET j == queued[i]
      k == KindAt(disk, j.at)
      real == RealPath(disk, j.at).path
      isLink == IsLinkAt(disk, j.at)
  IN  /\ phase = "walking"
      /\ queued' = RemoveAt(queued, i)
      /\ \/ k = "special" /\ phase' = "hung" /\ UNCHANGED rows
         \/ /\ k = "file"
            /\ rows' = Append(rows, RowOf(j, disk[real].file)) /\ UNCHANGED phase
         \/ /\ isLink /\ k \in {"dir", "gone"}
            /\ rows' = Append(rows, RowOf(j, "leaf")) /\ UNCHANGED phase
         \/ ~isLink /\ k \in {"dir", "gone"} /\ UNCHANGED <<rows, phase>>
      /\ UNCHANGED <<disk, option, specs, frames, returned, firstDisk>>

-----------------------------------------------------------------------------
(* Arranging.  The value of a row under a sort key, under the rank of a    *)
(* keyword, and under its fusion with the likeness.                        *)
NoRow == [key |-> MissingKey, keyword |-> 0, likeness |-> 0, formula |-> 0, lines |-> <<>>]
ValuesOf(r) == IF r.file = "leaf" THEN NoRow ELSE Values[r.file]

CmpInt(a, b) == CASE a < b -> -1 [] a > b -> 1 [] OTHER -> 0
CmpKey(a, b) ==
  CASE a = MissingKey /\ b = MissingKey -> 0
    [] a = MissingKey /\ b # MissingKey -> 1
    [] a # MissingKey /\ b = MissingKey -> -1
    [] OTHER -> CmpInt(a, b)

(* rankedPaths and applyRRF: positions by score, by path on ties; the sum  *)
(* of 1 / (60 + position) over both rankings, per path, in units of 1/D.   *)
PathBefore(x, y) ==
  \E n \in 0 .. Len(x) :
    /\ n < Len(y) /\ SubSeq(x, 1, n) = SubSeq(y, 1, n)
    /\ n < Len(x) => NameRank(x[n + 1]) < NameRank(y[n + 1])
RankedPaths(rs, score) ==
  LET before(i, j) ==
        \/ score[i] > score[j]
        \/ score[i] = score[j] /\ PathBefore(rs[i].shown, rs[j].shown)
        \/ score[i] = score[j] /\ rs[i].shown = rs[j].shown /\ i < j
  IN  [i \in 1 .. Len(rs) |-> 1 + Cardinality({j \in 1 .. Len(rs) : before(j, i)})]
RRFShare(position) == 15000000 \div (60 + position)
ApplyRRF(rs) ==
  LET kw == RankedPaths(rs, [i \in 1 .. Len(rs) |-> ValuesOf(rs[i]).keyword])
      vec == RankedPaths(rs, [i \in 1 .. Len(rs) |-> ValuesOf(rs[i]).likeness])
      share == [i \in 1 .. Len(rs) |-> RRFShare(kw[i]) + RRFShare(vec[i])]
      same(i) == {j \in 1 .. Len(rs) : rs[j].shown = rs[i].shown}
  IN  [i \in 1 .. Len(rs) |-> SumFunctionOnSet(share, same(i))]

(* FinalizeBM25: what a row is ranked by; without a keyword a formula has  *)
(* been evaluated for every row already.                                   *)
Ranked(how) == how \in {"hybrid", "formula", "keyword"}
FinalizeBM25(rs, how) ==
  CASE how = "hybrid" -> ApplyRRF(rs)
    [] how = "formula" -> [i \in 1 .. Len(rs) |-> ValuesOf(rs[i]).formula]
    [] how = "keyword" -> [i \in 1 .. Len(rs) |-> ValuesOf(rs[i]).keyword]
    [] OTHER -> [i \in 1 .. Len(rs) |-> 0]

WalkDone == phase = "walking" /\ frames = <<>> /\ Len(specs) <= 1 /\ queued = <<>>
ScoreRows(a) ==
  LET ranks == FinalizeBM25(rows, a.how)
  IN  /\ WalkDone
      /\ phase' = "scored"
      /\ rows' = [i \in 1 .. Len(rows) |-> [rows[i] EXCEPT !.rank = ranks[i]]]
      /\ returned' = [rows |-> <<>>, asked |-> {a}]
      /\ UNCHANGED <<disk, option, specs, frames, queued, firstDisk>>

CompareByKey(how, a, b) ==
  CASE how = "key" -> CmpKey(ValuesOf(a).key, ValuesOf(b).key)
    [] how = "arrival" -> 0
    [] OTHER -> CmpInt(a.rank, b.rank)

(* SliceStable on few rows: each moves up past those that are after it.    *)
IsLess(how, desc, a, b) ==
  LET c == CompareByKey(how, a, b) IN IF desc THEN c > 0 ELSE c < 0
StableInsert_PastEqual(list, x, how, desc) ==
  InsertAt(list, 1 + Cardinality({i \in 1 .. Len(list) : IsLess(how, desc, list[i], x)}), x)
StableInsert(list, x, how, desc) ==
  LET stays == {i \in 1 .. Len(list) : ~IsLess(how, desc, x, list[i])}
      at == IF stays = {} THEN 1 ELSE 1 + CHOOSE i \in stays : \A j \in stays : j <= i
  IN  InsertAt(list, at, x)
SortResults(rs, how, desc) ==
  LET sorted[s \in Seq(Range(rs))] ==
        IF s = <<>> THEN <<>> ELSE StableInsert(sorted[Front(s)], Last(s), how, desc)
  IN  sorted[rs]
Limited(rs, limit) == IF limit > 0 /\ Len(rs) > limit THEN SubSeq(rs, 1, limit) ELSE rs
Descends(a) == a.order = "desc" \/ (a.order = "" /\ Ranked(a.how))

SortAndLimit ==
  /\ phase = "scored"
  /\ phase' = "arranged"
  /\ \E a \in returned.asked :
       LET inOrder == SortResults(rows, a.how, Descends(a))
       IN  returned' = [returned EXCEPT !.rows = Limited(inOrder, a.limit)]
  /\ UNCHANGED <<disk, option, specs, frames, queued, rows, firstDisk>>

(* Another program changes the disk.                                       *)
Placed(d, p, spot) ==
  [q \in {q \in DOMAIN d : ~IsPrefix(p, q)} \cup (IF spot = NoSpot THEN {} ELSE {p}) |->
     IF q = p THEN spot ELSE d[q]]
ChangeDisk(c) ==
  /\ phase \in {"begun", "walking"} /\ disk = firstDisk
  /\ Len(c.at) > 1 => Front(c.at) \in DOMAIN disk /\ disk[Front(c.at)].kind = "dir"
  /\ disk' = Placed(disk, c.at, c.into)
  /\ UNCHANGED <<option, specs, frames, queued, rows, phase, returned, firstDisk>>

SelectionNext ==
  \/ OpenRoot \/ VisitEntry
  \/ \E i \in 1 .. Len(queued) : i <= Workers /\ ProcessJob(i)
  \/ \E a \in Arrangements : ScoreRows(a)
  \/ SortAndLimit
  \/ \E c \in DiskChanges : ChangeDisk(c)

SelectionSpec == SelectionInit /\ [][SelectionNext]_selectionVars

-----------------------------------------------------------------------------
(* What there is to select, said without a walk: the files and the links   *)
(* below the root no part of whose path is excluded; if links are followed,*)
(* also those below a link found in this way, in the directory it leads to.*)
(* A way to a file is its path from the root, the link it is below, if any,*)
(* and the path it is read at.                                             *)
Under(d, at) ==
  {SubSeq(q, Len(at) + 1, Len(q)) : q \in {q \in DOMAIN d : IsStrictPrefix(at, q)}}
Reached(d, spec, at, rel) ==
  {p \in Under(d, at) : \A n \in 1 .. Len(p) : ~Excluded(spec, rel \o SubSeq(p, 1, n))}
Leaves(d, ps, at) == {p \in ps : d[at \o p].kind \in {"file", "link"}}
BelowRoot(d, spec) ==
  IF IsRealDir(d, spec.root) THEN Reached(d, spec, RealPath(d, spec.root).path, <<>>) ELSE {}
EnteredLinks(d, o, spec) ==
  LET at == RealPath(d, spec.root).path
  IN  {l \in BelowRoot(d, spec) : o.follow /\ d[at \o l].kind = "link" /\ IsRealDir(d, at \o l)}
Way(rel, below, at) == [rel |-> rel, below |-> below, at |-> at]
Ways(d, o, spec) ==
  LET at == RealPath(d, spec.root).path
      entered == EnteredLinks(d, o, spec)
      target(l) == RealPath(d, at \o l).path
  IN  {Way(p, <<>>, spec.root \o p) : p \in Leaves(d, BelowRoot(d, spec), at) \ entered}
      \cup UNION {{Way(l \o p, l, target(l) \o p) :
                    p \in Leaves(d, Reached(d, spec, target(l), l), target(l))} : l \in entered}

FirstSpecs == BuildWalkSpecs(firstDisk, option)
RowsOf(i) == {n \in 1 .. Len(rows) : rows[n].root = i}
(* Every root's files, once each; when the disk changes meanwhile, at least*)
(* those that are there before and after and reached in the same way.      *)
Selected ==
  WalkDone =>
    \A i \in 1 .. Len(option.roots) :
      LET root == option.roots[i]
          shown == {rows[n].shown : n \in RowsOf(i)}
          before == Ways(firstDisk, option, FirstSpecs[i])
          now == Ways(disk, option, FirstSpecs[i])
      IN  /\ \A m, n \in RowsOf(i) : rows[m].shown = rows[n].shown => m = n
          /\ {root \o w.rel : w \in before \cap now} \subseteq shown
          /\ disk = firstDisk => shown = {root \o w.rel : w \in now}

(* Only a link, or a special file that has taken a file's place, can make  *)
(* a worker wait for ever.                                                 *)
HungOnlyBy ==
  phase = "hung" =>
    \/ disk # firstDisk
    \/ \E p \in DOMAIN disk : disk[p].kind = "link" /\ KindAt(disk, p) = "special"

(* The answer: as many rows as asked for, no row twice, and each after all *)
(* the rows that come before it in the order asked for, those that compare *)
(* equal in the order they came.  Where a file without the key belongs     *)
(* among those with it is not claimed: the code and what is written of it  *)
(* say three things.                                                       *)
HasValue(how, r) == how # "key" \/ ValuesOf(r).key # MissingKey

Arranged ==
  phase = "arranged" =>
    LET a == CHOOSE a \in returned.asked : TRUE
        n == Len(returned.rows)
        cmp(i, j) == CompareByKey(a.how, rows[i], rows[j])
        alike(i, j) == HasValue(a.how, rows[i]) = HasValue(a.how, rows[j])
        precedes(i, j) ==
          IF cmp(i, j) = 0 THEN i < j ELSE IF Descends(a) THEN cmp(i, j) > 0 ELSE cmp(i, j) < 0
    IN  /\ n = IF a.limit \in 1 .. Len(rows) THEN a.limit ELSE Len(rows)
        /\ \A k, l \in 1 .. n : returned.rows[k] = returned.rows[l] => k = l
        /\ \A k \in 1 .. n : \E i \in 1 .. Len(rows) :
             /\ returned.rows[k] = rows[i]
             /\ \A j \in 1 .. Len(rows) :
                  alike(i, j) /\ precedes(j, i) => \E l \in 1 .. k - 1 : returned.rows[l] = rows[j]

(* examples/top-k.md:43 (and --sort's help, search_cmd.go:33): "Files      *)
(* missing the attribute (...) group at the end".  In descending order the *)
(* comparison is turned round as a whole, and they come first, before a    *)
(* limit cuts the others off (sort.go:38, 86).                             *)
MissingLast ==
  phase = "arranged" =>
    \A a \in returned.asked : \A k, l \in DOMAIN returned.rows :
      k < l /\ HasValue(a.how, returned.rows[l]) => HasValue(a.how, returned.rows[k])

(* A search (walker.go, exclude.go, sort.go, bm25_rank.go): it selects what*)
(* there is to select, hangs only on what it cannot see, and returns the   *)
(* first rows of the order that was asked for.                             *)
SelectionExact == Selected /\ HungOnlyBy /\ Arranged
=============================================================================
