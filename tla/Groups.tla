------------------------------- MODULE Groups -------------------------------
(***************************************************************************)
(* Groups of equal and of similar files (internal/search/duplicates.go,    *)
(* near_duplicates.go and duplicate_functions.go): a walk, then a loop     *)
(* over what it found, in the order it came, that stops where it is when   *)
(* the context ends.  Equal files are looked for by size, then by hash;    *)
(* similar ones by comparing all pairs of fingerprints.  Files change      *)
(* under the hash loop.                                                    *)
(*                                                                         *)
(* A file is a size and a content, a content has a fingerprint, a set of   *)
(* bits, {} when there is too little text for one.  What is said of files  *)
(* goes for functions too, with lines for size.                            *)
(***************************************************************************)
EXTENDS Integers, Sequences, SequencesExt, FiniteSets, FiniteSetsExt

CONSTANTS
  GroupFiles,  \* paths, integers in the order of the paths
  FileStates,  \* contents a file may have: size, text, bits
  FirstDisks,  \* what the files may hold at first
  MaxEdits,    \* bound: files that change during the hash loop
  MinSize,     \* smallest size considered
  Distance     \* fingerprints that differ in so many bits are similar

ASSUME GroupsAssumption ==
  /\ GroupFiles \subseteq Nat /\ IsFiniteSet(GroupFiles)
  /\ MaxEdits \in Nat /\ MinSize \in Nat /\ Distance \in Nat
  /\ FirstDisks \subseteq [GroupFiles -> FileStates]
  /\ \A x \in FileStates : x.size \in Nat /\ IsFiniteSet(x.bits)
  /\ \A x, y \in FileStates : x.text = y.text => x = y

VARIABLES
  onDisk,   \* what each file holds now
  walked,   \* what it held when the walk met it
  groupCtx, \* "live" or "done"
  doing,    \* "start", "hashing", "pairing" or "grouped"
  toHash,   \* members of the size buckets that are not hashed yet
  byHash,   \* <<path, text>> hashed
  arrival,  \* candidates in the order they came
  compared, \* candidates compared with all the later ones
  parent,   \* the union-find forest over the candidates
  kinds,    \* "equal" or "similar", what was asked for
  groups    \* the answer

pairVars == <<arrival, compared, parent>>
groupVars == <<onDisk, walked, groupCtx, doing, toHash, byHash, pairVars, kinds, groups>>

GroupStart(disk) ==
  /\ onDisk = disk /\ walked = disk
  /\ groupCtx = "live" /\ doing = "start" /\ kinds = "none" /\ groups = {}
  /\ toHash = {} /\ byHash = {} /\ arrival = <<>> /\ compared = 0 /\ parent = <<>>

GroupInit == \E disk \in FirstDisks : GroupStart(disk)

GroupCancel ==
  /\ groupCtx = "live" /\ doing # "grouped" /\ groupCtx' = "done"
  /\ UNCHANGED <<onDisk, walked, doing, toHash, byHash, pairVars, kinds, groups>>

Edited == {p \in GroupFiles : onDisk[p] # walked[p]}
EditFile(p, f) ==
  /\ doing = "hashing" /\ p \notin Edited /\ Cardinality(Edited) < MaxEdits
  /\ onDisk' = [onDisk EXCEPT ![p] = f]
  /\ UNCHANGED <<walked, groupCtx, doing, toHash, byHash, pairVars, kinds, groups>>

-----------------------------------------------------------------------------
(* FindDuplicates.  A cut-short walk gives some of the files.              *)
WalkGives == IF groupCtx = "live" THEN {GroupFiles} ELSE SUBSET GroupFiles

Considered(S) == {p \in S : walked[p].size >= Max({MinSize, 1})}
Crowded(S) == {p \in S : \E q \in S \ {p} : walked[q].size = walked[p].size}

WalkForEqual ==
  /\ doing = "start" /\ doing' = "hashing" /\ kinds' = "equal"
  /\ \E S \in WalkGives : toHash' = Crowded(Considered(S))
  /\ UNCHANGED <<onDisk, walked, groupCtx, byHash, pairVars, groups>>

HashOne(p) ==
  /\ doing = "hashing" /\ p \in toHash /\ groupCtx = "live"
  /\ toHash' = toHash \ {p} /\ byHash' = byHash \cup {<<p, onDisk[p].text>>}
  /\ UNCHANGED <<onDisk, walked, groupCtx, doing, pairVars, kinds, groups>>

ByPath(g) ==
  CHOOSE s \in [1 .. Cardinality(g) -> g] : \A i, j \in DOMAIN s : i < j => s[i] < s[j]
Group(t) == {h[1] : h \in {h \in byHash : h[2] = t}}
EqualGroups == {g \in {Group(h[2]) : h \in byHash} : Cardinality(g) > 1}

EmitEqual ==
  /\ doing = "hashing" /\ (toHash = {} \/ groupCtx = "done")
  /\ doing' = "grouped"
  /\ groups' = {[members |-> ByPath(g)] : g \in EqualGroups}
  /\ UNCHANGED <<onDisk, walked, groupCtx, toHash, byHash, pairVars, kinds>>

-----------------------------------------------------------------------------
(* FindNearDuplicates.  The fingerprint is of the text the walk has read.  *)
Bits(p) == walked[p].bits
Apart(p, q) == Cardinality((Bits(p) \ Bits(q)) \cup (Bits(q) \ Bits(p)))
Similar(p, q) == Apart(p, q) <= Distance

WalkForSimilar ==
  /\ doing = "start" /\ doing' = "pairing" /\ kinds' = "similar"
  /\ \E S \in WalkGives :
       arrival' \in SetToSeqs({p \in S : walked[p].size >= MinSize /\ Bits(p) # {}})
  /\ compared' = 0 /\ parent' = [i \in DOMAIN arrival' |-> i]
  /\ UNCHANGED <<onDisk, walked, groupCtx, toHash, byHash, groups>>

(* find, with its path compression, and union.  The path up from a place is*)
(* the least set that has it and the parent of each of its own.            *)
PathUp(par, i) ==
  {k \in DOMAIN par : \A S \in SUBSET DOMAIN par :
                        i \in S /\ (\A j \in S : par[j] \in S) => k \in S}
Root(par, i) == CHOOSE r \in PathUp(par, i) : par[r] = r
Compress(par, i) ==
  LET above == PathUp(par, i)
  IN  [j \in DOMAIN par |-> IF j \in above THEN Root(par, i) ELSE par[j]]

Union(par, i, j) ==
  LET both == Compress(Compress(par, i), j)
  IN  [both EXCEPT ![Root(par, i)] = Root(par, j)]

(* One candidate against the later ones, in their order.                  *)
Merged_SkipsNext(par, i) ==
  LET upTo[j \in i .. Len(arrival)] ==
        IF j <= i + 1 THEN par
        ELSE IF Similar(arrival[i], arrival[j]) THEN Union(upTo[j - 1], i, j) ELSE upTo[j - 1]
  IN  upTo[Len(arrival)]
Merged(par, i) ==
  LET upTo[j \in i .. Len(arrival)] ==
        IF j = i THEN par
        ELSE IF Similar(arrival[i], arrival[j]) THEN Union(upTo[j - 1], i, j) ELSE upTo[j - 1]
  IN  upTo[Len(arrival)]
CompareRow ==
  /\ doing = "pairing" /\ compared < Len(arrival) /\ groupCtx = "live"
  /\ compared' = compared + 1 /\ parent' = Merged(parent, compared + 1)
  /\ UNCHANGED <<onDisk, walked, groupCtx, doing, toHash, byHash, arrival, kinds, groups>>

(* The biggest file of a bucket, the first in path order among equals,     *)
(* stands for it; the members come by their likeness to it.                *)
Representative(g) ==
  CHOOSE p \in g : \A q \in g \ {p} : walked[p].size > walked[q].size
                                      \/ (walked[p].size = walked[q].size /\ p < q)
ByLikeness(g) ==
  LET rep == Representative(g)
      nearer(p, q) == Apart(rep, p) < Apart(rep, q) \/ (Apart(rep, p) = Apart(rep, q) /\ p < q)
  IN  CHOOSE s \in [1 .. Cardinality(g) -> g] : \A i, j \in DOMAIN s : i < j => nearer(s[i], s[j])

Bucket(r) == {arrival[i] : i \in {i \in DOMAIN arrival : Root(parent, i) = r}}

(* Cut short, the pairing returns no groups.  A cap on the members keeps   *)
(* the first of each group and gives their number.                         *)
SimilarGroups(cap) ==
  IF compared < Len(arrival) \/ Len(arrival) < 2 THEN {}
  ELSE {[members |-> SubSeq(ByLikeness(g), 1, Min({cap, Cardinality(g)})),
         rep |-> Representative(g), total |-> Cardinality(g)]
        : g \in {g \in {Bucket(r) : r \in DOMAIN arrival} : Cardinality(g) > 1}}
EmitSimilar(cap) ==
  /\ doing = "pairing" /\ (compared = Len(arrival) \/ groupCtx = "done")
  /\ doing' = "grouped" /\ groups' = SimilarGroups(cap)
  /\ UNCHANGED <<onDisk, walked, groupCtx, toHash, byHash, pairVars, kinds>>

GroupNext ==
  \/ GroupCancel \/ WalkForEqual \/ WalkForSimilar \/ CompareRow \/ EmitEqual
  \/ \E p \in GroupFiles : HashOne(p)
  \/ \E p \in GroupFiles, f \in FileStates : EditFile(p, f)
  \/ \E cap \in {1, Cardinality(GroupFiles)} : EmitSimilar(cap)

GroupSpec == GroupInit /\ [][GroupNext]_groupVars

-----------------------------------------------------------------------------
(* Files that a chain of similar pairs joins, by its definition: whatever  *)
(* holds one of them and all that are similar to its own holds the other.  *)
Joined(S) ==
  {pq \in S \X S :
     \A T \in SUBSET S :
       pq[1] \in T /\ (\A r \in T, s \in S : Similar(r, s) => s \in T) => pq[2] \in T}

(* Files reported as equal held the same text when they were read, no file *)
(* is in two groups, and unless the search was cut short two files that    *)
(* did not change and are equal are together.                              *)
EqualRight ==
  /\ \A g \in groups : \A p, q \in Range(g.members) :
       \E t \in {x.text : x \in FileStates} : <<p, t>> \in byHash /\ <<q, t>> \in byHash
  /\ \A g, h \in groups : g # h => Range(g.members) \cap Range(h.members) = {}
  /\ groupCtx = "live" =>
       \A p, q \in Considered(GroupFiles) \ Edited :
         p # q /\ walked[p] = walked[q] => \E g \in groups : {p, q} \subseteq Range(g.members)

(* Whatever the order of the candidates, a group stays within what chains  *)
(* of similar pairs join, and files of which any two are similar and no    *)
(* other file is similar to any are one group, of which a cap keeps        *)
(* members at least as close to the representative as those it drops; a    *)
(* search that was not cut short finds a group if any two are similar.     *)
(* (Of a chain with unlike ends it is left open which groups it makes: the *)
(* comment on FindNearDuplicates and its union-find disagree there.)       *)
AllSimilar(S) == \A p, q \in S : Similar(p, q)

SimilarRight ==
  LET near == Joined(Range(arrival))
      part(p) == {q \in Range(arrival) : <<p, q>> \in near}
      parts == {g \in {part(p) : p \in Range(arrival)} : Cardinality(g) > 1}
  IN  /\ groupCtx = "live" /\ groups = {} => parts = {}
      /\ groups # {} =>
           \A g \in parts : AllSimilar(g) => \E h \in groups : h.rep = Representative(g)
      /\ \A g \in groups :
           /\ Range(g.members) \subseteq part(g.rep)
           /\ AllSimilar(part(g.rep)) =>
                /\ g.total = Cardinality(part(g.rep))
                /\ \A p \in Range(g.members), q \in part(g.rep) \ Range(g.members) :
                     Len(g.members) < g.total => Apart(g.rep, p) <= Apart(g.rep, q)

GroupsExact ==
  doing = "grouped" => IF kinds = "equal" THEN EqualRight ELSE SimilarRight
=============================================================================
