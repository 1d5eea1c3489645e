------------------------------ MODULE TreeDiff ------------------------------
(***************************************************************************)
(* Set operations on two directory trees by content                        *)
(* (internal/search/diff.go).  Tree A is walked and hashed, then tree B,   *)
(* under one context that may end at any moment: during a walk, which then *)
(* reports it, or between two hashes, where the loop just stops.           *)
(*                                                                         *)
(* A file is its path relative to its root and what it holds: a content    *)
(* (equal contents have equal hashes), or Opaque, which has no hash: a     *)
(* file of no bytes, or one that cannot be read.                           *)
(***************************************************************************)
EXTENDS Integers, Sequences, SequencesExt, FiniteSets, FiniteSetsExt

CONSTANTS
  Rels,   \* relative paths
  Blobs,  \* contents
  Opaque, \* what has no hash
  NoFile  \* no file at that path

ASSUME DiffAssumption ==
  /\ IsFiniteSet(Rels) /\ NoFile \notin Rels \cup Blobs \cup {Opaque} /\ Opaque \notin Blobs

Sides == {"A", "B"}

VARIABLES
  trees,    \* what is at each path of each side
  op,       \* the operation, looked at in the end
  diffCtx,  \* "live" or "done"
  diffAt,   \* "walk", "hash" or "answered"
  side,     \* tree at work
  unhashed, \* files its walk gave that are not hashed yet
  hashed,   \* per side, files in the order they were hashed
  walkErr,  \* per side, whether its walk reported the end of the context
  records   \* the answer: status, path in A, path in B, content

diffVars == <<trees, op, diffCtx, diffAt, side, unhashed, hashed, walkErr, records>>

Ops == {"a-minus-b", "b-minus-a", "intersect", "union", "mismatch"}
FilesOf(s) == {r \in Rels : trees[s][r] # NoFile}

DiffStart(ts) ==
  /\ trees = ts
  /\ op = "none" /\ diffCtx = "live" /\ diffAt = "walk" /\ side = "A"
  /\ unhashed = {} /\ hashed = [s \in Sides |-> <<>>]
  /\ walkErr = [s \in Sides |-> FALSE] /\ records = {}

DiffInit == \E ts \in [Sides -> [Rels -> Blobs \cup {Opaque, NoFile}]] : DiffStart(ts)

DiffCancel ==
  /\ diffCtx = "live" /\ diffAt # "answered" /\ diffCtx' = "done"
  /\ UNCHANGED <<trees, op, diffAt, side, unhashed, hashed, walkErr, records>>

(* walkTreeHashes: the walk, ...                                           *)
WalkTree ==
  /\ diffAt = "walk" /\ diffAt' = "hash"
  /\ unhashed' \in IF diffCtx = "live" THEN {FilesOf(side)} ELSE SUBSET FilesOf(side)
  /\ walkErr' = [walkErr EXCEPT ![side] = diffCtx = "done"]
  /\ UNCHANGED <<trees, op, diffCtx, side, hashed, records>>

(* ... the hash of one file, in the order the walk gave them, ...          *)
HashFile(r) ==
  /\ diffAt = "hash" /\ r \in unhashed /\ diffCtx = "live"
  /\ unhashed' = unhashed \ {r}
  /\ hashed' = IF trees[side][r] = Opaque THEN hashed
               ELSE [hashed EXCEPT ![side] = Append(@, r)]
  /\ UNCHANGED <<trees, op, diffCtx, diffAt, side, walkErr, records>>

(* ... and its end, for tree A.                                            *)
LeaveA ==
  /\ diffAt = "hash" /\ side = "A" /\ (unhashed = {} \/ diffCtx = "done")
  /\ side' = "B" /\ diffAt' = "walk" /\ unhashed' = {}
  /\ UNCHANGED <<trees, op, diffCtx, hashed, walkErr, records>>

-----------------------------------------------------------------------------
(* aByHash and bByHash.  The first file of a hash stands for the others.   *)
HashesOf(s) == {trees[s][r] : r \in Range(hashed[s])}
Holding(s, c) == {i \in DOMAIN hashed[s] : trees[s][hashed[s][i]] = c}
FirstOf(s, c) == hashed[s][Min(Holding(s, c))]

Row(status, a, b, c) == [status |-> status, a |-> a, b |-> b, content |-> c]

Minus(s, t, status) ==
  {Row(status, IF s = "A" THEN r ELSE NoFile, IF s = "B" THEN r ELSE NoFile, trees[s][r])
   : r \in {r \in Range(hashed[s]) : trees[s][r] \notin HashesOf(t)}}

Both(c) == Row("both", FirstOf("A", c), FirstOf("B", c), c)

Differing_NameOnly(r) == r \in Range(hashed["A"]) \cap Range(hashed["B"])
Differing(r) ==
  r \in Range(hashed["A"]) \cap Range(hashed["B"]) /\ trees["A"][r] # trees["B"][r]

Outcome(o) ==
  CASE o = "a-minus-b" -> Minus("A", "B", "only_in_a")
    [] o = "b-minus-a" -> Minus("B", "A", "only_in_b")
    [] o = "intersect" -> {Both(c) : c \in HashesOf("A") \cap HashesOf("B")}
    [] o = "union" ->
         {Both(c) : c \in HashesOf("A") \cap HashesOf("B")}
         \cup {Row("only_in_a", FirstOf("A", c), NoFile, c) : c \in HashesOf("A") \ HashesOf("B")}
         \cup {Row("only_in_b", NoFile, FirstOf("B", c), c) : c \in HashesOf("B") \ HashesOf("A")}
    [] o = "mismatch" ->
         {Row("name_match_content_differs", r, r, NoFile) : r \in {r \in Rels : Differing(r)}}

Answer(o) ==
  /\ diffAt = "hash" /\ side = "B" /\ (unhashed = {} \/ diffCtx = "done")
  /\ diffAt' = "answered" /\ op' = o /\ records' = Outcome(o)
  /\ UNCHANGED <<trees, diffCtx, side, unhashed, hashed, walkErr>>

(* The Cancelled field: what a walk reported, nothing else.                *)
MarkedCancelled == \E s \in Sides : walkErr[s]

DiffNext ==
  \/ DiffCancel \/ WalkTree \/ LeaveA
  \/ \E r \in Rels : HashFile(r)
  \/ \E o \in Ops : Answer(o)

DiffSpec == DiffInit /\ [][DiffNext]_diffVars

-----------------------------------------------------------------------------
(* What the trees really share, from the trees alone.                      *)
Hashable(s) == {r \in Rels : trees[s][r] \in Blobs}
Held(s) == {trees[s][r] : r \in Hashable(s)}

(* An answer for which the context never ended is not marked cancelled and *)
(* is the difference of the trees, whatever order the walks found the      *)
(* files in: the differences name every file of a content the other side   *)
(* lacks and no other, the symmetric operations name each content once,    *)
(* with files that hold it and the sides it is on, and a mismatch is a     *)
(* path both sides have with different contents.                           *)
DiffExact ==
  diffAt = "answered" /\ diffCtx = "live" =>
    /\ ~MarkedCancelled
    /\ \A x \in records :
         /\ x.a # NoFile => x.a \in Hashable("A") /\ x.content \in {trees["A"][x.a], NoFile}
         /\ x.b # NoFile => x.b \in Hashable("B") /\ x.content \in {trees["B"][x.b], NoFile}
         /\ x.status = "only_in_a" => x.content \notin Held("B")
         /\ x.status = "only_in_b" => x.content \notin Held("A")
         /\ x.status = "both" => x.a # NoFile /\ x.b # NoFile
    /\ op = "a-minus-b" =>
         {x.a : x \in records} = {r \in Hashable("A") : trees["A"][r] \notin Held("B")}
    /\ op = "b-minus-a" =>
         {x.b : x \in records} = {r \in Hashable("B") : trees["B"][r] \notin Held("A")}
    /\ op \in {"intersect", "union"} =>
         LET wanted == IF op = "union" THEN Held("A") \cup Held("B") ELSE Held("A") \cap Held("B")
         IN  /\ {x.content : x \in records} = wanted
             /\ Cardinality(records) = Cardinality(wanted)
    /\ op = "mismatch" =>
         {x.a : x \in records}
           = {r \in Hashable("A") \cap Hashable("B") : trees["A"][r] # trees["B"][r]}
=============================================================================
