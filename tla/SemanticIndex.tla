--------------------------- MODULE SemanticIndex ----------------------------
(***************************************************************************)
(* The warm vector index of the MCP server's search_semantic tool:         *)
(* handleSearchSemantic (internal/mcpserver/search_semantic_tool.go) and   *)
(* semanticIndex (semantic_index.go), over the attribute cache they share  *)
(* with every other tool and a directory that is being edited.             *)
(*                                                                         *)
(* As in AttrCache, a version stands for the content of a file and for its *)
(* (size, mtime).  An entry records the version stat saw ("at") and, when  *)
(* it carries chunk vectors, the model that made them and the version they *)
(* were made from ("by", "of").  A vector is known by its origin.  The     *)
(* directory is flat: its fingerprint is its own mtime, a counter here.    *)
(***************************************************************************)
EXTENDS Integers, Sequences, Functions

CONSTANTS
  Files,       \* absolute paths of text files in the one directory
  Models,      \* embedding models
  Callers,     \* concurrent calls of search_semantic on that directory
  None,        \* no entry; no vector; no model
  Backends,    \* backends the index may have been opened with
  Chunks,      \* number of chunks of each version's text
  QueueCap,    \* putBufferSize
  MaxVersion,  \* bound: writes to a file
  MaxStamp     \* bound: files created in or removed from the directory

ASSUME SemanticAssumption ==
  /\ Backends # {} /\ Backends \subseteq {"bolt", "memory"}
  /\ MaxVersion \in Nat /\ MaxStamp \in Nat \ {0}
  /\ QueueCap \in Nat \ {0}
  /\ Chunks \in [1 .. MaxVersion -> Nat \ {0}]
  /\ None \notin Models
  /\ None \notin [by : Models, of : 1 .. MaxVersion]
  /\ None \notin [at : 1 .. MaxVersion, by : Models \cup {None}, of : 0 .. MaxVersion]

VARIABLES
  disk,      \* version of each file, 0 when there is none
  written,   \* last version ever written
  stamp,     \* mtime of the directory
  cache,     \* the attribute cache
  puts,      \* entries on their way to bbolt
  vec,       \* byModel: the chunk vectors loaded, per model, file and chunk
  coverage,  \* stamp recorded with a model, 0 for none
  gapless,   \* history: models whose coverage was recorded with no file missing
  call,      \* where each call is
  backend

vars == <<disk, written, stamp, cache, puts, vec, coverage, gapless, call, backend>>
treeVars == <<disk, written, stamp>>
cacheVars == <<cache, puts, backend>>
indexVars == <<vec, coverage, gapless>>

Versions == 1 .. MaxVersion
ChunkIds == UNION {1 .. Chunks[v] : v \in Versions}
Vector == [by : Models, of : Versions]
Entry == [at : Versions, by : {None}, of : {0}] \cup [at : Versions, by : Models, of : Versions]
PutReq == [key : Files, val : Entry]

Present == {f \in Files : disk[f] # 0}
Known(m) == {f \in Files : \E i \in ChunkIds : vec[m][f][i] # None}

Idle == [step |-> "idle"]
Walking(m, todo) == [step |-> "walking", model |-> m, todo |-> todo]
Embedding(m, todo, f, v) ==
  [step |-> "embedding", model |-> m, todo |-> todo, path |-> f, at |-> v]
Walked(m) == [step |-> "walked", model |-> m]
Warming(m, todo) == [step |-> "warming", model |-> m, todo |-> todo]
Trusting(m, asked) == [step |-> "trusting", model |-> m, asked |-> asked]
Ranking(m, asked, hits) == [step |-> "ranking", model |-> m, asked |-> asked, hits |-> hits]
Answering(m, asked, hits, f, v) ==
  [step |-> "answering", model |-> m, asked |-> asked, hits |-> hits, path |-> f, at |-> v]

Goto(c, w) == call' = [call EXCEPT ![c] = w]

-----------------------------------------------------------------------------
Init ==
  /\ written \in [Files -> 0 .. MaxVersion]
  /\ \A f \in Files : written[f] <= 1
  /\ disk = written
  /\ stamp = 1
  /\ cache = [f \in Files |-> None]
  /\ puts = <<>>
  /\ vec = [m \in Models |-> [f \in Files |-> [i \in ChunkIds |-> None]]]
  /\ coverage = [m \in Models |-> 0]
  /\ gapless = {}
  /\ call = [c \in Callers |-> Idle]
  /\ backend \in Backends

-----------------------------------------------------------------------------
(* The directory.  An edit in place leaves its mtime alone; a file that    *)
(* comes or goes bumps it.                                                 *)
Edit(f) ==
  /\ disk[f] # 0 /\ written[f] < MaxVersion
  /\ written' = [written EXCEPT ![f] = @ + 1]
  /\ disk' = [disk EXCEPT ![f] = written'[f]]
  /\ UNCHANGED <<stamp, cacheVars, indexVars, call>>

Create(f) ==
  /\ disk[f] = 0 /\ written[f] < MaxVersion /\ stamp < MaxStamp
  /\ written' = [written EXCEPT ![f] = @ + 1]
  /\ disk' = [disk EXCEPT ![f] = written'[f]]
  /\ stamp' = stamp + 1
  /\ UNCHANGED <<cacheVars, indexVars, call>>

Remove(f) ==
  /\ disk[f] # 0 /\ stamp < MaxStamp
  /\ disk' = [disk EXCEPT ![f] = 0]
  /\ stamp' = stamp + 1
  /\ UNCHANGED <<written, cacheVars, indexVars, call>>

-----------------------------------------------------------------------------
(* The attribute cache.                                                    *)
Plain(v) == [at |-> v, by |-> None, of |-> 0]
Embedded(v, m, w) == [at |-> v, by |-> m, of |-> w]

Matches(f, v) == cache[f] # None /\ cache[f].at = v

HasRoom_OffByOne == Len(puts) <= QueueCap
HasRoom == Len(puts) < QueueCap

(* Put: in memory at once, through the channel of bbolt, which drops what  *)
(* it has no room for.                                                     *)
Put(f, e) ==
  /\ \/ /\ backend = "memory"
        /\ cache' = [cache EXCEPT ![f] = e]
        /\ UNCHANGED puts
     \/ /\ backend = "bolt" /\ HasRoom
        /\ puts' = Append(puts, [key |-> f, val |-> e])
        /\ UNCHANGED cache
     \/ /\ backend = "bolt" /\ ~HasRoom
        /\ UNCHANGED <<puts, cache>>
  /\ UNCHANGED backend

(* The writer commits the oldest Put, or its transaction fails.            *)
Write ==
  /\ puts # <<>>
  /\ cache' \in {cache, [cache EXCEPT ![Head(puts).key] = Head(puts).val]}
  /\ puts' = Tail(puts)
  /\ UNCHANGED <<treeVars, backend, indexVars, call>>

(* Any other tool reaches an uncached version: an entry without vectors.   *)
OtherTool(f) ==
  /\ disk[f] # 0 /\ ~Matches(f, disk[f])
  /\ Put(f, Plain(disk[f]))
  /\ UNCHANGED <<treeVars, indexVars, call>>

-----------------------------------------------------------------------------
(* A call.                                                                 *)

(* Covered: the model has been recorded and the fingerprint still agrees.  *)
Covered_Any(m) == coverage[m] # 0
Covered(m) == coverage[m] # 0 /\ coverage[m] = stamp

(* The fast path when covered; else a walk, over what is there and is not  *)
(* excluded by this call.  A hybrid call walks in any case.                *)
Begin(c, m) ==
  /\ call[c] = Idle
  /\ \/ /\ Covered(m)
        /\ Goto(c, Trusting(m, IF m \in gapless THEN Present ELSE {}))
     \/ \E todo \in SUBSET Present : Goto(c, Walking(m, todo))
  /\ UNCHANGED <<treeVars, cacheVars, indexVars>>

(* A walk worker takes a file: gone; cached with this model's vectors;     *)
(* cached without; or parsed and put first.                                *)
Visit(c, f) ==
  /\ call[c].step = "walking" /\ f \in call[c].todo
  /\ LET m == call[c].model
         rest == call[c].todo \ {f}
         v == disk[f]
     IN  \/ /\ v = 0 \/ (Matches(f, v) /\ cache[f].by = m)
            /\ Goto(c, Walking(m, rest))
            /\ UNCHANGED cacheVars
         \/ /\ v # 0 /\ Matches(f, v) /\ cache[f].by # m
            /\ Goto(c, Embedding(m, rest, f, v))
            /\ UNCHANGED cacheVars
         \/ /\ v # 0 /\ ~Matches(f, v)
            /\ Goto(c, Embedding(m, rest, f, v))
            /\ Put(f, Plain(v))
  /\ UNCHANGED <<treeVars, indexVars>>

(* populateSimilarity reads the body, which may have changed since stat or *)
(* be gone, and embeds it, which may fail; then it puts the entry again.   *)
Embed(c) ==
  /\ call[c].step = "embedding"
  /\ LET w == call[c]
     IN  /\ Goto(c, Walking(w.model, w.todo))
         /\ \/ disk[w.path] # 0 /\ Put(w.path, Embedded(w.at, w.model, disk[w.path]))
            \/ UNCHANGED cacheVars
  /\ UNCHANGED <<treeVars, indexVars>>

(* Timeout or cancellation: a partial answer and no warming.               *)
Cancel(c) ==
  /\ call[c].step \in {"walking", "embedding"}
  /\ Goto(c, Idle)
  /\ UNCHANGED <<treeVars, cacheVars, indexVars>>

EndWalk(c) ==
  /\ call[c].step = "walking" /\ call[c].todo = {}
  /\ Goto(c, Walked(call[c].model))
  /\ UNCHANGED <<treeVars, cacheVars, indexVars>>

(* Warm: list the entries under the directory, ...                         *)
List(c) ==
  /\ call[c].step = "walked"
  /\ Goto(c, Warming(call[c].model, {f \in Files : cache[f] # None}))
  /\ UNCHANGED <<treeVars, cacheVars, indexVars>>

(* ... peek at each, add the chunk vectors of this model (chunks a longer  *)
(* text had keep theirs), ...                                              *)
Loadable_AnyModel(e, m) == e # None /\ e.by # None
Loadable(e, m) == e # None /\ e.by = m

Load(c, f) ==
  /\ call[c].step = "warming" /\ f \in call[c].todo
  /\ LET m == call[c].model
         e == cache[f]
     IN  /\ \/ /\ Loadable(e, m)
               /\ vec' = [vec EXCEPT ![m][f] =
                    [i \in ChunkIds |-> IF i <= Chunks[e.of] THEN [by |-> e.by, of |-> e.of]
                                                             ELSE @[i]]]
            \/ /\ ~Loadable(e, m) \/ backend = "bolt"   \* bbolt's decode may fail
               /\ UNCHANGED vec
         /\ Goto(c, Warming(m, call[c].todo \ {f}))
  /\ UNCHANGED <<treeVars, cacheVars, coverage, gapless>>

(* ... and record the fingerprint the directory has by now.                *)
Record(c) ==
  /\ call[c].step = "warming" /\ call[c].todo = {}
  /\ LET m == call[c].model
     IN  /\ coverage' = [coverage EXCEPT ![m] = stamp]
         /\ gapless' = IF Present \subseteq Known(m) THEN gapless \cup {m} ELSE gapless \ {m}
  /\ Goto(c, Idle)
  /\ UNCHANGED <<treeVars, cacheVars, vec>>

(* Search: every file with a vector, by its best chunk, whichever that is. *)
Search(c) ==
  /\ call[c].step = "trusting"
  /\ LET m == call[c].model
     IN  \E best \in [Known(m) -> ChunkIds] :
           /\ \A f \in Known(m) : vec[m][f][best[f]] # None
           /\ Goto(c, Ranking(m, call[c].asked, [f \in Known(m) |-> vec[m][f][best[f]]]))
  /\ UNCHANGED <<treeVars, cacheVars, indexVars>>

Dropped(c, f) ==
  Goto(c, Ranking(call[c].model, call[c].asked \ {f},
                  Restrict(call[c].hits, DOMAIN call[c].hits \ {f})))

(* Query's freshness gate: a hit whose file is gone, or is cached under    *)
(* another (size, mtime), is counted stale; the rest are answered.         *)
PassesGate(f) == disk[f] # 0 /\ Matches(f, disk[f])

Gate(c, f) ==
  /\ call[c].step = "ranking" /\ f \in DOMAIN call[c].hits
  /\ LET w == call[c]
     IN  \/ PassesGate(f) /\ Goto(c, Answering(w.model, w.asked, w.hits, f, disk[f]))
         \/ ~PassesGate(f) /\ Dropped(c, f)
  /\ UNCHANGED <<treeVars, cacheVars, indexVars>>

(* Its attributes are built as by any other tool: a version that came      *)
(* since the gate is parsed and put without vectors.                       *)
Build(c) ==
  /\ call[c].step = "answering"
  /\ LET f == call[c].path
     IN  /\ Dropped(c, f)
         /\ IF disk[f] = 0 \/ Matches(f, disk[f])
              THEN UNCHANGED cacheVars
              ELSE Put(f, Plain(disk[f]))
  /\ UNCHANGED <<treeVars, indexVars>>

Return(c) ==
  /\ call[c].step = "ranking" /\ DOMAIN call[c].hits = {}
  /\ Goto(c, Idle)
  /\ UNCHANGED <<treeVars, cacheVars, indexVars>>

-----------------------------------------------------------------------------
Next ==
  \/ \E f \in Files : Edit(f) \/ Create(f) \/ Remove(f) \/ OtherTool(f)
  \/ \E c \in Callers, m \in Models : Begin(c, m)
  \/ \E c \in Callers, f \in Files : Visit(c, f) \/ Load(c, f) \/ Gate(c, f)
  \/ \E c \in Callers : Embed(c) \/ Cancel(c) \/ EndWalk(c) \/ List(c) \/ Record(c)
                        \/ Search(c) \/ Build(c) \/ Return(c)
  \/ Write

Spec == Init /\ [][Next]_vars

-----------------------------------------------------------------------------
(* Type invariant.                                                         *)
AreHits(h) == DOMAIN h \subseteq Files /\ \A f \in DOMAIN h : h[f] \in Vector

IsCall(w) ==
  /\ w.step \in {"idle", "walking", "embedding", "walked", "warming", "trusting", "ranking", "answering"}
  /\ w.step # "idle" => w.model \in Models
  /\ w.step \in {"walking", "embedding", "warming"} => w.todo \subseteq Files
  /\ w.step \in {"embedding", "answering"} => w.path \in Files /\ w.at \in Versions
  /\ w.step \in {"trusting", "ranking", "answering"} => w.asked \subseteq Files
  /\ w.step \in {"ranking", "answering"} => AreHits(w.hits)

TypeOK ==
  /\ disk \in [Files -> 0 .. MaxVersion]
  /\ written \in [Files -> 0 .. MaxVersion]
  /\ stamp \in 1 .. MaxStamp
  /\ cache \in [Files -> Entry \cup {None}]
  /\ puts \in Seq(PutReq) /\ Len(puts) <= QueueCap
  /\ vec \in [Models -> [Files -> [ChunkIds -> Vector \cup {None}]]]
  /\ coverage \in [Models -> 0 .. MaxStamp]
  /\ gapless \subseteq Models
  /\ DOMAIN call = Callers /\ \A c \in Callers : IsCall(call[c])
  /\ backend \in Backends

(* Vectors of two models lie in different spaces: whatever models the      *)
(* calls and the cached entries use, what is loaded for a model, and so    *)
(* every hit of a query of that model, was made by that model.             *)
LoadedApart ==
  \A m \in Models, f \in Files, i \in ChunkIds : vec[m][f][i] # None => vec[m][f][i].by = m

HitsApart ==
  \A c \in Callers : call[c].step \in {"ranking", "answering"} =>
    \A f \in DOMAIN call[c].hits : call[c].hits[f].by = call[c].model

ModelsApart == LoadedApart /\ HitsApart

(* The fingerprint notices every change of the set of files: as long as    *)
(* coverage recorded over a complete set of vectors is trusted, no file    *)
(* is missing from the vectors, and a call that took the fast path finds   *)
(* every file that was there when it decided to, however the tree, the     *)
(* cache and other calls move on while it ranks.                           *)
TrustedWhole == \A m \in gapless : Covered(m) => Present \subseteq Known(m)

FindsAll ==
  \A c \in Callers :
    /\ call[c].step = "trusting" => call[c].asked \subseteq Known(call[c].model)
    /\ call[c].step \in {"ranking", "answering"} => call[c].asked \subseteq DOMAIN call[c].hits

CoverageWhole == TrustedWhole /\ FindsAll

(* The warm index answers a call as a walk that embeds every file with its *)
(* model would: no vector of another model, and no file left out.          *)
WarmExact == ModelsApart /\ CoverageWhole

(* "The warm path never serves a vector it can't verify is current": the   *)
(* vector a file is ranked by is the one of the version the gate let pass. *)
RankedFresh ==
  \A c \in Callers : call[c].step = "answering" => call[c].hits[call[c].path].of = call[c].at
=============================================================================
