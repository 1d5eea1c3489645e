----------------------------- MODULE AttrCache ------------------------------
(***************************************************************************)
(* The attribute half of the index under a changing file tree: goroutines  *)
(* in BuildAttributesWith (internal/celexpr/evaluator.go), the Put channel *)
(* and writer of the bbolt backend or the maps of the in-memory one        *)
(* (internal/index), and the background maintainer WatchIndex              *)
(* (internal/search/watch_index.go).                                       *)
(*                                                                         *)
(* A file's content is a version number; (size, mtime) identifies a        *)
(* version, so a version stands for both.  An entry records the version    *)
(* stat saw ("at") and the version the parser read ("of"), or that it could*)
(* read none: then the entry is empty.                                     *)
(***************************************************************************)
EXTENDS Integers, Sequences, Functions

CONSTANTS
  Paths,       \* absolute paths of files
  Builders,    \* goroutines that build attributes: walk workers, watcher
  None,        \* "no entry"
  Backends,    \* backends the index may have been opened with
  QueueCap,    \* putBufferSize
  Batch,       \* flushBatch
  MaxVersion,  \* bound: writes to a file
  MaxCrashes   \* bound: restarts of the process

ASSUME AttrCacheAssumption ==
  /\ Backends # {} /\ Backends \subseteq {"bolt", "memory"}
  /\ QueueCap \in Nat \ {0}
  /\ Batch \in Nat \ {0}
  /\ MaxVersion \in Nat
  /\ MaxCrashes \in Nat
  /\ None \notin [at : 1 .. MaxVersion, of : 0 .. MaxVersion]

VARIABLES
  file,      \* version of each file on disk, 0 when there is none
  written,   \* last version ever written
  attrs,     \* attrs_v1, or memoryIndex.data
  puts,      \* the channel
  pending,   \* the writer's batch
  work,      \* where each builder is
  event,     \* debounced file-system event not yet handled
  crashes,
  backend    \* what openIndex got: bbolt, or memory when that is locked

vars == <<file, written, attrs, puts, pending, work, event, crashes, backend>>
treeVars == <<file, written, event, crashes, backend>>
indexVars == <<attrs, puts, pending>>

Versions == 1 .. MaxVersion
Unread == 0
Entry == [at : Versions, of : Versions \cup {Unread}]
PutReq == [key : Paths, val : Entry]

Idle == [step |-> "idle"]
At(step, p, v) == [step |-> step, path |-> p, at |-> v]
Has(step, p, e) == [step |-> step, path |-> p, at |-> e.at, of |-> e.of]
Works == {Idle} \cup {At("peeked", p, 0) : p \in Paths}
                \cup {At(s, p, v) : s \in {"statted", "missed"}, p \in Paths, v \in Versions}
                \cup {Has(s, p, e) : s \in {"parsed", "served"}, p \in Paths, e \in Entry}

-----------------------------------------------------------------------------
Init ==
  /\ file = [p \in Paths |-> 0]
  /\ written = [p \in Paths |-> 0]
  /\ attrs = [p \in Paths |-> None]
  /\ puts = <<>> /\ pending = <<>>
  /\ work = [b \in Builders |-> Idle]
  /\ event = [p \in Paths |-> "none"]
  /\ crashes = 0
  /\ backend \in Backends

Become(b, w) == work' = [work EXCEPT ![b] = w]

-----------------------------------------------------------------------------
(* The tree.  The watcher keeps the latest event of a path only.           *)

WriteFile(p) ==
  /\ written[p] < MaxVersion
  /\ written' = [written EXCEPT ![p] = @ + 1]
  /\ file' = [file EXCEPT ![p] = written'[p]]
  /\ event' = [event EXCEPT ![p] = "write"]
  /\ UNCHANGED <<indexVars, work, crashes, backend>>

RemoveFile(p) ==
  /\ file[p] # 0
  /\ file' = [file EXCEPT ![p] = 0]
  /\ event' = [event EXCEPT ![p] = "remove"]
  /\ UNCHANGED <<indexVars, work, written, crashes, backend>>

-----------------------------------------------------------------------------
(* BuildAttributesWith.                                                    *)

(* A walk reaches the file and stats it.                                   *)
Stat(b, p) ==
  /\ work[b] = Idle
  /\ file[p] # 0
  /\ Become(b, At("statted", p, file[p]))
  /\ UNCHANGED <<treeVars, indexVars>>

(* An entry is good for a stat result when (size, mtime) agree.            *)
Matches_AnyMtime(e, v) == e # None
Matches(e, v) == e # None /\ e.at = v

(* Lookup: a hit serves the entry.  A read of the bbolt file may fail      *)
(* (decode overload or timeout), which counts as a miss.                   *)
Lookup(b) ==
  /\ work[b].step = "statted"
  /\ LET w == work[b]
     IN  \/ /\ Matches(attrs[w.path], w.at)
            /\ Become(b, Has("served", w.path, [at |-> w.at, of |-> attrs[w.path].of]))
         \/ /\ ~Matches(attrs[w.path], w.at) \/ backend = "bolt"
            /\ Become(b, At("missed", w.path, w.at))
  /\ UNCHANGED <<treeVars, indexVars>>

(* The parser reads the file as it is now.  What cannot be opened, read or *)
(* parsed, or not before the walk is cancelled, is an error of some types, *)
(* and then nothing is cached; of others, and of a file whose type is not  *)
(* detected, it is an empty result like any other.                         *)
ParsedEntry_StatAfter(w) == [at |-> file[w.path], of |-> w.at]
ParsedEntry(w) == [at |-> w.at, of |-> file[w.path]]
EmptyEntry(w) == [at |-> w.at, of |-> Unread]

Parse(b) ==
  /\ work[b].step = "missed"
  /\ LET w == work[b]
     IN  \/ /\ file[w.path] # 0
            /\ Become(b, Has("parsed", w.path, ParsedEntry(w)))
         \/ Become(b, Has("parsed", w.path, EmptyEntry(w)))
         \/ Become(b, Idle)
  /\ UNCHANGED <<treeVars, indexVars>>

(* Put: the in-memory backend stores at once; bbolt's enqueues, and drops  *)
(* when the channel is full or the encoded entry too large.                *)
HasRoom_OffByOne == Len(puts) <= QueueCap
HasRoom == Len(puts) < QueueCap

Built_Restat(w) == [at |-> file[w.path], of |-> w.of]
Built(w) == [at |-> w.at, of |-> w.of]

Put(b) ==
  /\ work[b].step = "parsed"
  /\ LET w == work[b]
     IN  \/ /\ backend = "bolt" /\ HasRoom
            /\ puts' = Append(puts, [key |-> w.path, val |-> Built(w)])
            /\ UNCHANGED <<attrs, pending>>
         \/ /\ backend = "bolt"
            /\ UNCHANGED indexVars
         \/ /\ backend = "memory"
            /\ attrs' = [attrs EXCEPT ![w.path] = Built(w)]
            /\ UNCHANGED <<puts, pending>>
  /\ Become(b, Idle)
  /\ UNCHANGED treeVars

(* The caller is done with a served record.                                *)
Return(b) ==
  /\ work[b].step = "served"
  /\ Become(b, Idle)
  /\ UNCHANGED <<treeVars, indexVars>>

-----------------------------------------------------------------------------
(* The writer goroutine.                                                   *)

(* The batch is applied in order: the value under k is its last Put's.     *)
LastPut(k) == {i \in DOMAIN pending :
                 /\ pending[i].key = k
                 /\ \A j \in i + 1 .. Len(pending) : pending[j].key # k}

Stored(k) ==
  IF LastPut(k) = {} THEN attrs[k] ELSE pending[CHOOSE i \in LastPut(k) : TRUE].val

Receive ==
  /\ puts # <<>> /\ Len(pending) < Batch
  /\ pending' = Append(pending, Head(puts))
  /\ puts' = Tail(puts)
  /\ UNCHANGED <<treeVars, attrs, work>>

(* One transaction for the batch, by size or by timer; it may fail, and    *)
(* then the batch is only counted.                                         *)
Flush ==
  /\ pending # <<>>
  /\ \/ attrs' = [k \in Paths |-> Stored(k)]
     \/ attrs' = attrs
  /\ pending' = <<>>
  /\ UNCHANGED <<treeVars, puts, work>>

-----------------------------------------------------------------------------
(* Delete and Clear from the dashboard, and the maintainer.  (A path the   *)
(* watcher excludes is one for which WatchWrite is never taken.)           *)

Forget(p) == attrs' = [attrs EXCEPT ![p] = None]

Delete(p) ==
  /\ Forget(p)
  /\ UNCHANGED <<treeVars, puts, pending, work>>

Clear ==
  /\ attrs' = [p \in Paths |-> None]
  /\ UNCHANGED <<treeVars, puts, pending, work>>

(* maintain on remove / rename.                                            *)
WatchRemove(p) ==
  /\ event[p] = "remove"
  /\ Forget(p)
  /\ event' = [event EXCEPT ![p] = "none"]
  /\ UNCHANGED <<file, written, crashes, backend, puts, pending, work>>

(* maintain on create / write: only a path already cached is refreshed.    *)
WatchWrite(b, p) ==
  /\ event[p] = "write" /\ work[b] = Idle
  /\ event' = [event EXCEPT ![p] = "none"]
  /\ Become(b, IF attrs[p] = None THEN Idle ELSE At("peeked", p, 0))
  /\ UNCHANGED <<file, written, crashes, backend, indexVars>>

WatchStat(b) ==
  /\ work[b].step = "peeked"
  /\ LET p == work[b].path
     IN  Become(b, IF file[p] = 0 THEN Idle ELSE At("statted", p, file[p]))
  /\ UNCHANGED <<treeVars, indexVars>>

-----------------------------------------------------------------------------
(* The process dies and another opens the index: only the bbolt file stays.*)
Crash ==
  /\ crashes < MaxCrashes
  /\ crashes' = crashes + 1
  /\ puts' = <<>> /\ pending' = <<>>
  /\ attrs' = IF backend = "bolt" THEN attrs ELSE [p \in Paths |-> None]
  /\ work' = [b \in Builders |-> Idle]
  /\ event' = [p \in Paths |-> "none"]
  /\ UNCHANGED <<file, written, backend>>

-----------------------------------------------------------------------------
Next ==
  \/ \E p \in Paths : WriteFile(p) \/ RemoveFile(p) \/ Delete(p) \/ WatchRemove(p)
  \/ \E b \in Builders, p \in Paths : Stat(b, p) \/ WatchWrite(b, p)
  \/ \E b \in Builders : Lookup(b) \/ Parse(b) \/ Put(b) \/ Return(b) \/ WatchStat(b)
  \/ Receive \/ Flush \/ Clear \/ Crash

Spec == Init /\ [][Next]_vars

-----------------------------------------------------------------------------
(* Type invariant.                                                         *)
TypeOK ==
  /\ file \in [Paths -> 0 .. MaxVersion]
  /\ written \in [Paths -> 0 .. MaxVersion]
  /\ attrs \in [Paths -> Entry \cup {None}]
  /\ puts \in Seq(PutReq) /\ Len(puts) <= QueueCap
  /\ pending \in Seq(PutReq) /\ Len(pending) <= Batch
  /\ work \in [Builders -> Works]
  /\ event \in [Paths -> {"none", "write", "remove"}]
  /\ crashes \in 0 .. MaxCrashes
  /\ backend \in Backends

(* What the index serves, if it is not empty, is never older than what the *)
(* caller's stat saw, and exact if the file is still what it was then,     *)
(* whatever edits, removals, late Puts, maintenance and restarts           *)
(* interleave: it is correct by (size, mtime) validation alone, watcher or *)
(* not.  (A comment in BuildAttributesWith has it that an empty parse is   *)
(* not cached; it is, and of an empty entry nothing is claimed.)           *)
ServedFresh ==
  \A b \in Builders : work[b].step = "served" /\ work[b].of # Unread =>
    /\ work[b].of >= work[b].at
    /\ file[work[b].path] = work[b].at => work[b].of = work[b].at

(* The reason: every entry with something in it, stored or on its way, was *)
(* stat'ed no later than it was parsed, and a file on disk is the last     *)
(* version written.                                                        *)
Honest(p, e) == e.of # Unread => e.at <= e.of /\ e.of <= written[p]

FilesLatest == \A p \in Paths : file[p] \in {0, written[p]}
StoredHonest == \A p \in Paths : attrs[p] # None => Honest(p, attrs[p])
QueuedHonest == \A r \in Range(puts) \cup Range(pending) : Honest(r.key, r.val)
HeldHonest(b) ==
  /\ work[b].step \in {"statted", "missed"} => work[b].at <= written[work[b].path]
  /\ work[b].step \in {"parsed", "served"} => Honest(work[b].path, Built(work[b]))

EntriesHonest ==
  FilesLatest /\ StoredHonest /\ QueuedHonest /\ \A b \in Builders : HeldHonest(b)

(* Nothing stale is served, and nothing is on its way that could be.       *)
IndexHonest == EntriesHonest /\ ServedFresh

(* Entries on their way to the index.                                      *)
Offered == {<<r.key, r.val>> : r \in Range(puts) \cup Range(pending)} \cup
           {<<work[b].path, Built(work[b])>> :
              b \in {c \in Builders : work[c].step = "parsed"}}

(* An entry appears under a path only if a build of that path offered it.  *)
Lossy == INSTANCE LossyCache WITH
  Keys <- Paths,
  Values <- Entry,
  cached <- attrs,
  offered <- Offered

IsLossyCache == Lossy!Spec
=============================================================================
