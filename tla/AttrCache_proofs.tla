-------------------------- MODULE AttrCache_proofs --------------------------
(***************************************************************************)
(* What holds of AttrCache for every set of paths and builders, both       *)
(* backends, every channel and batch size and every bound; then what holds *)
(* of Selection for every disk and every walk over it.                     *)
(***************************************************************************)
EXTENDS AttrCache, Selection, DataLemmas

(* What a builder may hold, by the step it is at.                          *)
LEMMA WorkKinds ==
  ASSUME NEW w \in Works
  PROVE  \/ w = Idle
         \/ w.step = "peeked" /\ w.path \in Paths
         \/ w.step \in {"statted", "missed"} /\ w.path \in Paths /\ w.at \in Versions
         \/ /\ w.step \in {"parsed", "served"} /\ w.path \in Paths
            /\ w.at \in Versions /\ w.of \in Versions \cup {Unread}
<1>1. CASE w \in {At("peeked", p, 0) : p \in Paths}
  BY <1>1 DEF At
<1>2. CASE w \in {At(s, p, v) : s \in {"statted", "missed"}, p \in Paths, v \in Versions}
  BY <1>2 DEF At
<1>3. CASE w \in {Has(s, p, e) : s \in {"parsed", "served"}, p \in Paths, e \in Entry}
  BY <1>3 DEF Has, Entry
<1>4. QED
  BY <1>1, <1>2, <1>3 DEF Works

LEMMA WorkType ==
  /\ Idle \in Works
  /\ \A p \in Paths : At("peeked", p, 0) \in Works
  /\ \A s \in {"statted", "missed"}, p \in Paths, v \in Versions : At(s, p, v) \in Works
  /\ \A s \in {"parsed", "served"}, p \in Paths, e \in Entry : Has(s, p, e) \in Works
BY DEF Works

LEMMA WorkParts ==
  /\ Idle.step = "idle"
  /\ \A s, p, v : /\ At(s, p, v).step = s
                  /\ At(s, p, v).path = p
                  /\ At(s, p, v).at = v
  /\ \A s, p, e : /\ Has(s, p, e).step = s
                  /\ Has(s, p, e).path = p
                  /\ Has(s, p, e).at = e.at
                  /\ Has(s, p, e).of = e.of
BY DEF Idle, At, Has

LEMMA EntryType ==
  ASSUME NEW a \in Versions, NEW o \in Versions \cup {Unread}
  PROVE  /\ [at |-> a, of |-> o] \in Entry
         /\ [at |-> a, of |-> o].at = a
         /\ [at |-> a, of |-> o].of = o
BY DEF Entry

LEMMA NoneIsNoEntry == None \notin Entry
<1>1. Versions \cup {Unread} = 0 .. MaxVersion
  BY AttrCacheAssumption DEF Versions, Unread
<1> QED BY <1>1, AttrCacheAssumption DEF Entry, Versions

(* What a flush stores under a path is what was there or one of the        *)
(* batch's entries for that path.                                          *)
LEMMA StoredFrom ==
  ASSUME NEW k
  PROVE  \/ Stored(k) = attrs[k]
         \/ \E i \in DOMAIN pending : pending[i].key = k /\ Stored(k) = pending[i].val
<1>1. CASE LastPut(k) = {}
  BY <1>1 DEF Stored
<1>2. CASE LastPut(k) # {}
  <2> DEFINE i == CHOOSE i \in LastPut(k) : TRUE
  <2>1. i \in LastPut(k)
    BY <1>2
  <2>2. i \in DOMAIN pending /\ pending[i].key = k
    BY <2>1 DEF LastPut
  <2>3. Stored(k) = pending[i].val
    BY <1>2 DEF Stored
  <2>4. QED
    BY <2>2, <2>3
<1>3. QED
  BY <1>1, <1>2

-----------------------------------------------------------------------------
THEOREM TypeCorrect == Spec => []TypeOK
<1> USE AttrCacheAssumption
<1>1. Init => TypeOK
  BY WorkType DEF Init, TypeOK
<1>2. TypeOK /\ [Next]_vars => TypeOK'
  <2> SUFFICES ASSUME TypeOK, [Next]_vars PROVE TypeOK'
    OBVIOUS
  <2> USE DEF TypeOK
  <2>1. ASSUME NEW p \in Paths, WriteFile(p) PROVE TypeOK'
    BY <2>1 DEF WriteFile, indexVars
  <2>2. ASSUME NEW p \in Paths, RemoveFile(p) PROVE TypeOK'
    BY <2>2 DEF RemoveFile, indexVars
  <2>3. ASSUME NEW p \in Paths, Delete(p) PROVE TypeOK'
    BY <2>3 DEF Delete, Forget, treeVars
  <2>4. ASSUME NEW p \in Paths, WatchRemove(p) PROVE TypeOK'
    BY <2>4 DEF WatchRemove, Forget
  <2>5. ASSUME NEW b \in Builders, NEW p \in Paths, Stat(b, p) PROVE TypeOK'
    <3>1. file[p] \in Versions
      BY <2>5 DEF Stat, Versions
    <3>2. QED
      BY <2>5, <3>1, WorkType DEF Stat, Become, treeVars, indexVars
  <2>6. ASSUME NEW b \in Builders, NEW p \in Paths, WatchWrite(b, p) PROVE TypeOK'
    BY <2>6, WorkType DEF WatchWrite, Become, indexVars
  <2>7. ASSUME NEW b \in Builders, Lookup(b) PROVE TypeOK'
    <3>1. work[b].path \in Paths /\ work[b].at \in Versions
      BY <2>7, WorkKinds, WorkParts DEF Lookup
    <3>2. CASE /\ Matches(attrs[work[b].path], work[b].at)
               /\ Become(b, Has("served", work[b].path,
                            [at |-> work[b].at, of |-> attrs[work[b].path].of]))
      <4>1. attrs[work[b].path].of \in Versions \cup {Unread}
        BY <3>1, <3>2 DEF Matches, Entry
      <4>2. QED
        BY <2>7, <3>1, <3>2, <4>1, EntryType, WorkType
        DEF Lookup, Become, treeVars, indexVars
    <3>3. CASE Become(b, At("missed", work[b].path, work[b].at))
      BY <2>7, <3>1, <3>3, WorkType DEF Lookup, Become, treeVars, indexVars
    <3>4. QED
      BY <2>7, <3>2, <3>3 DEF Lookup
  <2>8. ASSUME NEW b \in Builders, Parse(b) PROVE TypeOK'
    <3>1. work[b].path \in Paths /\ work[b].at \in Versions
      BY <2>8, WorkKinds, WorkParts DEF Parse
    <3>2. CASE Become(b, Idle)
      BY <2>8, <3>2, WorkType DEF Parse, Become, treeVars, indexVars
    <3>3. CASE /\ file[work[b].path] # 0
               /\ Become(b, Has("parsed", work[b].path, ParsedEntry(work[b])))
      <4>1. file[work[b].path] \in Versions
        BY <3>1, <3>3 DEF Versions
      <4>2. QED
        BY <2>8, <3>1, <3>3, <4>1, EntryType, WorkType
        DEF Parse, ParsedEntry, Become, treeVars, indexVars
    <3>4. CASE Become(b, Has("parsed", work[b].path, EmptyEntry(work[b])))
      BY <2>8, <3>1, <3>4, EntryType, WorkType
      DEF Parse, EmptyEntry, Become, treeVars, indexVars
    <3>5. QED
      BY <2>8, <3>2, <3>3, <3>4 DEF Parse
  <2>9. ASSUME NEW b \in Builders, Put(b) PROVE TypeOK'
    <3>1. work[b].path \in Paths /\ Built(work[b]) \in Entry
      <4>1. work[b].step = "parsed" /\ work[b] \in Works
        BY <2>9 DEF Put, TypeOK
      <4>2. work[b].path \in Paths /\ work[b].at \in Versions /\ work[b].of \in Versions \cup {Unread}
        BY <4>1, WorkKinds, WorkParts
      <4>3. QED
        BY <4>2, EntryType DEF Built
    <3>2. [key |-> work[b].path, val |-> Built(work[b])] \in PutReq
      BY <3>1 DEF PutReq
    <3>3. work' \in [Builders -> Works]
      BY <2>9, WorkType DEF Put, Become
    <3>4. CASE HasRoom /\ puts' = Append(puts, [key |-> work[b].path, val |-> Built(work[b])])
               /\ UNCHANGED <<attrs, pending>>
      <4>1. puts' \in Seq(PutReq) /\ Len(puts') <= QueueCap
        BY <3>2, <3>4, AppendProperties, LenProperties DEF HasRoom
      <4>2. QED
        BY <2>9, <3>3, <3>4, <4>1 DEF Put, treeVars
    <3>5. CASE UNCHANGED indexVars
      BY <2>9, <3>3, <3>5 DEF Put, treeVars, indexVars
    <3>6. CASE attrs' = [attrs EXCEPT ![work[b].path] = Built(work[b])]
               /\ UNCHANGED <<puts, pending>>
      BY <2>9, <3>1, <3>3, <3>6 DEF Put, treeVars
    <3>7. QED
      BY <2>9, <3>4, <3>5, <3>6 DEF Put
  <2>10. ASSUME NEW b \in Builders, Return(b) PROVE TypeOK'
    BY <2>10, WorkType DEF Return, Become, treeVars, indexVars
  <2>11. ASSUME NEW b \in Builders, WatchStat(b) PROVE TypeOK'
    <3>1. work[b].path \in Paths
      BY <2>11, WorkKinds, WorkParts DEF WatchStat
    <3>2. file[work[b].path] # 0 => file[work[b].path] \in Versions
      BY <3>1 DEF Versions
    <3>3. QED
      BY <2>11, <3>1, <3>2, WorkType DEF WatchStat, Become, treeVars, indexVars
  <2>12. CASE Receive
    <3>1. Head(puts) \in PutReq /\ Tail(puts) \in Seq(PutReq) /\ Len(Tail(puts)) <= QueueCap
      BY <2>12, HeadTailProperties, LenProperties DEF Receive
    <3>2. pending' \in Seq(PutReq) /\ Len(pending') <= Batch
      BY <2>12, <3>1, AppendProperties, LenProperties DEF Receive
    <3>3. QED
      BY <2>12, <3>1, <3>2 DEF Receive, treeVars
  <2>13. CASE Flush
    <3>1. \A k \in Paths : Stored(k) \in Entry \cup {None}
      <4> TAKE k \in Paths
      <4>1. \A i \in DOMAIN pending : pending[i] \in PutReq
        BY LenProperties
      <4>2. \A r \in PutReq : r.val \in Entry
        BY DEF PutReq
      <4>3. CASE Stored(k) = attrs[k]
        <5>1. attrs[k] \in Entry \cup {None}
          OBVIOUS
        <5>2. QED
          BY <4>3, <5>1
      <4>4. CASE Stored(k) # attrs[k]
        <5>1. PICK i \in DOMAIN pending : Stored(k) = pending[i].val
          BY <4>4, StoredFrom
        <5>2. pending[i].val \in Entry
          BY <4>1, <4>2, <5>1
        <5>3. QED
          BY <5>1, <5>2
      <4>5. QED
        BY <4>3, <4>4
    <3>2. attrs' \in [Paths -> Entry \cup {None}]
      BY <2>13, <3>1 DEF Flush
    <3>3. pending' \in Seq(PutReq) /\ Len(pending') <= Batch
      BY <2>13 DEF Flush
    <3>4. QED
      BY <2>13, <3>2, <3>3 DEF Flush, treeVars
  <2>14. CASE Clear
    BY <2>14 DEF Clear, treeVars
  <2>15. CASE Crash
    <3>1. puts' \in Seq(PutReq) /\ Len(puts') <= QueueCap
          /\ pending' \in Seq(PutReq) /\ Len(pending') <= Batch
      BY <2>15 DEF Crash
    <3>2. attrs' \in [Paths -> Entry \cup {None}]
      BY <2>15 DEF Crash
    <3>3. QED
      BY <2>15, <3>1, <3>2, WorkType DEF Crash
  <2>16. CASE UNCHANGED vars
    BY <2>16 DEF vars
  <2>17. QED
    BY <2>1, <2>2, <2>3, <2>4, <2>5, <2>6, <2>7, <2>8, <2>9, <2>10, <2>11, <2>12,
       <2>13, <2>14, <2>15, <2>16 DEF Next
<1>3. QED
  BY <1>1, <1>2, PTL DEF Spec

-----------------------------------------------------------------------------
LEMMA BuiltParts ==
  /\ \A s, p, v : Built(At(s, p, v)).at = v
  /\ \A s, p, e : Built(Has(s, p, e)).at = e.at /\ Built(Has(s, p, e)).of = e.of
  /\ \A w : Built(w).at = w.at /\ Built(w).of = w.of
BY DEF At, Has, Built

LEMMA EntryInts == \A e \in Entry : e.at \in Int /\ e.of \in Int
BY DEF Entry, Versions, Unread

LEMMA ReqParts == \A r \in PutReq : r.key \in Paths /\ r.val \in Entry
BY DEF PutReq

(* An honest entry stays honest while the file's last version only grows.  *)
LEMMA StaysHonest ==
  ASSUME TypeOK, NEW p \in Paths, NEW e, e.of \in Int, Honest(p, e),
         TypeOK', written[p] <= written'[p]
  PROVE  Honest(p, e)'
BY DEF Honest, TypeOK

(* Files change and entries do not.                                        *)
LEMMA TreeStep ==
  ASSUME TypeOK, TypeOK', EntriesHonest, UNCHANGED <<indexVars, work>>, FilesLatest',
         \A p \in Paths : written[p] <= written'[p]
  PROVE  EntriesHonest'
<1>1. StoredHonest'
  <2> SUFFICES ASSUME NEW p \in Paths, attrs[p] # None PROVE Honest(p, attrs[p])'
    BY DEF StoredHonest, indexVars
  <2>1. Honest(p, attrs[p]) /\ attrs[p].of \in Int
    BY EntryInts DEF EntriesHonest, StoredHonest, TypeOK
  <2>2. attrs' = attrs
    BY DEF indexVars
  <2>3. QED
    BY <2>1, <2>2, StaysHonest DEF Honest
<1>2. QueuedHonest'
  <2> SUFFICES ASSUME NEW r \in Range(puts) \cup Range(pending)
               PROVE  Honest(r.key, r.val)'
    BY DEF QueuedHonest, indexVars
  <2>1. Honest(r.key, r.val)
    BY DEF EntriesHonest, QueuedHonest
  <2>2. r.key \in Paths /\ r.val.of \in Int
    BY RangeType, ReqParts, EntryInts DEF TypeOK
  <2>3. QED
    BY <2>1, <2>2, StaysHonest
<1>3. ASSUME NEW b \in Builders PROVE HeldHonest(b)'
  <2>1. HeldHonest(b) /\ work[b] \in Works /\ work' = work
    BY <1>3 DEF EntriesHonest, TypeOK
  <2>2. CASE work[b].step \in {"statted", "missed"}
    <3>1. work[b].path \in Paths /\ work[b].at \in Int
      <4>1. work[b].path \in Paths /\ work[b].at \in Versions
        BY <2>1, <2>2, WorkKinds, WorkParts
      <4>2. QED
        BY <4>1 DEF Versions
    <3>2. QED
      BY <2>1, <2>2, <3>1 DEF HeldHonest, TypeOK
  <2>3. CASE work[b].step \in {"parsed", "served"}
    <3>1. work[b].path \in Paths /\ Built(work[b]).of \in Int
      <4>1. work[b].path \in Paths /\ work[b].of \in Versions \cup {Unread}
        BY <2>1, <2>3, WorkKinds, WorkParts
      <4>2. QED
        BY <4>1, BuiltParts DEF Versions, Unread
    <3>2. Honest(work[b].path, Built(work[b]))
      BY <2>1, <2>3 DEF HeldHonest
    <3>3. Honest(work[b].path, Built(work[b]))'
      BY <2>1, <3>1, <3>2, StaysHonest DEF Honest, Built
    <3>4. QED
      BY <2>1, <2>3, <3>3 DEF HeldHonest
  <2>4. QED
    BY <2>1, <2>2, <2>3 DEF HeldHonest
<1>4. QED
  BY <1>1, <1>2, <1>3 DEF EntriesHonest

(* Entries move and files do not: it is enough to look at the entries that *)
(* are new.                                                                *)
LEMMA IndexStep ==
  ASSUME EntriesHonest, UNCHANGED <<file, written>>,
         TypeOK, TypeOK',
         \A p \in Paths : attrs'[p] = attrs[p] \/ attrs'[p] = None \/ Honest(p, attrs'[p]),
         \A r \in Range(puts') \cup Range(pending') :
             r \in Range(puts) \cup Range(pending) \/ Honest(r.key, r.val),
         \A b \in Builders : work'[b] = work[b] \/ HeldHonest(b)'
  PROVE  EntriesHonest'
<1>1. FilesLatest'
  BY DEF EntriesHonest, FilesLatest
<1>2. StoredHonest'
  BY DEF EntriesHonest, StoredHonest, Honest
<1>3. QueuedHonest'
  BY DEF EntriesHonest, QueuedHonest, Honest
<1>4. \A b \in Builders : HeldHonest(b)'
  BY DEF EntriesHonest, HeldHonest, Honest, Built
<1>5. QED
  BY <1>1, <1>2, <1>3, <1>4 DEF EntriesHonest

(* An entry is empty, or was stat'ed no later than it was parsed, wherever *)
(* it is.                                                                  *)
THEOREM HonestEntries == Spec => []EntriesHonest
<1> USE AttrCacheAssumption
<1>1. Init => EntriesHonest
  BY RangeEmpty, WorkParts, NoneIsNoEntry
  DEF Init, EntriesHonest, FilesLatest, StoredHonest, QueuedHonest, HeldHonest
<1>2. TypeOK /\ TypeOK' /\ EntriesHonest /\ [Next]_vars => EntriesHonest'
  <2> SUFFICES ASSUME TypeOK, TypeOK', EntriesHonest, [Next]_vars PROVE EntriesHonest'
    OBVIOUS
  <2>1. ASSUME NEW p \in Paths, WriteFile(p) PROVE EntriesHonest'
    <3>1. FilesLatest' /\ \A q \in Paths : written[q] <= written'[q]
      BY <2>1 DEF WriteFile, EntriesHonest, FilesLatest, TypeOK
    <3>2. QED
      BY <2>1, <3>1, TreeStep DEF WriteFile
  <2>2. ASSUME NEW p \in Paths, RemoveFile(p) PROVE EntriesHonest'
    <3>1. FilesLatest' /\ \A q \in Paths : written[q] <= written'[q]
      BY <2>2 DEF RemoveFile, EntriesHonest, FilesLatest, TypeOK
    <3>2. QED
      BY <2>2, <3>1, TreeStep DEF RemoveFile
  <2>3. ASSUME NEW p \in Paths, Delete(p) PROVE EntriesHonest'
    BY <2>3, IndexStep DEF Delete, Forget, treeVars, TypeOK
  <2>4. ASSUME NEW p \in Paths, WatchRemove(p) PROVE EntriesHonest'
    BY <2>4, IndexStep DEF WatchRemove, Forget, TypeOK
  <2>5. ASSUME NEW b \in Builders, NEW p \in Paths, Stat(b, p) PROVE EntriesHonest'
    <3>1. HeldHonest(b)'
      BY <2>5, WorkParts
      DEF Stat, Become, HeldHonest, EntriesHonest, FilesLatest, TypeOK, treeVars
    <3>2. QED
      BY <2>5, <3>1, IndexStep DEF Stat, Become, treeVars, indexVars, TypeOK
  <2>6. ASSUME NEW b \in Builders, NEW p \in Paths, WatchWrite(b, p) PROVE EntriesHonest'
    <3>1. HeldHonest(b)'
      BY <2>6, WorkParts DEF WatchWrite, Become, HeldHonest, TypeOK
    <3>2. QED
      BY <2>6, <3>1, IndexStep DEF WatchWrite, Become, indexVars, TypeOK
  <2>7. ASSUME NEW b \in Builders, Lookup(b) PROVE EntriesHonest'
    <3>1. /\ work[b].path \in Paths /\ work[b].at \in Int
          /\ work[b].at <= written[work[b].path]
      <4>1. work[b].path \in Paths /\ work[b].at \in Versions
        BY <2>7, WorkKinds, WorkParts DEF Lookup, TypeOK
      <4>2. QED
        BY <2>7, <4>1 DEF Lookup, EntriesHonest, HeldHonest, Versions
    <3>2. HeldHonest(b)'
      <4>1. CASE /\ Matches(attrs[work[b].path], work[b].at)
                 /\ Become(b, Has("served", work[b].path,
                              [at |-> work[b].at, of |-> attrs[work[b].path].of]))
        <5>1. Honest(work[b].path, attrs[work[b].path])
          BY <3>1, <4>1 DEF EntriesHonest, StoredHonest, Matches
        <5>2. QED
          BY <2>7, <3>1, <4>1, <5>1, WorkParts, BuiltParts
          DEF Lookup, HeldHonest, Honest, Matches, Become, treeVars, TypeOK
      <4>2. CASE Become(b, At("missed", work[b].path, work[b].at))
        BY <2>7, <3>1, <4>2, WorkParts DEF Lookup, HeldHonest, Become, treeVars, TypeOK
      <4>3. QED
        BY <2>7, <4>1, <4>2 DEF Lookup
    <3>3. \A c \in Builders : work'[c] = work[c] \/ HeldHonest(c)'
      BY <2>7, <3>2 DEF Lookup, Become, TypeOK
    <3>4. QED
      BY <2>7, <3>3, IndexStep DEF Lookup, treeVars, indexVars
  <2>8. ASSUME NEW b \in Builders, Parse(b) PROVE EntriesHonest'
    <3>1. /\ work[b].path \in Paths /\ work[b].at \in Int
          /\ work[b].at <= written[work[b].path]
      <4>1. work[b].path \in Paths /\ work[b].at \in Versions
        BY <2>8, WorkKinds, WorkParts DEF Parse, TypeOK
      <4>2. QED
        BY <2>8, <4>1 DEF Parse, EntriesHonest, HeldHonest, Versions
    <3>2. HeldHonest(b)'
      <4>1. CASE Become(b, Idle)
        <5>1. work'[b] = Idle
          BY <4>1 DEF Become, TypeOK
        <5>2. QED
          BY <5>1, WorkParts DEF HeldHonest
      <4>2. CASE /\ file[work[b].path] # 0
                 /\ Become(b, Has("parsed", work[b].path, ParsedEntry(work[b])))
        <5>1. file[work[b].path] = written[work[b].path]
          BY <3>1, <4>2 DEF EntriesHonest, FilesLatest
        <5>2. work'[b] = Has("parsed", work[b].path,
                             [at |-> work[b].at, of |-> written[work[b].path]])
          BY <4>2, <5>1 DEF ParsedEntry, Become, TypeOK
        <5>3. written' = written /\ written[work[b].path] \in Int
          BY <2>8, <3>1 DEF Parse, treeVars, TypeOK
        <5>4. QED
          BY <3>1, <5>2, <5>3, WorkParts, BuiltParts DEF HeldHonest, Honest
      <4>3. CASE Become(b, Has("parsed", work[b].path, EmptyEntry(work[b])))
        <5>1. work'[b] = Has("parsed", work[b].path, [at |-> work[b].at, of |-> Unread])
          BY <4>3 DEF EmptyEntry, Become, TypeOK
        <5>2. QED
          BY <5>1, WorkParts, BuiltParts DEF HeldHonest, Honest
      <4>4. QED
        BY <2>8, <4>1, <4>2, <4>3 DEF Parse
    <3>3. \A c \in Builders : work'[c] = work[c] \/ HeldHonest(c)'
      BY <2>8, <3>2 DEF Parse, Become, TypeOK
    <3>4. QED
      BY <2>8, <3>3, IndexStep DEF Parse, treeVars, indexVars
  <2>9. ASSUME NEW b \in Builders, Put(b) PROVE EntriesHonest'
    <3> DEFINE r == [key |-> work[b].path, val |-> Built(work[b])]
    <3>1. /\ work[b].path \in Paths /\ Built(work[b]) \in Entry
          /\ Honest(work[b].path, Built(work[b]))
      BY <2>9, WorkKinds, WorkParts, EntryType
      DEF Put, Built, EntriesHonest, HeldHonest, TypeOK
    <3>2. r \in PutReq /\ Honest(r.key, r.val)
      BY <3>1 DEF PutReq
    <3>3. \A c \in Builders : work'[c] = work[c] \/ HeldHonest(c)'
      BY <2>9, WorkParts DEF Put, Become, TypeOK, HeldHonest
    <3>4. CASE puts' = Append(puts, r) /\ UNCHANGED <<attrs, pending>>
      <4>1. Range(puts') = Range(puts) \cup {r}
        BY <3>2, <3>4, RangeAppend DEF TypeOK
      <4>2. QED
        BY <2>9, <3>2, <3>3, <3>4, <4>1, IndexStep DEF Put, treeVars
    <3>5. CASE UNCHANGED indexVars
      BY <2>9, <3>3, <3>5, IndexStep DEF Put, treeVars, indexVars
    <3>6. CASE attrs' = [attrs EXCEPT ![work[b].path] = Built(work[b])]
               /\ UNCHANGED <<puts, pending>>
      BY <2>9, <3>1, <3>3, <3>6, IndexStep DEF Put, treeVars, TypeOK
    <3>7. QED
      BY <2>9, <3>4, <3>5, <3>6 DEF Put
  <2>10. ASSUME NEW b \in Builders, Return(b) PROVE EntriesHonest'
    <3>1. \A c \in Builders : work'[c] = work[c] \/ HeldHonest(c)'
      BY <2>10, WorkParts DEF Return, Become, TypeOK, HeldHonest
    <3>2. QED
      BY <2>10, <3>1, IndexStep DEF Return, treeVars, indexVars
  <2>11. ASSUME NEW b \in Builders, WatchStat(b) PROVE EntriesHonest'
    <3>1. work[b].path \in Paths
      BY <2>11, WorkKinds, WorkParts DEF WatchStat, TypeOK
    <3>2. HeldHonest(b)'
      BY <2>11, <3>1, WorkParts
      DEF WatchStat, Become, HeldHonest, EntriesHonest, FilesLatest, TypeOK, treeVars
    <3>3. \A c \in Builders : work'[c] = work[c] \/ HeldHonest(c)'
      BY <2>11, <3>2 DEF WatchStat, Become, TypeOK
    <3>4. QED
      BY <2>11, <3>3, IndexStep DEF WatchStat, treeVars, indexVars
  <2>12. CASE Receive
    <3>1. Head(puts) \in PutReq /\ Head(puts) \in Range(puts)
          /\ Range(Tail(puts)) \subseteq Range(puts)
      BY <2>12, HeadTail, RangeHeadTail DEF Receive, TypeOK
    <3>2. Range(pending') = Range(pending) \cup {Head(puts)}
      BY <2>12, <3>1, RangeAppend DEF Receive, TypeOK
    <3>3. QED
      BY <2>12, <3>1, <3>2, IndexStep DEF Receive, treeVars
  <2>13. CASE Flush
    <3>1. ASSUME NEW p \in Paths PROVE Stored(p) = attrs[p] \/ Honest(p, Stored(p))
      <4>1. ASSUME NEW i \in DOMAIN pending, pending[i].key = p, Stored(p) = pending[i].val
            PROVE  Honest(p, Stored(p))
        <5>1. pending[i] \in Range(pending)
          BY DEF Range
        <5>2. Honest(pending[i].key, pending[i].val)
          BY <5>1 DEF EntriesHonest, QueuedHonest
        <5>3. QED
          BY <4>1, <5>2
      <4>2. QED
        BY <4>1, StoredFrom
    <3>2. \A p \in Paths : attrs'[p] = attrs[p] \/ Honest(p, attrs'[p])
      BY <2>13, <3>1 DEF Flush
    <3>3. Range(pending') = {} /\ puts' = puts
      BY <2>13, RangeEmpty DEF Flush
    <3>4. QED
      BY <2>13, <3>2, <3>3, IndexStep DEF Flush, treeVars
  <2>14. CASE Clear
    BY <2>14, IndexStep DEF Clear, treeVars
  <2>15. CASE Crash
    <3>1. \A c \in Builders : HeldHonest(c)'
      BY <2>15, WorkParts DEF Crash, HeldHonest
    <3>2. Range(puts') = {} /\ Range(pending') = {}
      BY <2>15, RangeEmpty DEF Crash
    <3>3. \A p \in Paths : attrs'[p] = attrs[p] \/ attrs'[p] = None
      BY <2>15 DEF Crash
    <3>4. QED
      BY <2>15, <3>1, <3>2, <3>3, IndexStep DEF Crash
  <2>16. CASE UNCHANGED vars
    BY <2>16, IndexStep DEF vars
  <2>17. QED
    BY <2>1, <2>2, <2>3, <2>4, <2>5, <2>6, <2>7, <2>8, <2>9, <2>10, <2>11, <2>12,
       <2>13, <2>14, <2>15, <2>16 DEF Next
<1>3. QED
  BY <1>1, <1>2, TypeCorrect, PTL DEF Spec

(* What is served is empty, or what the file was when it was stat'ed, or   *)
(* newer.                                                                  *)
THEOREM FreshnessHolds == Spec => []ServedFresh
<1>1. TypeOK /\ EntriesHonest => ServedFresh
  <2> SUFFICES ASSUME TypeOK, EntriesHonest, NEW b \in Builders,
                      work[b].step = "served", work[b].of # Unread
               PROVE  /\ work[b].of >= work[b].at
                      /\ file[work[b].path] = work[b].at => work[b].of = work[b].at
    BY DEF ServedFresh
  <2>1. /\ work[b].path \in Paths
        /\ work[b].at \in Int /\ work[b].at # 0 /\ work[b].of \in Int
    <3>1. work[b].path \in Paths /\ work[b].at \in Versions /\ work[b].of \in Versions \cup {Unread}
      BY WorkKinds, WorkParts DEF TypeOK
    <3>2. QED
      BY <3>1, AttrCacheAssumption DEF Versions, Unread
  <2>2. work[b].at <= work[b].of /\ work[b].of <= written[work[b].path]
    BY BuiltParts DEF EntriesHonest, HeldHonest, Honest
  <2>3. file[work[b].path] \in {0, written[work[b].path]}
    BY <2>1 DEF EntriesHonest, FilesLatest
  <2>4. written[work[b].path] \in Int
    BY <2>1 DEF TypeOK
  <2>5. QED
    BY <2>1, <2>2, <2>3, <2>4
<1>2. QED
  BY <1>1, TypeCorrect, HonestEntries, PTL

(* Together: the index serves and holds nothing stale; what it holds of a  *)
(* failed parse is empty.                                                  *)
THEOREM IndexIsHonest == Spec => []IndexHonest
BY HonestEntries, FreshnessHolds, PTL DEF IndexHonest

-----------------------------------------------------------------------------
(* What is offered is offered for some path, and is an entry.              *)
LEMMA ParsedIsOffer ==
  ASSUME TypeOK, NEW b \in Builders, work[b].step = "parsed"
  PROVE  /\ work[b].path \in Paths
         /\ Built(work[b]) \in Entry
         /\ <<work[b].path, Built(work[b])>> \in Offered
<1>1. work[b].path \in Paths /\ work[b].at \in Versions /\ work[b].of \in Versions \cup {Unread}
  BY WorkKinds, WorkParts DEF TypeOK
<1>2. QED
  BY <1>1, EntryType DEF Built, Offered

(* Nothing new is offered unless a request is queued or a build parses.    *)
LEMMA OfferedShrinks ==
  ASSUME Range(puts') \cup Range(pending') \subseteq Range(puts) \cup Range(pending),
         \A b \in Builders : work'[b] = work[b] \/ work'[b].step # "parsed"
  PROVE  Offered' \subseteq Offered
<1>1. ASSUME NEW r \in Range(puts') \cup Range(pending')
      PROVE  <<r.key, r.val>> \in Offered
  BY <1>1 DEF Offered
<1>2. ASSUME NEW b \in Builders, work'[b].step = "parsed"
      PROVE  <<work'[b].path, Built(work[b])'>> \in Offered
  <2>1. work'[b] = work[b]
    BY <1>2
  <2>2. <<work[b].path, Built(work[b])>> \in Offered
    BY <1>2, <2>1 DEF Offered
  <2>3. QED
    BY <2>1, <2>2 DEF Built
<1>3. QED
  BY <1>1, <1>2 DEF Offered

(* A step that offers nothing new and shows only what was offered settles. *)
LEMMA Settles ==
  ASSUME TypeOK', Offered' \subseteq Offered,
         \A p \in Paths : \/ attrs'[p] = attrs[p]
                         \/ attrs'[p] = None
                         \/ <<p, attrs'[p]>> \in Offered
  PROVE  Lossy!Next
<1>1. attrs' \in [Paths -> Entry \cup {None}]
  BY DEF TypeOK
<1>2. Lossy!Settle
  BY <1>1 DEF Lossy!Settle
<1>3. QED
  BY <1>2 DEF Lossy!Next

LEMMA LossyStep ==
  ASSUME TypeOK, TypeOK', [Next]_vars
  PROVE  [Lossy!Next]_(Lossy!lvars)
<1>1. ASSUME NEW p \in Paths, WriteFile(p) \/ RemoveFile(p) PROVE Lossy!Next
  BY <1>1, OfferedShrinks, Settles DEF WriteFile, RemoveFile, indexVars
<1>2. ASSUME NEW p \in Paths, Delete(p) \/ WatchRemove(p) PROVE Lossy!Next
  BY <1>2, OfferedShrinks, Settles DEF Delete, WatchRemove, Forget, TypeOK
<1>3. ASSUME NEW b \in Builders, NEW p \in Paths, Stat(b, p) \/ WatchWrite(b, p)
      PROVE  Lossy!Next
  <2>1. \A c \in Builders : work'[c] = work[c] \/ work'[c].step # "parsed"
    <3>1. CASE Stat(b, p)
      BY <3>1, WorkParts DEF Stat, Become, TypeOK
    <3>2. CASE WatchWrite(b, p)
      BY <3>2, WorkParts DEF WatchWrite, Become, TypeOK
    <3>3. QED
      BY <1>3, <3>1, <3>2
  <2>2. UNCHANGED indexVars
    BY <1>3 DEF Stat, WatchWrite
  <2>3. QED
    BY <2>1, <2>2, OfferedShrinks, Settles DEF indexVars
<1>4. ASSUME NEW b \in Builders, Lookup(b) \/ Return(b) \/ WatchStat(b) PROVE Lossy!Next
  <2>1. \A c \in Builders : work'[c] = work[c] \/ work'[c].step # "parsed"
    BY <1>4, WorkParts DEF Lookup, Return, WatchStat, Become, TypeOK
  <2>2. UNCHANGED indexVars
    BY <1>4 DEF Lookup, Return, WatchStat
  <2>3. QED
    BY <2>1, <2>2, OfferedShrinks, Settles DEF indexVars
<1>5. ASSUME NEW b \in Builders, Parse(b) PROVE Lossy!Next
  <2>1. UNCHANGED indexVars /\ \A c \in Builders \ {b} : work'[c] = work[c]
    BY <1>5 DEF Parse, Become, TypeOK
  <2>2. CASE work'[b].step # "parsed"
    BY <2>1, <2>2, OfferedShrinks, Settles DEF indexVars
  <2>3. CASE work'[b].step = "parsed"
    <3> DEFINE o == <<work'[b].path, Built(work[b])'>>
    <3>1. work'[b].path \in Paths /\ Built(work[b])' \in Entry
      <4>1. /\ work'[b].path \in Paths /\ work'[b].at \in Versions
            /\ work'[b].of \in Versions \cup {Unread}
        BY <2>3, WorkKinds, WorkParts DEF TypeOK
      <4>2. QED
        BY <4>1, EntryType DEF Built
    <3>2. Offered' \subseteq Offered \cup {o}
      <4>1. ASSUME NEW c \in Builders, c # b, work'[c].step = "parsed"
            PROVE  <<work'[c].path, Built(work[c])'>> \in Offered
        BY <2>1, <4>1 DEF Offered, Built
      <4>2. QED
        BY <2>1, <4>1 DEF Offered, indexVars
    <3>3. o \in Paths \X Entry
      BY <3>1
    <3>4. QED
      BY <2>1, <3>2, <3>3 DEF Lossy!Next, Lossy!Offer, Lossy!Offers, indexVars
  <2>4. QED
    BY <2>2, <2>3
<1>6. ASSUME NEW b \in Builders, Put(b) PROVE Lossy!Next
  <2> DEFINE r == [key |-> work[b].path, val |-> Built(work[b])]
  <2>1. /\ work[b].path \in Paths /\ Built(work[b]) \in Entry
        /\ <<r.key, r.val>> \in Offered /\ r \in PutReq
    BY <1>6, ParsedIsOffer DEF Put, PutReq
  <2>2. \A c \in Builders : work'[c] = work[c] \/ work'[c].step # "parsed"
    BY <1>6, WorkParts DEF Put, Become, TypeOK
  <2>3. CASE puts' = Append(puts, r) /\ UNCHANGED <<attrs, pending>>
    <3>1. Range(puts') = Range(puts) \cup {r}
      BY <2>1, <2>3, RangeAppend DEF TypeOK
    <3>2. \A q \in Range(puts') \cup Range(pending') : <<q.key, q.val>> \in Offered
      BY <2>1, <2>3, <3>1 DEF Offered
    <3>3. \A c \in Builders : work'[c].step = "parsed" =>
             <<work'[c].path, Built(work[c])'>> \in Offered
      BY <2>2 DEF Offered, Built
    <3>4. Offered' \subseteq Offered
      BY <3>2, <3>3 DEF Offered
    <3>5. QED
      BY <2>3, <3>4, Settles
  <2>4. CASE UNCHANGED indexVars
    BY <2>2, <2>4, OfferedShrinks, Settles DEF indexVars
  <2>5. CASE attrs' = [attrs EXCEPT ![work[b].path] = Built(work[b])]
             /\ UNCHANGED <<puts, pending>>
    BY <2>1, <2>2, <2>5, OfferedShrinks, Settles DEF TypeOK
  <2>6. QED
    BY <1>6, <2>3, <2>4, <2>5 DEF Put
<1>7. CASE Receive
  <2>1. Head(puts) \in PutReq /\ Head(puts) \in Range(puts)
        /\ Range(Tail(puts)) \subseteq Range(puts)
    BY <1>7, HeadTail, RangeHeadTail DEF Receive, TypeOK
  <2>2. Range(pending') = Range(pending) \cup {Head(puts)}
    BY <1>7, <2>1, RangeAppend DEF Receive, TypeOK
  <2>3. QED
    BY <1>7, <2>1, <2>2, OfferedShrinks, Settles DEF Receive
<1>8. CASE Flush
  <2>1. ASSUME NEW p \in Paths PROVE Stored(p) = attrs[p] \/ <<p, Stored(p)>> \in Offered
    <3>1. ASSUME NEW i \in DOMAIN pending, pending[i].key = p, Stored(p) = pending[i].val
          PROVE  <<p, Stored(p)>> \in Offered
      <4>1. pending[i] \in Range(pending)
        BY DEF Range
      <4>2. QED
        BY <3>1, <4>1 DEF Offered
    <3>2. QED
      BY <3>1, StoredFrom
  <2>2. \A p \in Paths : attrs'[p] = attrs[p] \/ <<p, attrs'[p]>> \in Offered
    BY <1>8, <2>1 DEF Flush
  <2>3. Range(pending') = {} /\ puts' = puts /\ work' = work
    BY <1>8, RangeEmpty DEF Flush
  <2>4. QED
    BY <2>2, <2>3, OfferedShrinks, Settles
<1>9. CASE Clear
  BY <1>9, OfferedShrinks, Settles DEF Clear
<1>10. CASE Crash
  <2>1. Range(puts') = {} /\ Range(pending') = {}
    BY <1>10, RangeEmpty DEF Crash
  <2>2. \A c \in Builders : work'[c].step # "parsed"
    BY <1>10, WorkParts DEF Crash
  <2>3. \A p \in Paths : attrs'[p] = attrs[p] \/ attrs'[p] = None
    BY <1>10 DEF Crash
  <2>4. QED
    BY <2>1, <2>2, <2>3, OfferedShrinks, Settles
<1>11. CASE UNCHANGED vars
  <2>1. attrs' = attrs /\ Offered' = Offered
    BY <1>11 DEF vars, Offered, Built
  <2>2. QED
    BY <2>1 DEF Lossy!lvars
<1>12. QED
  BY <1>1, <1>2, <1>3, <1>4, <1>5, <1>6, <1>7, <1>8, <1>9, <1>10, <1>11 DEF Next

(* Both attribute backends implement the abstract lossy cache.             *)
THEOREM ImplementsLossyCache == Spec => IsLossyCache
<1>1. Init => Lossy!Init
  <2> SUFFICES ASSUME Init PROVE Lossy!Init
    OBVIOUS
  <2>1. Offered = {}
    BY RangeEmpty, WorkParts DEF Init, Offered
  <2>2. attrs \in [Paths -> Entry \cup {None}]
    BY DEF Init
  <2>3. QED
    BY <2>1, <2>2 DEF Lossy!Init
<1>2. TypeOK /\ TypeOK' /\ [Next]_vars => [Lossy!Next]_(Lossy!lvars)
  BY LossyStep
<1>3. QED
  BY <1>1, <1>2, TypeCorrect, PTL DEF Spec, IsLossyCache, Lossy!Spec

-----------------------------------------------------------------------------
(***************************************************************************)
(* Selection, for every disk, every way to ask for a walk, every change    *)
(* and every number of workers.  The order of the argument: what following *)
(* a path yields, by induction on its length; what the ways of a root are, *)
(* and that each passes through one entry of a directory after the other;  *)
(* that the entries still ahead of the walk part the tree, so that no two  *)
(* lead to the same name; that therefore each action keeps what            *)
(* SelectionInv says of ways, rows, jobs and entries; and that inserting   *)
(* rows one by one puts them in the order their comparisons give.          *)
(***************************************************************************)

(* Recursion along a sequence: what a step function yields from a base,    *)
(* element by element.                                                     *)
Recurs(f, N, S, base, step) ==
  /\ f \in [Seq(N) -> S] /\ f[<<>>] = base
  /\ \A p \in Seq(N), n \in N : f[Append(p, n)] = step[<<f[p], n>>]

LEMMA SeqRecursion ==
  ASSUME NEW N, NEW S, NEW base \in S, NEW step \in [S \X N -> S]
  PROVE  \E f : Recurs(f, N, S, base, step)
<1> DEFINE Trail(p, t) == /\ t \in [0 .. Len(p) -> S] /\ t[0] = base
                          /\ \A i \in 1 .. Len(p) : t[i] = step[<<t[i - 1], p[i]>>]
<1>1. ASSUME NEW p \in Seq(N), NEW n \in N, NEW t, Trail(p, t)
      PROVE  \E u : Trail(Append(p, n), u)
  <2> DEFINE k == Len(p)
             q == Append(p, n)
             u == [i \in 0 .. k + 1 |-> IF i <= k THEN t[i] ELSE step[<<t[k], n>>]]
  <2>1. k \in Nat /\ Len(q) = k + 1 /\ (\A i \in 1 .. k : q[i] = p[i]) /\ q[k + 1] = n
    BY AppendProperties
  <2>2. t \in [0 .. k -> S] /\ t[0] = base /\ \A i \in 1 .. k : t[i] = step[<<t[i - 1], p[i]>>]
    BY <1>1
  <2> HIDE DEF k, q
  <2>3. t[k] \in S /\ step[<<t[k], n>>] \in S
    BY <2>1, <2>2
  <2>4. u \in [0 .. k + 1 -> S] /\ u[0] = base /\ u[k + 1] = step[<<t[k], n>>]
        /\ \A i \in 0 .. k : u[i] = t[i]
    BY <2>1, <2>2, <2>3
  <2> HIDE DEF u
  <2>5. ASSUME NEW i \in 1 .. k + 1 PROVE u[i] = step[<<u[i - 1], q[i]>>]
    <3>1. CASE i \in 1 .. k
      <4>1. i \in 0 .. k /\ i - 1 \in 0 .. k
        BY <3>1, <2>1
      <4>2. u[i] = t[i] /\ u[i - 1] = t[i - 1]
        BY <4>1, <2>4
      <4> QED BY <3>1, <4>2, <2>1, <2>2
    <3>2. CASE i = k + 1
      <4>1. i - 1 = k /\ k \in 0 .. k
        BY <3>2, <2>1
      <4> QED BY <3>2, <4>1, <2>1, <2>4
    <3> QED BY <3>1, <3>2, <2>1
  <2>6. Trail(q, u)
    BY <2>1, <2>4, <2>5
  <2> HIDE DEF Trail
  <2> QED BY <2>6 DEF q
<1>2. \A p \in Seq(N) : \E t : Trail(p, t)
  <2> DEFINE K == {k \in Nat : \A p \in Seq(N) : Len(p) = k => \E t : Trail(p, t)}
  <2>1. 0 \in K
    <3> SUFFICES ASSUME NEW p \in Seq(N), Len(p) = 0 PROVE \E t : Trail(p, t)
      OBVIOUS
    <3>1. Trail(p, [i \in 0 .. 0 |-> base])
      OBVIOUS
    <3> QED BY <3>1
  <2>2. ASSUME NEW k \in Nat, k \in K PROVE k + 1 \in K
    <3> SUFFICES ASSUME NEW p \in Seq(N), Len(p) = k + 1 PROVE \E t : Trail(p, t)
      OBVIOUS
    <3>1. p # <<>>
      BY EmptySeq
    <3>2. PICK q \in Seq(N), n \in N : p = Append(q, n)
      BY <3>1, SequenceEmptyOrAppend
    <3>3. Len(q) = k
      BY <3>2, AppendProperties
    <3>4. PICK t : Trail(q, t)
      BY <2>2, <3>3
    <3> HIDE DEF Trail
    <3> QED BY <3>2, <3>4, <1>1
  <2> HIDE DEF Trail
  <2>3. Nat \subseteq K
    BY <2>1, <2>2, NatSetInduction
  <2> QED BY <2>3
<1>3. ASSUME NEW p \in Seq(N), NEW n \in N, NEW t, NEW u, Trail(p, t), Trail(Append(p, n), u)
      PROVE  u[Len(p) + 1] = step[<<t[Len(p)], n>>]
  <2> DEFINE k == Len(p)
             q == Append(p, n)
  <2>1. k \in Nat /\ Len(q) = k + 1 /\ (\A i \in 1 .. k : q[i] = p[i]) /\ q[k + 1] = n
    BY AppendProperties
  <2>2. /\ t[0] = base /\ \A i \in 1 .. k : t[i] = step[<<t[i - 1], p[i]>>]
        /\ u[0] = base /\ \A i \in 1 .. k + 1 : u[i] = step[<<u[i - 1], q[i]>>]
    BY <1>3, <2>1
  <2> HIDE DEF k, q
  <2> DEFINE K == {i \in Nat : i <= k => u[i] = t[i]}
  <2>3. 0 \in K
    BY <2>2
  <2>4. ASSUME NEW i \in Nat, i \in K PROVE i + 1 \in K
    <3> SUFFICES ASSUME i + 1 <= k PROVE u[i + 1] = t[i + 1]
      BY <2>4
    <3>1. i + 1 \in 1 .. k /\ i + 1 \in 1 .. k + 1 /\ (i + 1) - 1 = i /\ i <= k
      BY <2>1, <2>4
    <3>2. u[i] = t[i] /\ q[i + 1] = p[i + 1]
      BY <2>1, <2>4, <3>1
    <3>3. t[i + 1] = step[<<t[i], p[i + 1]>>] /\ u[i + 1] = step[<<u[i], q[i + 1]>>]
      BY <2>2, <3>1
    <3> QED BY <3>2, <3>3
  <2>5. k \in K
    BY <2>1, <2>3, <2>4, NatSetInduction
  <2>6. k + 1 \in 1 .. k + 1 /\ (k + 1) - 1 = k
    BY <2>1
  <2> QED BY <2>1, <2>2, <2>5, <2>6 DEF k
<1> DEFINE T(p) == CHOOSE t : Trail(p, t)
           f == [p \in Seq(N) |-> T(p)[Len(p)]]
<1>4. \A p \in Seq(N) : Trail(p, T(p))
  <2> HIDE DEF Trail
  <2> QED BY <1>2
<1>5. ASSUME NEW p \in Seq(N) PROVE f[p] \in S /\ f[p] = T(p)[Len(p)]
  <2>1. Trail(p, T(p))
    BY <1>4
  <2>2. Len(p) \in 0 .. Len(p)
    OBVIOUS
  <2> HIDE DEF T
  <2> QED BY <2>1, <2>2
<1>6. f[<<>>] = base
  <2>1. <<>> \in Seq(N) /\ Len(<<>>) = 0
    OBVIOUS
  <2>2. Trail(<<>>, T(<<>>))
    BY <1>4, <2>1
  <2> HIDE DEF T
  <2> QED BY <2>1, <2>2
<1>7. ASSUME NEW p \in Seq(N), NEW n \in N PROVE f[Append(p, n)] = step[<<f[p], n>>]
  <2>1. Append(p, n) \in Seq(N) /\ Len(Append(p, n)) = Len(p) + 1
    BY AppendProperties
  <2>2. Trail(p, T(p)) /\ Trail(Append(p, n), T(Append(p, n)))
    BY <1>4, <2>1
  <2> HIDE DEF T, Trail
  <2>3. T(Append(p, n))[Len(p) + 1] = step[<<T(p)[Len(p)], n>>]
    BY <2>2, <1>3
  <2> QED BY <2>1, <2>3
<1>8. f \in [Seq(N) -> S]
  BY <1>5
<1>9. Recurs(f, N, S, base, step)
  BY <1>6, <1>7, <1>8 DEF Recurs
<1> QED BY <1>9

(* Two sequences are one if they begin alike and one function continues    *)
(* them.                                                                   *)
Continue(f, g, N) ==
  /\ f[<<>>] = g[<<>>]
  /\ \A p \in Seq(N), n \in N : f[p] = g[p] => f[Append(p, n)] = g[Append(p, n)]

LEMMA SeqUnique ==
  ASSUME NEW N, NEW f, NEW g, Continue(f, g, N)
  PROVE  \A p \in Seq(N) : f[p] = g[p]
<1> DEFINE K == {k \in Nat : \A p \in Seq(N) : Len(p) = k => f[p] = g[p]}
<1>1. 0 \in K
  BY EmptySeq DEF Continue
<1>2. ASSUME NEW k \in Nat, k \in K PROVE k + 1 \in K
  <2> SUFFICES ASSUME NEW p \in Seq(N), Len(p) = k + 1 PROVE f[p] = g[p]
    OBVIOUS
  <2>1. p # <<>>
    BY EmptySeq
  <2>2. PICK q \in Seq(N), n \in N : p = Append(q, n)
    BY <2>1, SequenceEmptyOrAppend
  <2>3. Len(q) = k
    BY <2>2, AppendProperties
  <2> QED BY <1>2, <2>2, <2>3 DEF Continue
<1>3. Nat \subseteq K
  BY <1>1, <1>2, NatSetInduction
<1> QED BY <1>3

LEMMA FrontLast ==
  ASSUME NEW N, NEW p \in Seq(N), NEW n \in N
  PROVE  Front(Append(p, n)) = p /\ Last(Append(p, n)) = n /\ Append(p, n) # <<>>
<1>1. /\ Append(p, n) \in Seq(N) /\ Len(Append(p, n)) = Len(p) + 1 /\ Len(p) \in Nat
      /\ \A i \in 1 .. Len(p) : Append(p, n)[i] = p[i]
      /\ Append(p, n)[Len(p) + 1] = n /\ Append(p, n) # <<>>
  BY AppendProperties
<1> DEFINE q == Append(p, n)
           k == Len(p)
<1>2. Front(q) = SubSeq(q, 1, k)
  <2>1. (k + 1) - 1 = k
    BY <1>1
  <2> QED BY <1>1, <2>1 DEF Front
<1>3. \A i \in 1 .. k : q[i] \in N
  BY <1>1
<1> HIDE DEF q
<1>4. /\ SubSeq(q, 1, k) \in Seq(N) /\ Len(SubSeq(q, 1, k)) = IF 1 <= k THEN k - 1 + 1 ELSE 0
      /\ \A i \in 1 .. k - 1 + 1 : SubSeq(q, 1, k)[i] = q[1 + i - 1]
  BY <1>1, <1>3, SubSeqProperties
<1>5. SubSeq(q, 1, k) = p
  <2> DEFINE s == SubSeq(q, 1, k)
  <2>1. s \in Seq(N) /\ Len(s) = k
    BY <1>1, <1>4
  <2>2. \A i \in 1 .. k : s[i] = p[i]
    <3> SUFFICES ASSUME NEW i \in 1 .. k PROVE s[i] = p[i]
      OBVIOUS
    <3>1. i \in 1 .. k - 1 + 1 /\ 1 + i - 1 = i
      BY <1>1
    <3> QED BY <3>1, <1>1, <1>4 DEF q
  <2> HIDE DEF s
  <2> QED BY <2>1, <2>2, SeqEqual DEF s
<1> QED BY <1>1, <1>2, <1>5 DEF Last, q

-----------------------------------------------------------------------------
(* Where a path leads: nowhere, or to the top, or to a place that is no    *)
(* link.                                                                   *)
Outcomes(d) == {Lost, Found(<<>>)} \cup {Found(p) : p \in {p \in DOMAIN d : d[p].kind # "link"}}

LEMMA StepType ==
  ASSUME NEW d, NEW via \in [LinksIn(d) -> Outcomes(d)], NEW up, NEW n
  PROVE  StepIn(d, via, up, n) \in Outcomes(d)
<1> DEFINE q == Append(up.path, n)
<1>1. CASE ~up.found \/ q \notin DOMAIN d
  BY <1>1 DEF StepIn, Outcomes
<1>2. CASE up.found /\ q \in DOMAIN d /\ d[q].kind = "link"
  <2>1. q \in LinksIn(d)
    BY <1>2 DEF LinksIn
  <2> HIDE DEF q
  <2>2. via[q] \in Outcomes(d)
    BY <2>1
  <2> QED BY <1>2, <2>2 DEF StepIn, q
<1>3. CASE up.found /\ q \in DOMAIN d /\ d[q].kind # "link"
  <2>1. Found(q) \in Outcomes(d)
    BY <1>3 DEF Outcomes
  <2> QED BY <1>3, <2>1 DEF StepIn
<1> QED BY <1>1, <1>2, <1>3

LEMMA ResolvedIs ==
  ASSUME NEW d, NEW via \in [LinksIn(d) -> Outcomes(d)]
  PROVE  /\ Resolved(d, via, <<>>) = Found(<<>>)
         /\ \A p \in TreePaths :
              /\ Resolved(d, via, p) \in Outcomes(d)
              /\ \A n \in EntryNames :
                   Resolved(d, via, Append(p, n)) = StepIn(d, via, Resolved(d, via, p), n)
<1> DEFINE S == Outcomes(d)
           step == [x \in S \X EntryNames |-> StepIn(d, via, x[1], x[2])]
           Body(g) == [q \in TreePaths |->
                         IF q = <<>> THEN Found(<<>>) ELSE StepIn(d, via, g[Front(q)], Last(q))]
           real == CHOOSE g : g = Body(g)
<1>1. step \in [S \X EntryNames -> S] /\ Found(<<>>) \in S
      /\ \A s \in S, n \in EntryNames : step[<<s, n>>] = StepIn(d, via, s, n)
  BY StepType DEF Outcomes
<1> HIDE DEF step, S
<1>2. PICK f \in [TreePaths -> S] :
        /\ f[<<>>] = Found(<<>>)
        /\ \A p \in TreePaths, n \in EntryNames : f[Append(p, n)] = step[<<f[p], n>>]
  <2> DEFINE base == Found(<<>>)
  <2>1. base \in S /\ step \in [S \X EntryNames -> S]
    BY <1>1
  <2> HIDE DEF base
  <2>2. PICK f : Recurs(f, EntryNames, S, base, step)
    BY <2>1, SeqRecursion
  <2> QED BY <2>2 DEF TreePaths, Recurs, base
<1>3. \A p \in TreePaths, n \in EntryNames : f[Append(p, n)] = StepIn(d, via, f[p], n)
  BY <1>1, <1>2
<1>4. ASSUME NEW q \in TreePaths PROVE f[q] = Body(f)[q]
  <2>1. CASE q = <<>>
    BY <1>2, <2>1
  <2>2. CASE q # <<>>
    <3>1. PICK p \in TreePaths, n \in EntryNames : q = Append(p, n)
      BY <2>2, SequenceEmptyOrAppend DEF TreePaths
    <3>2. Front(q) = p /\ Last(q) = n
      BY <3>1, FrontLast DEF TreePaths
    <3> QED BY <1>3, <2>2, <3>1, <3>2
  <2> QED BY <2>1, <2>2
<1>5. f = Body(f)
  BY <1>4
<1> HIDE DEF Body
<1>6. real = Body(real)
  BY <1>5
<1> HIDE DEF real
<1>7. real[<<>>] = Found(<<>>)
  <2>1. <<>> \in TreePaths
    BY DEF TreePaths
  <2> QED BY <1>6, <2>1 DEF Body
<1>8. ASSUME NEW p \in TreePaths, NEW n \in EntryNames
      PROVE  real[Append(p, n)] = StepIn(d, via, real[p], n)
  <2>1. Append(p, n) \in TreePaths /\ Append(p, n) # <<>>
        /\ Front(Append(p, n)) = p /\ Last(Append(p, n)) = n
    BY FrontLast, AppendProperties DEF TreePaths
  <2> QED BY <1>6, <2>1 DEF Body
<1>9. \A p \in TreePaths : real[p] = f[p]
  <2>1. \A p \in TreePaths, n \in EntryNames : real[p] = f[p] => real[Append(p, n)] = f[Append(p, n)]
    BY <1>3, <1>8
  <2>2. Continue(real, f, EntryNames)
    BY <1>2, <1>7, <2>1 DEF Continue, TreePaths
  <2> QED BY <2>2, SeqUnique DEF TreePaths
<1>10. \A p : Resolved(d, via, p) = real[p]
  BY DEF Resolved, real, Body
<1> QED BY <1>2, <1>7, <1>8, <1>9, <1>10 DEF S

LEMMA TreeLinks ==
  ASSUME NEW d, IsTree(d)
  PROVE  MaxLinks(d) \in [LinksIn(d) -> Outcomes(d)]
<1>1. \A p \in LinksIn(d) : d[p].to \in TreePaths
  BY DEF LinksIn, IsTree, IsSpot
<1>2. ASSUME NEW via \in [LinksIn(d) -> Outcomes(d)] PROVE Follow(d, via) \in [LinksIn(d) -> Outcomes(d)]
  BY <1>1, ResolvedIs DEF Follow
<1>3. [p \in LinksIn(d) |-> Lost] \in [LinksIn(d) -> Outcomes(d)]
  BY DEF Outcomes
<1> QED BY <1>2, <1>3 DEF MaxLinks

LEMMA RealPathIs ==
  ASSUME NEW d, IsTree(d)
  PROVE  /\ RealPath(d, <<>>) = Found(<<>>)
         /\ \A p \in TreePaths :
              /\ RealPath(d, p) \in Outcomes(d)
              /\ \A n \in EntryNames :
                   RealPath(d, Append(p, n)) = StepIn(d, MaxLinks(d), RealPath(d, p), n)
BY TreeLinks, ResolvedIs DEF RealPath

(* Paths.                                                                  *)
LEMMA PathFacts ==
  /\ <<>> \in TreePaths
  /\ \A p \in TreePaths : p \o <<>> = p /\ <<>> \o p = p
  /\ \A p, q \in TreePaths : p \o q \in TreePaths
  /\ \A p, q, r \in TreePaths : (p \o q) \o r = p \o (q \o r)
  /\ \A n \in EntryNames : <<n>> \in TreePaths /\ <<n>> # <<>>
  /\ \A p \in TreePaths, n \in EntryNames :
       Append(p, n) \in TreePaths /\ Append(p, n) # <<>> /\ Append(p, n) = p \o <<n>>
  /\ \A p, q \in TreePaths, n \in EntryNames :
       p \o Append(q, n) = Append(p \o q, n) /\ Append(p, n) \o q = p \o (<<n>> \o q)
<1>1. \A p, q \in Seq(EntryNames) : p \o q \in Seq(EntryNames)
  BY ConcatProperties
<1>2. \A p \in Seq(EntryNames), n \in EntryNames :
        Append(p, n) \in Seq(EntryNames) /\ Append(p, n) # <<>> /\ Append(p, n) = p \o <<n>>
  BY AppendProperties, AppendIsConcat
<1>3. \A p, q, r \in Seq(EntryNames) : (p \o q) \o r = p \o (q \o r)
  BY ConcatAssociative
<1>4. \A n \in EntryNames : <<n>> \in Seq(EntryNames) /\ <<n>> # <<>>
  OBVIOUS
<1>5. ASSUME NEW p \in Seq(EntryNames), NEW q \in Seq(EntryNames), NEW n \in EntryNames
      PROVE  p \o Append(q, n) = Append(p \o q, n) /\ Append(p, n) \o q = p \o (<<n>> \o q)
  <2>1. p \o (q \o <<n>>) = (p \o q) \o <<n>> /\ (p \o <<n>>) \o q = p \o (<<n>> \o q)
    BY <1>3, <1>4
  <2>2. Append(q, n) = q \o <<n>> /\ Append(p \o q, n) = (p \o q) \o <<n>> /\ Append(p, n) = p \o <<n>>
    BY <1>1, <1>2
  <2> QED BY <2>1, <2>2
<1>6. \A p \in Seq(EntryNames) : p \o <<>> = p /\ <<>> \o p = p
  BY ConcatEmptySeq
<1>7. <<>> \in Seq(EntryNames)
  OBVIOUS
<1> QED BY <1>1, <1>2, <1>3, <1>4, <1>5, <1>6, <1>7 DEF TreePaths

LEMMA JoinAppend ==
  ASSUME NEW p \in TreePaths, NEW q \in TreePaths, NEW n \in EntryNames
  PROVE  p \o Append(q, n) = Append(p \o q, n) /\ Append(p, n) \o q = p \o (<<n>> \o q)
BY PathFacts

LEMMA JoinJoin ==
  ASSUME NEW p \in TreePaths, NEW q \in TreePaths, NEW r \in TreePaths
  PROVE  (p \o q) \o r = p \o (q \o r)
BY PathFacts

LEMMA PathEnd ==
  ASSUME NEW p \in TreePaths, p # <<>>
  PROVE  \E q \in TreePaths, n \in EntryNames :
           p = Append(q, n) /\ Front(p) = q /\ Last(p) = n /\ (Len(p) > 1 <=> q # <<>>)
<1>1. PICK q \in TreePaths, n \in EntryNames : p = Append(q, n)
  BY SequenceEmptyOrAppend DEF TreePaths
<1>2. Front(p) = q /\ Last(p) = n /\ Len(p) = Len(q) + 1 /\ Len(q) \in Nat
  BY <1>1, FrontLast, AppendProperties DEF TreePaths
<1>3. Len(q) = 0 <=> q = <<>>
  BY EmptySeq DEF TreePaths
<1> QED BY <1>1, <1>2, <1>3

-----------------------------------------------------------------------------
(* Where a path leads.                                                     *)

LEMMA PathInduction ==
  ASSUME NEW P, <<>> \in P, \A p \in TreePaths, n \in EntryNames : p \in P => Append(p, n) \in P
  PROVE  TreePaths \subseteq P
<1> DEFINE K == {k \in Nat : \A p \in TreePaths : Len(p) = k => p \in P}
<1>1. 0 \in K
  BY EmptySeq DEF TreePaths
<1>2. ASSUME NEW k \in Nat, k \in K PROVE k + 1 \in K
  <2> SUFFICES ASSUME NEW p \in TreePaths, Len(p) = k + 1 PROVE p \in P
    OBVIOUS
  <2>1. p # <<>>
    BY EmptySeq
  <2>2. PICK q \in TreePaths, n \in EntryNames : p = Append(q, n)
    BY <2>1, SequenceEmptyOrAppend DEF TreePaths
  <2>3. Len(q) = k
    BY <2>2, AppendProperties DEF TreePaths
  <2> QED BY <1>2, <2>2, <2>3
<1>3. Nat \subseteq K
  BY <1>1, <1>2, NatSetInduction
<1>4. \A p \in TreePaths : Len(p) \in Nat
  BY DEF TreePaths
<1> QED BY <1>3, <1>4

LEMMA AppendSame ==
  ASSUME NEW p \in TreePaths, NEW q \in TreePaths, NEW m \in EntryNames, NEW n \in EntryNames,
         Append(p, m) = Append(q, n)
  PROVE  p = q /\ m = n
BY FrontLast DEF TreePaths

(* Places: the top, and what is on the disk and is no link.                *)
IsPlace(d, t) == t = <<>> \/ (t \in DOMAIN d /\ d[t].kind # "link")
IsDirPlace(d, t) == t = <<>> \/ (t \in DOMAIN d /\ d[t].kind = "dir")

LEMMA TreeParent ==
  ASSUME NEW d, IsTree(d), NEW q \in TreePaths, NEW n \in EntryNames, Append(q, n) \in DOMAIN d
  PROVE  IsDirPlace(d, q)
<1> DEFINE p == Append(q, n)
<1>1. p \in TreePaths /\ p # <<>> /\ Front(p) = q /\ Len(p) = Len(q) + 1 /\ Len(q) \in Nat
  BY FrontLast, AppendProperties DEF TreePaths
<1>2. q # <<>> => Len(p) > 1
  <2>1. Len(q) = 0 => q = <<>>
    BY EmptySeq DEF TreePaths
  <2> QED BY <1>1, <2>1
<1> HIDE DEF p
<1>3. p \in DOMAIN d
  BY DEF p
<1>4. Len(p) > 1 => Front(p) \in DOMAIN d /\ d[Front(p)].kind = "dir"
  BY <1>3 DEF IsTree
<1> QED BY <1>1, <1>2, <1>4 DEF IsDirPlace

LEMMA TreeAbove ==
  ASSUME NEW d, IsTree(d), NEW a \in TreePaths
  PROVE  \A b \in TreePaths : b # <<>> /\ a \o b \in DOMAIN d => IsDirPlace(d, a)
<1> DEFINE P == {b \in TreePaths : b # <<>> /\ a \o b \in DOMAIN d => IsDirPlace(d, a)}
<1>1. <<>> \in P
  BY DEF TreePaths
<1>2. ASSUME NEW b \in TreePaths, NEW n \in EntryNames, b \in P PROVE Append(b, n) \in P
  <2>1. a \o Append(b, n) = Append(a \o b, n) /\ a \o b \in TreePaths /\ Append(b, n) \in TreePaths
        /\ a \o <<>> = a
    BY PathFacts
  <2> SUFFICES ASSUME Append(a \o b, n) \in DOMAIN d PROVE IsDirPlace(d, a)
    BY <2>1
  <2>2. IsDirPlace(d, a \o b)
    BY <2>1, TreeParent
  <2>3. CASE b = <<>>
    BY <2>1, <2>2, <2>3
  <2>4. CASE b # <<>> /\ a \o b \in DOMAIN d
    BY <1>2, <2>4
  <2>5. CASE b # <<>> /\ a \o b \notin DOMAIN d
    <3>1. a \o b = <<>>
      BY <2>2, <2>5 DEF IsDirPlace
    <3>2. PICK c \in TreePaths, m \in EntryNames : b = Append(c, m)
      BY <2>5, PathEnd
    <3>3. a \o c \in TreePaths
      BY PathFacts
    <3>4. a \o b = Append(a \o c, m)
      <4>1. a \o Append(c, m) = Append(a \o c, m)
        BY JoinAppend
      <4> QED BY ONLY <3>2, <4>1
    <3>5. a \o b # <<>>
      BY <3>3, <3>4, PathFacts
    <3> QED BY <3>1, <3>5
  <2> QED BY <2>3, <2>4, <2>5
<1>3. TreePaths \subseteq P
  <2> HIDE DEF P
  <2> QED BY <1>1, <1>2, PathInduction
<1> QED BY <1>3

(* A place is where its own path leads.                                    *)
LEMMA PlaceIs ==
  ASSUME NEW d, IsTree(d)
  PROVE  \A t \in TreePaths : IsPlace(d, t) => RealPath(d, t) = Found(t)
<1> DEFINE P == {t \in TreePaths : IsPlace(d, t) => RealPath(d, t) = Found(t)}
<1>1. <<>> \in P
  BY RealPathIs DEF TreePaths
<1>2. ASSUME NEW t \in TreePaths, NEW n \in EntryNames, t \in P PROVE Append(t, n) \in P
  <2> DEFINE q == Append(t, n)
  <2>1. q \in TreePaths /\ q # <<>>
    BY PathFacts
  <2> SUFFICES ASSUME IsPlace(d, q) PROVE RealPath(d, q) = Found(q)
    BY <2>1
  <2>2. q \in DOMAIN d /\ d[q].kind # "link"
    BY <2>1 DEF IsPlace
  <2>3. IsDirPlace(d, t)
    BY <2>2, TreeParent
  <2>4. RealPath(d, t) = Found(t)
    BY <1>2, <2>3 DEF IsPlace, IsDirPlace
  <2>5. RealPath(d, q) = StepIn(d, MaxLinks(d), Found(t), n)
    BY <2>4, RealPathIs
  <2>6. Found(t).found /\ Found(t).path = t
    BY DEF Found
  <2>7. StepIn(d, MaxLinks(d), Found(t), n) = Found(q)
    BY <2>2, <2>6 DEF StepIn
  <2> QED BY <2>5, <2>7
<1>3. TreePaths \subseteq P
  <2> HIDE DEF P
  <2> QED BY <1>1, <1>2, PathInduction
<1> QED BY <1>3

(* Two paths that lead to the same place lead on in the same way.          *)
LEMMA SameOnward ==
  ASSUME NEW d, IsTree(d), NEW a \in TreePaths, NEW b \in TreePaths, RealPath(d, a) = RealPath(d, b)
  PROVE  \A p \in TreePaths : RealPath(d, a \o p) = RealPath(d, b \o p)
<1> DEFINE P == {p \in TreePaths : RealPath(d, a \o p) = RealPath(d, b \o p)}
<1>1. <<>> \in P
  <2>1. a \o <<>> = a /\ b \o <<>> = b /\ <<>> \in TreePaths
    BY PathFacts DEF TreePaths
  <2> QED BY <2>1
<1>2. ASSUME NEW p \in TreePaths, NEW n \in EntryNames, p \in P PROVE Append(p, n) \in P
  <2>1. a \o p \in TreePaths /\ b \o p \in TreePaths /\ Append(p, n) \in TreePaths
    BY PathFacts
  <2>2. a \o Append(p, n) = Append(a \o p, n) /\ b \o Append(p, n) = Append(b \o p, n)
    BY JoinAppend
  <2>3. RealPath(d, Append(a \o p, n)) = RealPath(d, Append(b \o p, n))
    BY <1>2, <2>1, RealPathIs
  <2> QED BY <2>1, <2>2, <2>3
<1>3. TreePaths \subseteq P
  <2> HIDE DEF P
  <2> QED BY <1>1, <1>2, PathInduction
<1> QED BY <1>3

LEMMA OutcomeIs ==
  ASSUME NEW d, IsTree(d), NEW a \in TreePaths
  PROVE  /\ RealPath(d, a).found \in BOOLEAN /\ RealPath(d, a).path \in TreePaths
         /\ RealPath(d, a).found => /\ RealPath(d, a) = Found(RealPath(d, a).path)
                                    /\ IsPlace(d, RealPath(d, a).path)
         /\ IsRealDir(d, a) <=> RealPath(d, a).found /\ IsDirPlace(d, RealPath(d, a).path)
<1>0. \A p \in DOMAIN d : p \in TreePaths /\ p # <<>>
  BY DEF IsTree
<1>1. RealPath(d, a) \in Outcomes(d)
  BY RealPathIs
<1>2. RealPath(d, a) = Lost \/ \E t : RealPath(d, a) = Found(t) /\ IsPlace(d, t) /\ t \in TreePaths
  BY <1>0, <1>1, PathFacts DEF Outcomes, IsPlace
<1>3. CASE RealPath(d, a) = Lost
  <2>1. ~RealPath(d, a).found /\ RealPath(d, a).path = <<>>
    BY <1>3 DEF Lost
  <2>2. ~IsRealDir(d, a)
    BY <2>1 DEF IsRealDir, KindAt
  <2>3. RealPath(d, a).found = FALSE /\ RealPath(d, a).path \in TreePaths
    BY <1>3, PathFacts DEF Lost
  <2> QED BY <2>1, <2>2, <2>3
<1>4. CASE \E t : RealPath(d, a) = Found(t) /\ IsPlace(d, t) /\ t \in TreePaths
  <2>1. PICK t : RealPath(d, a) = Found(t) /\ IsPlace(d, t) /\ t \in TreePaths
    BY <1>4
  <2>2. RealPath(d, a).found = TRUE /\ RealPath(d, a).path = t
    BY <2>1 DEF Found
  <2>3. IsRealDir(d, a) <=> t = <<>> \/ d[t].kind = "dir"
    BY <2>2 DEF IsRealDir, KindAt
  <2>4. IsDirPlace(d, t) <=> t = <<>> \/ d[t].kind = "dir"
    BY <2>1 DEF IsPlace, IsDirPlace
  <2> QED BY <2>1, <2>2, <2>3, <2>4
<1> QED BY <1>2, <1>3, <1>4

(* What is below a directory.                                              *)

LEMMA ConcatSame ==
  ASSUME NEW N, NEW a \in Seq(N), NEW b \in Seq(N), NEW c \in Seq(N), NEW e \in Seq(N),
         a \o b = c \o e, Len(a) = Len(c)
  PROVE  a = c /\ b = e
<1> DEFINE k == Len(a)
<1>a. \A i \in 1 .. Len(a) + Len(b) : (a \o b)[i] = IF i <= Len(a) THEN a[i] ELSE b[i - Len(a)]
  BY ConcatProperties
<1>c. \A i \in 1 .. Len(c) + Len(e) : (c \o e)[i] = IF i <= Len(c) THEN c[i] ELSE e[i - Len(c)]
  BY ConcatProperties
<1>1. /\ k \in Nat /\ Len(c) = k /\ Len(b) \in Nat /\ Len(e) \in Nat
      /\ \A i \in 1 .. k + Len(b) : (a \o b)[i] = IF i <= k THEN a[i] ELSE b[i - k]
      /\ \A i \in 1 .. k + Len(e) : (c \o e)[i] = IF i <= k THEN c[i] ELSE e[i - k]
  BY <1>a, <1>c
<1>2. \A i \in 1 .. k : a[i] = c[i]
  <2> SUFFICES ASSUME NEW i \in 1 .. k PROVE a[i] = c[i]
    OBVIOUS
  <2>1. i <= k /\ i \in 1 .. k + Len(b) /\ i \in 1 .. k + Len(e)
    BY <1>1
  <2> QED BY <2>1, <1>1
<1>3. a = c
  BY <1>1, <1>2, SeqEqual
<1>4. a \o b = a \o e
  BY <1>3
<1> QED BY <1>3, <1>4, ConcatSimplifications

LEMMA SplitAt ==
  ASSUME NEW N, NEW p \in Seq(N), NEW n \in 0 .. Len(p)
  PROVE  /\ SubSeq(p, 1, n) \in Seq(N) /\ SubSeq(p, n + 1, Len(p)) \in Seq(N)
         /\ p = SubSeq(p, 1, n) \o SubSeq(p, n + 1, Len(p)) /\ Len(SubSeq(p, 1, n)) = n
<1> DEFINE k == Len(p)
<1>1. k \in Nat /\ n \in Int /\ k \in Int /\ n + 1 \in Int /\ 1 \in 1 .. k + 1 /\ n \in (1 - 1) .. k
      /\ k \in n .. k
  OBVIOUS
<1>2. (\A i \in 1 .. n : p[i] \in N) /\ (\A i \in n + 1 .. k : p[i] \in N)
  OBVIOUS
<1> HIDE DEF k
<1>3. SubSeq(p, 1, n) \in Seq(N) /\ Len(SubSeq(p, 1, n)) = IF 1 <= n THEN n - 1 + 1 ELSE 0
  BY <1>1, <1>2, SubSeqProperties
<1>4. SubSeq(p, n + 1, k) \in Seq(N)
  BY <1>1, <1>2, SubSeqProperties
<1>5. SubSeq(p, 1, n) \o SubSeq(p, n + 1, k) = SubSeq(p, 1, k)
  <2>1. k = Len(p)
    BY DEF k
  <2> QED BY <1>1, <2>1, ConcatAdjacentSubSeq
<1>6. SubSeq(p, 1, k) = p
  BY SubSeqFull DEF k
<1>7. Len(SubSeq(p, 1, n)) = n
  BY <1>1, <1>3
<1> QED BY <1>3, <1>4, <1>5, <1>6, <1>7 DEF k

LEMMA CutOff ==
  ASSUME NEW N, NEW s \in Seq(N), NEW u \in Seq(N)
  PROVE  SubSeq(s \o u, 1, Len(s)) = s /\ SubSeq(s \o u, Len(s) + 1, Len(s \o u)) = u
<1> DEFINE p == s \o u
           k == Len(s)
<1>1. p \in Seq(N) /\ k \in Nat /\ k \in 0 .. Len(p)
  BY ConcatProperties
<1>2. /\ SubSeq(p, 1, k) \in Seq(N) /\ SubSeq(p, k + 1, Len(p)) \in Seq(N)
      /\ p = SubSeq(p, 1, k) \o SubSeq(p, k + 1, Len(p)) /\ Len(SubSeq(p, 1, k)) = k
  BY <1>1, SplitAt
<1> DEFINE a == SubSeq(p, 1, k)
           b == SubSeq(p, k + 1, Len(p))
<1>3. a \in Seq(N) /\ b \in Seq(N) /\ a \o b = s \o u /\ Len(a) = Len(s)
  BY <1>2
<1> HIDE DEF a, b
<1>4. a = s /\ b = u
  BY <1>3, ConcatSame
<1> QED BY <1>4 DEF a, b

LEMMA PrefixIs ==
  ASSUME NEW s \in TreePaths, NEW t \in TreePaths
  PROVE  IsPrefix(s, t) <=> \E u \in TreePaths : t = s \o u
<1>1. ASSUME IsPrefix(s, t) PROVE \E u \in TreePaths : t = s \o u
  <2>1. Len(s) \in 0 .. Len(t) /\ SubSeq(s, 1, Len(s)) = SubSeq(t, 1, Len(s))
    BY <1>1 DEF IsPrefix, TreePaths
  <2>2. SubSeq(s, 1, Len(s)) = s
    BY SubSeqFull DEF TreePaths
  <2>3. SubSeq(t, Len(s) + 1, Len(t)) \in TreePaths
        /\ t = SubSeq(t, 1, Len(s)) \o SubSeq(t, Len(s) + 1, Len(t))
    BY <2>1, SplitAt DEF TreePaths
  <2> QED BY <2>1, <2>2, <2>3
<1>2. ASSUME NEW u \in TreePaths, t = s \o u PROVE IsPrefix(s, t)
  <2>1. SubSeq(s \o u, 1, Len(s)) = s
    BY CutOff DEF TreePaths
  <2>2. SubSeq(s, 1, Len(s)) = s
    BY SubSeqFull DEF TreePaths
  <2>3. Len(s) <= Len(t)
    <3>1. Len(s \o u) = Len(s) + Len(u) /\ Len(s) \in Nat /\ Len(u) \in Nat
      BY ConcatProperties DEF TreePaths
    <3> QED BY <3>1, <1>2
  <2> QED BY <1>2, <2>1, <2>2, <2>3 DEF IsPrefix
<1> QED BY <1>1, <1>2

LEMMA UnderIs ==
  ASSUME NEW d, IsTree(d), NEW at \in TreePaths, NEW p
  PROVE  p \in Under(d, at) <=> p \in TreePaths /\ p # <<>> /\ at \o p \in DOMAIN d
<1>0. \A q \in DOMAIN d : q \in TreePaths
  BY DEF IsTree
<1>1. ASSUME p \in Under(d, at) PROVE p \in TreePaths /\ p # <<>> /\ at \o p \in DOMAIN d
  <2>1. PICK q \in DOMAIN d : IsStrictPrefix(at, q) /\ p = SubSeq(q, Len(at) + 1, Len(q))
    BY <1>1 DEF Under
  <2>2. PICK u \in TreePaths : q = at \o u
    BY <1>0, <2>1, PrefixIs DEF IsStrictPrefix
  <2>3. p = u
    BY <2>1, <2>2, CutOff DEF TreePaths
  <2>4. u # <<>>
    BY <2>1, <2>2, PathFacts DEF IsStrictPrefix
  <2> QED BY <2>1, <2>2, <2>3, <2>4
<1>2. ASSUME p \in TreePaths, p # <<>>, at \o p \in DOMAIN d PROVE p \in Under(d, at)
  <2> DEFINE q == at \o p
  <2>1. SubSeq(q, Len(at) + 1, Len(q)) = p
    BY <1>2, CutOff DEF TreePaths
  <2>2. IsPrefix(at, q) /\ q \in TreePaths
    BY <1>2, PrefixIs, PathFacts
  <2>3. at # q
    <3>1. at \o p = at <=> p = <<>>
      BY <1>2, ConcatEqualIffEmpty DEF TreePaths
    <3> QED BY <3>1, <1>2
  <2>4. q \in {x \in DOMAIN d : IsStrictPrefix(at, x)}
    BY <1>2, <2>2, <2>3 DEF IsStrictPrefix
  <2> HIDE DEF q
  <2> QED BY <2>1, <2>4 DEF Under
<1> QED BY <1>1, <1>2

(* No name on the way from one path to a longer one is left out.           *)
Cleared(spec, rel, p) ==
  \A a, b \in TreePaths : a # <<>> /\ p = a \o b => ~Excluded(spec, rel \o a)

LEMMA ReachedIs ==
  ASSUME NEW d, IsTree(d), NEW spec, NEW at \in TreePaths, NEW rel \in TreePaths, NEW p
  PROVE  p \in Reached(d, spec, at, rel) <=>
           p \in TreePaths /\ p # <<>> /\ at \o p \in DOMAIN d /\ Cleared(spec, rel, p)
<1> SUFFICES ASSUME p \in TreePaths
             PROVE  (\A n \in 1 .. Len(p) : ~Excluded(spec, rel \o SubSeq(p, 1, n))) <=> Cleared(spec, rel, p)
  BY UnderIs DEF Reached
<1>1. ASSUME \A n \in 1 .. Len(p) : ~Excluded(spec, rel \o SubSeq(p, 1, n)) PROVE Cleared(spec, rel, p)
  <2> SUFFICES ASSUME NEW a \in TreePaths, NEW b \in TreePaths, a # <<>>, p = a \o b
               PROVE  ~Excluded(spec, rel \o a)
    BY DEF Cleared
  <2>1. SubSeq(p, 1, Len(a)) = a
    BY CutOff DEF TreePaths
  <2>2. Len(a) \in 1 .. Len(p)
    <3>1. Len(a \o b) = Len(a) + Len(b) /\ Len(a) \in Nat /\ Len(b) \in Nat
      BY ConcatProperties DEF TreePaths
    <3>2. Len(a) # 0
      BY EmptySeq DEF TreePaths
    <3> QED BY <3>1, <3>2
  <2> QED BY <1>1, <2>1, <2>2
<1>2. ASSUME Cleared(spec, rel, p), NEW n \in 1 .. Len(p) PROVE ~Excluded(spec, rel \o SubSeq(p, 1, n))
  <2>1. n \in 0 .. Len(p) /\ n # 0
    BY DEF TreePaths
  <2>2. /\ SubSeq(p, 1, n) \in TreePaths /\ SubSeq(p, n + 1, Len(p)) \in TreePaths
        /\ p = SubSeq(p, 1, n) \o SubSeq(p, n + 1, Len(p)) /\ Len(SubSeq(p, 1, n)) = n
    BY <2>1, SplitAt DEF TreePaths
  <2>3. SubSeq(p, 1, n) # <<>>
    BY <2>1, <2>2
  <2> QED BY <1>2, <2>2, <2>3 DEF Cleared
<1> QED BY <1>1, <1>2

(* The ways of a root.                                                     *)

LEMMA ClearNone == ASSUME NEW spec, NEW rel PROVE Cleared(spec, rel, <<>>)
<1> SUFFICES ASSUME NEW a \in TreePaths, NEW b \in TreePaths, a # <<>>, <<>> = a \o b PROVE FALSE
  BY DEF Cleared
<1>1. a \in Seq(EntryNames) /\ b \in Seq(EntryNames) /\ a \o b = <<>>
  BY DEF TreePaths
<1> QED BY <1>1, ConcatEqualIffEmpty

LEMMA ClearStep ==
  ASSUME NEW spec, NEW rel \in TreePaths, NEW p \in TreePaths, NEW n \in EntryNames
  PROVE  Cleared(spec, rel, Append(p, n)) <=>
           Cleared(spec, rel, p) /\ ~Excluded(spec, rel \o Append(p, n))
<1>1. ASSUME Cleared(spec, rel, Append(p, n))
      PROVE  Cleared(spec, rel, p) /\ ~Excluded(spec, rel \o Append(p, n))
  <2>1. Append(p, n) \in TreePaths /\ Append(p, n) # <<>> /\ Append(p, n) = Append(p, n) \o <<>>
        /\ <<>> \in TreePaths
    BY PathFacts
  <2>2. ~Excluded(spec, rel \o Append(p, n))
    BY <1>1, <2>1 DEF Cleared
  <2>3. ASSUME NEW a \in TreePaths, NEW b \in TreePaths, a # <<>>, p = a \o b PROVE ~Excluded(spec, rel \o a)
    <3>1. a \o Append(b, n) = Append(a \o b, n)
      BY JoinAppend
    <3>2. Append(p, n) = a \o Append(b, n)
      BY ONLY <2>3, <3>1
    <3>3. Append(b, n) \in TreePaths
      BY DEF TreePaths
    <3> QED BY <3>2, <3>3, <2>3, <1>1 DEF Cleared
  <2> QED BY <2>2, <2>3 DEF Cleared
<1>2. ASSUME Cleared(spec, rel, p), ~Excluded(spec, rel \o Append(p, n)) PROVE Cleared(spec, rel, Append(p, n))
  <2> SUFFICES ASSUME NEW a \in TreePaths, NEW b \in TreePaths, a # <<>>, Append(p, n) = a \o b
               PROVE  ~Excluded(spec, rel \o a)
    BY DEF Cleared
  <2>1. CASE b = <<>>
    <3>1. a = Append(p, n)
      BY <2>1, PathFacts
    <3> QED BY <3>1, <1>2
  <2>2. CASE b # <<>>
    <3>1. PICK c \in TreePaths, m \in EntryNames : b = Append(c, m)
      BY <2>2, PathEnd
    <3>2. a \o b = Append(a \o c, m)
      BY <3>1, JoinAppend
    <3>3. a \o c \in TreePaths
      BY PathFacts
    <3>4. Append(p, n) = Append(a \o c, m)
      BY <3>2
    <3>5. p = a \o c
      <4>1. Front(Append(p, n)) = p
        BY FrontLast DEF TreePaths
      <4>2. Front(Append(a \o c, m)) = a \o c
        BY <3>3, FrontLast DEF TreePaths
      <4> QED BY <3>4, <4>1, <4>2
    <3> QED BY <3>5, <1>2 DEF Cleared
  <2> QED BY <2>1, <2>2
<1> QED BY <1>1, <1>2

LEMMA ClearJoin ==
  ASSUME NEW spec, NEW l \in TreePaths, Cleared(spec, <<>>, l)
  PROVE  \A p \in TreePaths : Cleared(spec, l, p) => Cleared(spec, <<>>, l \o p)
<1> DEFINE P == {p \in TreePaths : Cleared(spec, l, p) => Cleared(spec, <<>>, l \o p)}
<1>1. <<>> \in P
  BY PathFacts
<1>2. ASSUME NEW p \in TreePaths, NEW n \in EntryNames, p \in P PROVE Append(p, n) \in P
  <2>1. Append(p, n) \in TreePaths /\ l \o p \in TreePaths /\ <<>> \in TreePaths
    BY PathFacts
  <2> SUFFICES ASSUME Cleared(spec, l, Append(p, n)) PROVE Cleared(spec, <<>>, l \o Append(p, n))
    BY <2>1
  <2>2. Cleared(spec, l, p) /\ ~Excluded(spec, l \o Append(p, n))
    BY ClearStep
  <2>3. l \o Append(p, n) = Append(l \o p, n)
    BY JoinAppend
  <2>4. <<>> \o Append(l \o p, n) = Append(l \o p, n)
    BY <2>1, PathFacts
  <2>5. Cleared(spec, <<>>, l \o p)
    BY <1>2, <2>2
  <2> QED BY <2>1, <2>2, <2>3, <2>4, <2>5, ClearStep
<1>3. TreePaths \subseteq P
  <2> HIDE DEF P
  <2> QED BY <1>1, <1>2, PathInduction
<1> QED BY <1>3

-----------------------------------------------------------------------------
(* The two sorts of ways.                                                  *)
Enters(d, o, q) == o.follow /\ d[q].kind = "link" /\ IsRealDir(d, q)
Top(d, spec) == RealPath(d, spec.root).path
PlainWay(d, o, spec, p) ==
  /\ IsRealDir(d, spec.root) /\ p \in TreePaths /\ p # <<>>
  /\ Top(d, spec) \o p \in DOMAIN d /\ Cleared(spec, <<>>, p)
  /\ d[Top(d, spec) \o p].kind \in {"file", "link"} /\ ~Enters(d, o, Top(d, spec) \o p)
LinkTo(d, o, spec, l, t) ==
  /\ IsRealDir(d, spec.root) /\ l \in TreePaths /\ l # <<>>
  /\ Top(d, spec) \o l \in DOMAIN d /\ Cleared(spec, <<>>, l)
  /\ Enters(d, o, Top(d, spec) \o l) /\ t = RealPath(d, Top(d, spec) \o l).path
LinkedWay(d, o, spec, l, t, p) ==
  /\ LinkTo(d, o, spec, l, t)
  /\ p \in TreePaths /\ p # <<>> /\ t \o p \in DOMAIN d /\ Cleared(spec, l, p)
  /\ d[t \o p].kind \in {"file", "link"}

LEMMA BelowRootIs ==
  ASSUME NEW d, IsTree(d), NEW spec, spec.root \in TreePaths, NEW p
  PROVE  p \in BelowRoot(d, spec) <=>
           /\ IsRealDir(d, spec.root) /\ p \in TreePaths /\ p # <<>>
           /\ Top(d, spec) \o p \in DOMAIN d /\ Cleared(spec, <<>>, p)
<1>1. Top(d, spec) \in TreePaths /\ <<>> \in TreePaths
  BY OutcomeIs, PathFacts DEF Top
<1>2. p \in Reached(d, spec, Top(d, spec), <<>>) <=>
        p \in TreePaths /\ p # <<>> /\ Top(d, spec) \o p \in DOMAIN d /\ Cleared(spec, <<>>, p)
  BY <1>1, ReachedIs
<1> QED BY <1>2 DEF BelowRoot, Top

LEMMA WayIs ==
  ASSUME NEW d, IsTree(d), NEW o, NEW spec, spec.root \in TreePaths, NEW w
  PROVE  w \in Ways(d, o, spec) <=>
           \/ \E p : PlainWay(d, o, spec, p) /\ w = Way(p, <<>>, spec.root \o p)
           \/ \E l, t, p : LinkedWay(d, o, spec, l, t, p) /\ w = Way(l \o p, l, t \o p)
<1> DEFINE at == RealPath(d, spec.root).path
           entered == EnteredLinks(d, o, spec)
           target(l) == RealPath(d, at \o l).path
           plain == {Way(p, <<>>, spec.root \o p) : p \in Leaves(d, BelowRoot(d, spec), at) \ entered}
           linked == UNION {{Way(l \o p, l, target(l) \o p) :
                      p \in Leaves(d, Reached(d, spec, target(l), l), target(l))} : l \in entered}
<1>1. w \in Ways(d, o, spec) <=> w \in plain \/ w \in linked
  BY DEF Ways
<1>2. at = Top(d, spec) /\ at \in TreePaths
  BY OutcomeIs DEF Top
<1>3. \A l : l \in entered <=> LinkTo(d, o, spec, l, target(l))
  <2>1. \A l : l \in entered <=> l \in BelowRoot(d, spec) /\ Enters(d, o, at \o l)
    BY DEF EnteredLinks, Enters
  <2> QED BY <2>1, <1>2, BelowRootIs DEF LinkTo
<1>4. \A p : p \in Leaves(d, BelowRoot(d, spec), at) \ entered <=> PlainWay(d, o, spec, p)
  <2>1. \A l : l \in entered <=> l \in BelowRoot(d, spec) /\ Enters(d, o, at \o l)
    BY DEF EnteredLinks, Enters
  <2>2. \A p : p \in Leaves(d, BelowRoot(d, spec), at) <=>
                 p \in BelowRoot(d, spec) /\ d[at \o p].kind \in {"file", "link"}
    BY DEF Leaves
  <2> HIDE DEF entered, at
  <2> QED BY <2>1, <2>2, <1>2, BelowRootIs DEF PlainWay
<1>5. ASSUME NEW l, l \in entered
      PROVE  \A p : p \in Leaves(d, Reached(d, spec, target(l), l), target(l)) <=>
                      LinkedWay(d, o, spec, l, target(l), p)
  <2>1. LinkTo(d, o, spec, l, target(l))
    BY <1>3, <1>5
  <2>2. l \in TreePaths /\ at \o l \in TreePaths
    BY <2>1, <1>2, PathFacts DEF LinkTo
  <2>3. target(l) \in TreePaths
    BY <2>2, OutcomeIs
  <2>4. \A p : p \in Reached(d, spec, target(l), l) <=>
                 p \in TreePaths /\ p # <<>> /\ target(l) \o p \in DOMAIN d /\ Cleared(spec, l, p)
    BY <2>2, <2>3, ReachedIs
  <2> HIDE DEF target
  <2> QED BY <2>1, <2>4 DEF Leaves, LinkedWay
<1> HIDE DEF at, entered
<1>6. w \in plain <=> \E p : PlainWay(d, o, spec, p) /\ w = Way(p, <<>>, spec.root \o p)
  BY <1>4
<1>7. ASSUME w \in linked
      PROVE  \E l, t, p : LinkedWay(d, o, spec, l, t, p) /\ w = Way(l \o p, l, t \o p)
  <2>1. PICK l \in entered : w \in {Way(l \o p, l, target(l) \o p) :
                      p \in Leaves(d, Reached(d, spec, target(l), l), target(l))}
    BY <1>7
  <2> HIDE DEF target
  <2>2. PICK p \in Leaves(d, Reached(d, spec, target(l), l), target(l)) : w = Way(l \o p, l, target(l) \o p)
    BY <2>1
  <2>3. LinkedWay(d, o, spec, l, target(l), p)
    BY <1>5, <2>2
  <2> QED BY <2>2, <2>3
<1>8. ASSUME NEW l, NEW t, NEW p, LinkedWay(d, o, spec, l, t, p), w = Way(l \o p, l, t \o p)
      PROVE  w \in linked
  <2>1. t = target(l)
    BY <1>2, <1>8 DEF LinkedWay, LinkTo
  <2>2. l \in entered
    <3>1. LinkTo(d, o, spec, l, target(l))
      BY <1>8, <2>1 DEF LinkedWay
    <3> HIDE DEF target
    <3> QED BY <3>1, <1>3
  <2> HIDE DEF target
  <2>3. p \in Leaves(d, Reached(d, spec, target(l), l), target(l))
    BY <1>5, <1>8, <2>1, <2>2
  <2> QED BY <1>8, <2>1, <2>2, <2>3
<1> HIDE DEF plain, linked
<1> QED BY <1>1, <1>6, <1>7, <1>8

-----------------------------------------------------------------------------
(* From a directory a way goes on through one of its entries.              *)

(* Below a root that is there, every path leads where its path below the   *)
(* root's place leads.                                                     *)
LEMMA RootOn ==
  ASSUME NEW d, IsTree(d), NEW spec, spec.root \in TreePaths, IsRealDir(d, spec.root)
  PROVE  /\ Top(d, spec) \in TreePaths
         /\ \A p \in TreePaths :
              /\ RealPath(d, spec.root \o p) = RealPath(d, Top(d, spec) \o p)
              /\ KindAt(d, spec.root \o p) = KindAt(d, Top(d, spec) \o p)
              /\ IsRealDir(d, spec.root \o p) = IsRealDir(d, Top(d, spec) \o p)
              /\ IsDirPlace(d, Top(d, spec) \o p) =>
                   RealPath(d, spec.root \o p) = Found(Top(d, spec) \o p)
<1> DEFINE t == Top(d, spec)
<1>1. t \in TreePaths /\ RealPath(d, spec.root) = Found(t) /\ IsPlace(d, t)
  BY OutcomeIs DEF Top
<1>2. RealPath(d, t) = RealPath(d, spec.root)
  BY <1>1, PlaceIs
<1>3. \A p \in TreePaths : RealPath(d, spec.root \o p) = RealPath(d, t \o p)
  BY <1>1, <1>2, SameOnward
<1> HIDE DEF t
<1>4. \A p \in TreePaths : KindAt(d, spec.root \o p) = KindAt(d, t \o p)
  BY <1>3 DEF KindAt
<1>5. \A p \in TreePaths : IsRealDir(d, spec.root \o p) = IsRealDir(d, t \o p)
  BY <1>4 DEF IsRealDir
<1>6. \A p \in TreePaths : t \o p \in TreePaths
  BY <1>1, PathFacts
<1>7. ASSUME NEW p \in TreePaths, IsDirPlace(d, t \o p) PROVE RealPath(d, spec.root \o p) = Found(t \o p)
  <2>1. IsPlace(d, t \o p)
    BY <1>7 DEF IsPlace, IsDirPlace
  <2> QED BY <2>1, <1>3, <1>6, PlaceIs
<1> QED BY <1>1, <1>3, <1>4, <1>5, <1>7 DEF t

(* The entries of a directory.                                             *)
LEMMA EntriesIs ==
  ASSUME NEW d, IsTree(d), NEW at \in TreePaths, NEW t \in TreePaths, RealPath(d, at) = Found(t),
         IsDirPlace(d, t), NEW e
  PROVE  e \in Entries(d, at) <=>
           \E n \in EntryNames : Append(t, n) \in DOMAIN d /\ e = [name |-> n, kind |-> d[Append(t, n)].kind]
<1>1. RealPath(d, at).path = t /\ RealPath(d, at).found
  BY DEF Found
<1>2. IsRealDir(d, at)
  BY <1>1, OutcomeIs
<1> QED BY <1>1, <1>2 DEF Entries, EntryKind

Kinds == {"dir", "file", "link", "special"}
LEMMA EntriesType ==
  ASSUME NEW d, IsTree(d), NEW at \in TreePaths, NEW e, e \in Entries(d, at)
  PROVE  /\ e \in [name : EntryNames, kind : Kinds] /\ IsRealDir(d, at)
         /\ e = [name |-> e.name, kind |-> e.kind]
         /\ Append(RealPath(d, at).path, e.name) \in DOMAIN d
         /\ e.kind = d[Append(RealPath(d, at).path, e.name)].kind
<1>1. IsRealDir(d, at)
  BY DEF Entries
<1>2. PICK n \in EntryNames :
        /\ Append(RealPath(d, at).path, n) \in DOMAIN d
        /\ e = [name |-> n, kind |-> d[Append(RealPath(d, at).path, n)].kind]
  BY <1>1 DEF Entries, EntryKind
<1>3. d[Append(RealPath(d, at).path, n)].kind \in Kinds
  BY <1>2 DEF IsTree, IsSpot, Kinds
<1> QED BY <1>1, <1>2, <1>3

LEMMA FirstName ==
  ASSUME NEW x \in TreePaths, x # <<>>
  PROVE  \E n \in EntryNames, y \in TreePaths : x = <<n>> \o y
<1>1. Head(x) \in EntryNames /\ Tail(x) \in Seq(EntryNames)
  BY HeadTailProperties DEF TreePaths
<1>2. x = <<Head(x)>> \o Tail(x)
  BY DEF TreePaths
<1> QED BY <1>1, <1>2 DEF TreePaths

(* The entry on the way from a directory to what is below it.              *)
NextEntry(d, at, x, last) ==
  \E n \in EntryNames, y \in TreePaths :
    /\ x = <<n>> \o y
    /\ [name |-> n, kind |-> IF y = <<>> THEN last ELSE "dir"] \in Entries(d, at)

LEMMA EntryOn ==
  ASSUME NEW d, IsTree(d), NEW at \in TreePaths, NEW t \in TreePaths, RealPath(d, at) = Found(t),
         NEW x \in TreePaths, x # <<>>, t \o x \in DOMAIN d
  PROVE  NextEntry(d, at, x, d[t \o x].kind)
<1>1. PICK n \in EntryNames, y \in TreePaths : x = <<n>> \o y
  BY FirstName
<1> DEFINE q == Append(t, n)
<1>2. q \o y = t \o x /\ q \in TreePaths /\ q # <<>> /\ (y = <<>> => q = t \o x)
  <2>1. q \o y = t \o x
    BY <1>1, JoinAppend
  <2>2. q \in TreePaths /\ q # <<>> /\ q \o <<>> = q
    BY PathFacts
  <2> QED BY <2>1, <2>2
<1>3. IsDirPlace(d, t)
  BY TreeAbove
<1>4. q \in DOMAIN d /\ (y # <<>> => d[q].kind = "dir")
  <2>1. CASE y = <<>>
    BY <2>1, <1>2
  <2>2. CASE y # <<>>
    <3> HIDE DEF q
    <3>1. IsDirPlace(d, q)
      BY <1>2, <2>2, TreeAbove
    <3> QED BY <3>1, <2>2, <1>2 DEF IsDirPlace
  <2> QED BY <2>1, <2>2
<1> DEFINE k == d[q].kind
           e == [name |-> n, kind |-> k]
<1>5. e \in Entries(d, at)
  BY <1>3, <1>4, EntriesIs
<1>6. k = IF y = <<>> THEN d[t \o x].kind ELSE "dir"
  BY <1>2, <1>4
<1> HIDE DEF k, q
<1> QED BY <1>1, <1>5, <1>6 DEF NextEntry

LEMMA RootEntryOn ==
  ASSUME NEW d, IsTree(d), NEW spec, spec.root \in TreePaths, IsRealDir(d, spec.root),
         NEW rel \in TreePaths, NEW x \in TreePaths, x # <<>>, Top(d, spec) \o (rel \o x) \in DOMAIN d
  PROVE  NextEntry(d, spec.root \o rel, x, d[Top(d, spec) \o (rel \o x)].kind)
<1> DEFINE top == Top(d, spec)
           t == top \o rel
           at == spec.root \o rel
<1>1. top \in TreePaths
  BY RootOn
<1>2. top \o (rel \o x) = t \o x
  BY <1>1, JoinJoin
<1>3. t \in TreePaths /\ at \in TreePaths
  BY <1>1, PathFacts
<1>4. t \o x \in DOMAIN d
  BY <1>2
<1>5. IsDirPlace(d, t)
  <2> HIDE DEF t
  <2> QED BY <1>3, <1>4, TreeAbove
<1>6. RealPath(d, at) = Found(t)
  BY <1>5, RootOn
<1> HIDE DEF t, at
<1>7. NextEntry(d, at, x, d[t \o x].kind)
  BY <1>3, <1>4, <1>6, EntryOn
<1> QED BY <1>2, <1>7 DEF at

-----------------------------------------------------------------------------
(* A way goes on from a directory, at a path and below the root, and from  *)
(* an entry of it.                                                         *)
Heads(at, rel, linked, w) ==
  \/ /\ linked <=> w.below # <<>>
     /\ \E x \in TreePaths : x # <<>> /\ w.rel = rel \o x /\ w.at = at \o x
  \/ /\ ~linked /\ w.below # <<>>
     /\ \E x \in TreePaths : x # <<>> /\ w.below = rel \o x
Leads(a, w) ==
  LET rel == Append(a.rel, a.entry.name)
      at == Append(a.at, a.entry.name)
  IN  \/ /\ a.linked <=> w.below # <<>>
         /\ \E y \in TreePaths : /\ w.rel = rel \o y /\ w.at = at \o y
                                 /\ y = <<>> => a.entry.kind \in {"file", "link"}
                                 /\ y # <<>> => a.entry.kind = "dir"
      \/ /\ ~a.linked /\ w.below # <<>>
         /\ \E y \in TreePaths : /\ w.below = rel \o y
                                 /\ y = <<>> => a.entry.kind = "link"
                                 /\ y # <<>> => a.entry.kind = "dir"
Ahead(at, rel, linked, e) == [at |-> at, rel |-> rel, linked |-> linked, entry |-> e]

LEMMA Opens ==
  ASSUME NEW d, IsTree(d), NEW o, NEW spec, spec.root \in TreePaths, NEW w \in Ways(d, o, spec),
         NEW at \in TreePaths, NEW rel \in TreePaths, NEW linked \in BOOLEAN,
         ~linked => at = spec.root \o rel, Heads(at, rel, linked, w)
  PROVE  \E e \in Entries(d, at) : Leads(Ahead(at, rel, linked, e), w)
<1> DEFINE top == Top(d, spec)
<1>a. ASSUME NEW x \in TreePaths, NEW last, NextEntry(d, at, x, last),
             \/ (linked <=> w.below # <<>>) /\ w.rel = rel \o x /\ w.at = at \o x /\ last \in {"file", "link"}
             \/ ~linked /\ w.below # <<>> /\ w.below = rel \o x /\ last = "link"
      PROVE  \E e \in Entries(d, at) : Leads(Ahead(at, rel, linked, e), w)
  <2>1. PICK n \in EntryNames, y \in TreePaths :
          /\ x = <<n>> \o y
          /\ [name |-> n, kind |-> IF y = <<>> THEN last ELSE "dir"] \in Entries(d, at)
    BY <1>a DEF NextEntry
  <2> DEFINE k == IF y = <<>> THEN last ELSE "dir"
             e == [name |-> n, kind |-> k]
             a == Ahead(at, rel, linked, e)
  <2>2. Append(rel, n) \o y = rel \o x
    BY <2>1, JoinAppend
  <2>3. Append(at, n) \o y = at \o x
    BY <2>1, JoinAppend
  <2>4. a.at = at /\ a.rel = rel /\ a.linked = linked /\ a.entry.name = n /\ a.entry.kind = k
    BY DEF Ahead
  <2>5. e \in Entries(d, at)
    BY <2>1
  <2>6. (y = <<>> => k = last) /\ (y # <<>> => k = "dir")
    OBVIOUS
  <2> HIDE DEF a, e, k
  <2>7. Leads(a, w)
    BY <1>a, <2>2, <2>3, <2>4, <2>6 DEF Leads
  <2> QED BY <2>5, <2>7 DEF a
<1>1. CASE \E p : PlainWay(d, o, spec, p) /\ w = Way(p, <<>>, spec.root \o p)
  <2>1. PICK p : PlainWay(d, o, spec, p) /\ w = Way(p, <<>>, spec.root \o p)
    BY <1>1
  <2>2. w.below = <<>> /\ w.rel = p /\ p \in TreePaths /\ top \o p \in DOMAIN d
        /\ d[top \o p].kind \in {"file", "link"} /\ IsRealDir(d, spec.root)
    BY <2>1 DEF PlainWay, Way
  <2>3. ~linked /\ at = spec.root \o rel
    BY <2>2 DEF Heads
  <2>4. PICK x \in TreePaths : x # <<>> /\ w.rel = rel \o x /\ w.at = at \o x
    BY <2>2 DEF Heads
  <2>5. NextEntry(d, at, x, d[top \o p].kind)
    <3>1. p = rel \o x
      BY <2>2, <2>4
    <3>2. NextEntry(d, spec.root \o rel, x, d[top \o (rel \o x)].kind)
      BY <2>2, <2>4, <3>1, RootEntryOn
    <3> QED BY <2>3, <3>1, <3>2
  <2> QED BY <1>a, <2>2, <2>3, <2>4, <2>5
<1>2. CASE \E l, t, p : LinkedWay(d, o, spec, l, t, p) /\ w = Way(l \o p, l, t \o p)
  <2>1. PICK l, t, p : LinkedWay(d, o, spec, l, t, p) /\ w = Way(l \o p, l, t \o p)
    BY <1>2
  <2>2. /\ w.below = l /\ l # <<>> /\ l \in TreePaths /\ w.rel = l \o p /\ w.at = t \o p /\ p \in TreePaths
        /\ t \o p \in DOMAIN d /\ d[t \o p].kind \in {"file", "link"} /\ IsRealDir(d, spec.root)
        /\ top \o l \in DOMAIN d /\ d[top \o l].kind = "link"
    BY <2>1 DEF LinkedWay, LinkTo, Way, Enters
  <2>3. CASE linked
    <3>1. PICK x \in TreePaths : x # <<>> /\ w.rel = rel \o x /\ w.at = at \o x
      BY <2>2, <2>3 DEF Heads
    <3>2. IsDirPlace(d, at)
      BY <2>2, <3>1, TreeAbove
    <3>3. RealPath(d, at) = Found(at)
      BY <3>2, PlaceIs DEF IsPlace, IsDirPlace
    <3>4. NextEntry(d, at, x, d[at \o x].kind)
      BY <2>2, <3>1, <3>3, EntryOn
    <3>5. d[at \o x].kind \in {"file", "link"}
      BY <2>2, <3>1
    <3> QED BY <1>a, <2>2, <2>3, <3>1, <3>4, <3>5
  <2>4. CASE ~linked
    <3>1. PICK x \in TreePaths : x # <<>> /\ l = rel \o x
      BY <2>2, <2>4 DEF Heads
    <3>2. NextEntry(d, spec.root \o rel, x, d[top \o (rel \o x)].kind)
      BY <2>2, <3>1, RootEntryOn
    <3>3. NextEntry(d, at, x, d[top \o l].kind)
      BY <2>4, <3>1, <3>2
    <3> QED BY <1>a, <2>2, <2>4, <3>1, <3>3
  <2> QED BY <2>3, <2>4
<1> QED BY <1>1, <1>2, WayIs

-----------------------------------------------------------------------------
(* Visiting an entry takes along every way through it ...                  *)

(* A way: what holds of it whatever the walk does.                         *)
LEMMA WayFacts ==
  ASSUME NEW d, IsTree(d), NEW o, NEW spec, spec.root \in TreePaths, NEW w \in Ways(d, o, spec)
  PROVE  /\ w.rel \in TreePaths /\ w.rel # <<>> /\ w.below \in TreePaths /\ w.at \in TreePaths
         /\ Cleared(spec, <<>>, w.rel)
         /\ KindAt(d, w.at) = "file" \/ IsLinkAt(d, w.at)
         /\ KindAt(d, w.at) = "special" => \E p \in DOMAIN d : d[p].kind = "link" /\ KindAt(d, p) = "special"
<1>a. ASSUME NEW base \in TreePaths, NEW t \in TreePaths, RealPath(d, base) = Found(t),
             NEW p \in TreePaths, p # <<>>, t \o p \in DOMAIN d, d[t \o p].kind \in {"file", "link"}
      PROVE  /\ KindAt(d, base \o p) = "file" \/ IsLinkAt(d, base \o p)
             /\ KindAt(d, base \o p) = "special" => \E q \in DOMAIN d : d[q].kind = "link" /\ KindAt(d, q) = "special"
  <2>1. PICK c \in TreePaths, n \in EntryNames : p = Append(c, n)
    BY <1>a, PathEnd
  <2>2. base \o p = Append(base \o c, n)
    BY <2>1, JoinAppend
  <2>3. t \o p = Append(t \o c, n)
    BY <2>1, JoinAppend
  <2>4. base \o c \in TreePaths /\ t \o c \in TreePaths /\ t \o p \in TreePaths
    BY PathFacts
  <2>5. IsDirPlace(d, t \o c)
    BY <1>a, <2>3, <2>4, TreeParent
  <2>6. IsPlace(d, t \o c)
    BY <2>5 DEF IsPlace, IsDirPlace
  <2>7. IsDirPlace(d, t)
    BY <1>a, TreeAbove
  <2>8. RealPath(d, t) = RealPath(d, base)
    BY <1>a, <2>7, PlaceIs DEF IsPlace, IsDirPlace
  <2>9. \A x \in TreePaths : RealPath(d, base \o x) = RealPath(d, t \o x)
    BY <2>8, SameOnward
  <2>10. RealPath(d, base \o c) = Found(t \o c)
    BY <2>4, <2>6, <2>9, PlaceIs
  <2>11. RealPath(d, base \o c).path = t \o c /\ RealPath(d, base \o c).found
    BY <2>10 DEF Found
  <2>12. Front(base \o p) = base \o c /\ Last(base \o p) = n
    <3>1. Front(Append(base \o c, n)) = base \o c
      BY <2>4, FrontLast DEF TreePaths
    <3>2. Last(Append(base \o c, n)) = n
      BY <2>4, FrontLast DEF TreePaths
    <3> QED BY <3>1, <3>2, <2>2
  <2>13. KindAt(d, base \o p) = KindAt(d, t \o p)
    BY <2>9 DEF KindAt
  <2>14. CASE d[t \o p].kind = "link"
    <3>1. IsLinkAt(d, base \o p)
      BY <1>a, <2>3, <2>11, <2>12, <2>14 DEF IsLinkAt
    <3> QED BY <1>a, <2>13, <2>14, <3>1
  <2>15. CASE d[t \o p].kind = "file"
    <3> DEFINE q == t \o p
    <3>1. IsPlace(d, q) /\ q \in TreePaths /\ q # <<>>
      <4>1. q \in TreePaths
        BY <2>4
      <4>2. q # <<>>
        BY <2>3, <2>4 DEF TreePaths
      <4>3. IsPlace(d, q)
        BY <1>a, <2>15 DEF IsPlace
      <4> QED BY <4>1, <4>2, <4>3
    <3>2. RealPath(d, q) = Found(q)
      <4> HIDE DEF q
      <4> QED BY <3>1, PlaceIs
    <3>3. RealPath(d, q).found /\ RealPath(d, q).path = q
      BY <3>2 DEF Found
    <3>4. KindAt(d, q) = "file"
      BY <3>1, <3>3, <2>15 DEF KindAt
    <3> QED BY <2>13, <3>4
  <2> QED BY <1>a, <2>14, <2>15
<1>1. CASE \E p : PlainWay(d, o, spec, p) /\ w = Way(p, <<>>, spec.root \o p)
  <2>1. PICK p : PlainWay(d, o, spec, p) /\ w = Way(p, <<>>, spec.root \o p)
    BY <1>1
  <2>2. /\ w.below = <<>> /\ w.rel = p /\ w.at = spec.root \o p /\ p \in TreePaths /\ p # <<>>
        /\ Top(d, spec) \o p \in DOMAIN d /\ d[Top(d, spec) \o p].kind \in {"file", "link"}
        /\ IsRealDir(d, spec.root) /\ Cleared(spec, <<>>, p)
    BY <2>1 DEF PlainWay, Way
  <2>3. RealPath(d, spec.root) = Found(Top(d, spec)) /\ Top(d, spec) \in TreePaths
    BY <2>2, OutcomeIs DEF Top
  <2>4. spec.root \o p \in TreePaths /\ <<>> \in TreePaths
    BY <2>2, PathFacts
  <2> QED BY <1>a, <2>2, <2>3, <2>4
<1>2. CASE \E l, t, p : LinkedWay(d, o, spec, l, t, p) /\ w = Way(l \o p, l, t \o p)
  <2>1. PICK l, t, p : LinkedWay(d, o, spec, l, t, p) /\ w = Way(l \o p, l, t \o p)
    BY <1>2
  <2>2. /\ w.below = l /\ l # <<>> /\ l \in TreePaths /\ w.rel = l \o p /\ w.at = t \o p /\ p \in TreePaths
        /\ p # <<>> /\ t \o p \in DOMAIN d /\ d[t \o p].kind \in {"file", "link"} /\ IsRealDir(d, spec.root)
        /\ Cleared(spec, <<>>, l) /\ Cleared(spec, l, p) /\ t = RealPath(d, Top(d, spec) \o l).path
    BY <2>1 DEF LinkedWay, LinkTo, Way
  <2>3. Top(d, spec) \o l \in TreePaths
    BY <2>2, OutcomeIs, PathFacts DEF Top
  <2>4. t \in TreePaths
    BY <2>2, <2>3, OutcomeIs
  <2>5. IsDirPlace(d, t)
    BY <2>2, <2>4, TreeAbove
  <2>6. RealPath(d, t) = Found(t)
    BY <2>4, <2>5, PlaceIs DEF IsPlace, IsDirPlace
  <2>7. l \o p \in TreePaths /\ t \o p \in TreePaths /\ l \o p # <<>>
    <3>1. l \o p = <<>> <=> l = <<>> /\ p = <<>>
      BY <2>2, ConcatEqualIffEmpty DEF TreePaths
    <3> QED BY <2>2, <2>4, <3>1, PathFacts
  <2>8. Cleared(spec, <<>>, l \o p)
    BY <2>2, ClearJoin
  <2>9. /\ KindAt(d, t \o p) = "file" \/ IsLinkAt(d, t \o p)
        /\ KindAt(d, t \o p) = "special" => \E q \in DOMAIN d : d[q].kind = "link" /\ KindAt(d, q) = "special"
    BY <1>a, <2>2, <2>4, <2>6
  <2> QED BY <2>2, <2>7, <2>8, <2>9
<1> QED BY <1>1, <1>2, WayIs

(* What the walk makes of an entry that leads to a way.                    *)
EntersLink(d, o, a) ==
  /\ a.entry.kind = "link" /\ o.follow /\ ~a.linked
  /\ IsRealDir(d, Append(a.at, a.entry.name))

(* An entry of the walk below a root, the path it is read at and the one   *)
(* below the root.                                                         *)
Visited(spec, a, at, rel) ==
  /\ a = Ahead(a.at, a.rel, a.linked, a.entry)
  /\ a.at \in TreePaths /\ a.rel \in TreePaths /\ a.linked \in BOOLEAN /\ a.entry.name \in EntryNames
  /\ ~a.linked => a.at = spec.root \o a.rel
  /\ at = Append(a.at, a.entry.name) /\ rel = Append(a.rel, a.entry.name)
VisitsWay(d, o, spec, w, a, at, rel) ==
  /\ ~Excluded(spec, rel) /\ a.entry.kind \in {"dir", "file", "link"}
  /\ a.entry.kind = "dir" => Heads(at, rel, a.linked, w)
  /\ EntersLink(d, o, a) => Heads(RealPath(d, at).path, rel, TRUE, w)
  /\ a.entry.kind # "dir" /\ ~EntersLink(d, o, a) => w.rel = rel /\ w.at = at

LEMMA Visits ==
  ASSUME NEW d, IsTree(d), NEW o, NEW spec, spec.root \in TreePaths, NEW w \in Ways(d, o, spec),
         NEW a, NEW at2, NEW rel2, Visited(spec, a, at2, rel2), Leads(a, w)
  PROVE  VisitsWay(d, o, spec, w, a, at2, rel2)
<1> DEFINE at == a.at
           rel == a.rel
           linked == a.linked
           e == a.entry
           n == e.name
           enters == EntersLink(d, o, a)
<1>1. /\ at \in TreePaths /\ rel \in TreePaths /\ linked \in BOOLEAN /\ n \in EntryNames
      /\ ~linked => at = spec.root \o rel
  BY DEF Visited
<1>0. at2 = Append(at, n) /\ rel2 = Append(rel, n)
  BY DEF Visited
<1>p. a.at = at /\ a.rel = rel /\ a.linked = linked /\ a.entry = e
  OBVIOUS
<1>2. at2 \in TreePaths /\ rel2 \in TreePaths /\ rel2 # <<>> /\ at2 \o <<>> = at2 /\ rel2 \o <<>> = rel2
      /\ <<>> \o rel2 = rel2
  BY <1>0, <1>1, PathFacts
<1>3. enters <=> e.kind = "link" /\ o.follow /\ ~linked /\ IsRealDir(d, at2)
  BY <1>0 DEF EntersLink
<1>4. ~linked => at2 = spec.root \o rel2
  <2>1. spec.root \o Append(rel, n) = Append(spec.root \o rel, n)
    BY <1>1, JoinAppend
  <2> QED BY <1>0, <1>1, <2>1
<1>5. Leads(a, w)
  OBVIOUS
<1> HIDE DEF enters, at, rel, linked, n, e
<1>6. \/ /\ linked <=> w.below # <<>>
         /\ \E y \in TreePaths : /\ w.rel = rel2 \o y /\ w.at = at2 \o y
                                 /\ y = <<>> => e.kind \in {"file", "link"}
                                 /\ y # <<>> => e.kind = "dir"
      \/ /\ ~linked /\ w.below # <<>>
         /\ \E y \in TreePaths : /\ w.below = rel2 \o y
                                 /\ y = <<>> => e.kind = "link"
                                 /\ y # <<>> => e.kind = "dir"
  BY <1>0, <1>1, <1>p, <1>5 DEF Leads, n
<1>7. ASSUME Cleared(spec, <<>>, rel2) \/ \E y \in TreePaths : Cleared(spec, <<>>, rel2 \o y)
      PROVE  ~Excluded(spec, rel2)
  <2>1. PICK y \in TreePaths : Cleared(spec, <<>>, rel2 \o y)
    BY <1>2, <1>7, PathFacts
  <2>2. ~Excluded(spec, <<>> \o rel2)
    BY <1>2, <2>1 DEF Cleared
  <2> QED BY <1>2, <2>2
<1>8. CASE /\ linked <=> w.below # <<>>
           /\ \E y \in TreePaths : /\ w.rel = rel2 \o y /\ w.at = at2 \o y
                                   /\ y = <<>> => e.kind \in {"file", "link"}
                                   /\ y # <<>> => e.kind = "dir"
  <2>1. PICK y \in TreePaths : /\ w.rel = rel2 \o y /\ w.at = at2 \o y
                               /\ y = <<>> => e.kind \in {"file", "link"}
                               /\ y # <<>> => e.kind = "dir"
    BY <1>8
  <2>2. ~Excluded(spec, rel2)
    BY <1>7, <2>1, WayFacts
  <2>3. CASE y # <<>>
    <3>1. Heads(at2, rel2, linked, w)
      BY <1>8, <2>1, <2>3 DEF Heads
    <3> QED BY <1>3, <2>1, <2>2, <2>3, <3>1 DEF enters, e, linked, VisitsWay
  <2>4. CASE y = <<>>
    <3>1. w.rel = rel2 /\ w.at = at2 /\ e.kind \in {"file", "link"}
      BY <1>2, <2>1, <2>4
    <3>2. ~enters
      <4> SUFFICES ASSUME e.kind = "link", o.follow, ~linked, IsRealDir(d, at2) PROVE FALSE
        BY <1>3
      <4>1. w.below = <<>>
        BY <1>8
      <4>2. PICK p : PlainWay(d, o, spec, p) /\ w = Way(p, <<>>, spec.root \o p)
        <5>1. ~ \E l, t, p : LinkedWay(d, o, spec, l, t, p) /\ w = Way(l \o p, l, t \o p)
          BY <4>1 DEF LinkedWay, LinkTo, Way
        <5> QED BY <5>1, WayIs
      <4>3. /\ p = rel2 /\ IsRealDir(d, spec.root) /\ p \in TreePaths /\ Top(d, spec) \o p \in DOMAIN d
            /\ d[Top(d, spec) \o p].kind \in {"file", "link"} /\ ~Enters(d, o, Top(d, spec) \o p) /\ p # <<>>
        BY <3>1, <4>2 DEF PlainWay, Way
      <4>4. IsRealDir(d, Top(d, spec) \o p) /\ Top(d, spec) \in TreePaths
        <5>1. at2 = spec.root \o p
          BY <1>4, <4>3
        <5>2. IsRealDir(d, spec.root \o p) = IsRealDir(d, Top(d, spec) \o p) /\ Top(d, spec) \in TreePaths
          BY <4>3, RootOn
        <5> QED BY <5>1, <5>2
      <4> DEFINE q == Top(d, spec) \o p
      <4>5. q \in TreePaths
        BY <4>3, <4>4, PathFacts
      <4>6. d[q].kind = "file"
        BY <4>3, <4>4 DEF Enters
      <4>7. IsPlace(d, q)
        BY <4>3, <4>6 DEF IsPlace
      <4>8. RealPath(d, q) = Found(q)
        <5> HIDE DEF q
        <5> QED BY <4>5, <4>7, PlaceIs
      <4>9. IsDirPlace(d, q)
        <5>1. RealPath(d, q).path = q
          BY <4>8 DEF Found
        <5>2. IsRealDir(d, q)
          BY <4>4
        <5> HIDE DEF q
        <5> QED BY <4>5, <5>1, <5>2, OutcomeIs
      <4>10. q = <<>>
        BY <4>6, <4>9 DEF IsDirPlace
      <4>11. q = <<>> <=> Top(d, spec) = <<>> /\ p = <<>>
        BY <4>3, <4>4, ConcatEqualIffEmpty DEF TreePaths
      <4> QED BY <4>3, <4>10, <4>11
    <3> QED BY <2>2, <3>1, <3>2 DEF enters, e, linked, VisitsWay
  <2> QED BY <2>3, <2>4
<1>9. CASE /\ ~linked /\ w.below # <<>>
           /\ \E y \in TreePaths : /\ w.below = rel2 \o y
                                   /\ y = <<>> => e.kind = "link"
                                   /\ y # <<>> => e.kind = "dir"
  <2>1. PICK y \in TreePaths : /\ w.below = rel2 \o y
                               /\ y = <<>> => e.kind = "link"
                               /\ y # <<>> => e.kind = "dir"
    BY <1>9
  <2>2. PICK l, t, p : LinkedWay(d, o, spec, l, t, p) /\ w = Way(l \o p, l, t \o p)
    <3>1. ~ \E p : PlainWay(d, o, spec, p) /\ w = Way(p, <<>>, spec.root \o p)
      BY <1>9 DEF Way
    <3> QED BY <3>1, WayIs
  <2>3. /\ w.below = l /\ w.rel = l \o p /\ w.at = t \o p /\ p \in TreePaths /\ p # <<>> /\ l \in TreePaths
        /\ Cleared(spec, <<>>, l) /\ IsRealDir(d, spec.root) /\ Enters(d, o, Top(d, spec) \o l)
        /\ t = RealPath(d, Top(d, spec) \o l).path
    BY <2>2 DEF LinkedWay, LinkTo, Way
  <2>4. ~Excluded(spec, rel2)
    BY <1>7, <2>1, <2>3
  <2>5. CASE y # <<>>
    <3>1. Heads(at2, rel2, linked, w)
      BY <1>9, <2>1, <2>5 DEF Heads
    <3> QED BY <1>3, <2>1, <2>4, <2>5, <3>1 DEF enters, e, linked, VisitsWay
  <2>6. CASE y = <<>>
    <3>1. l = rel2 /\ at2 = spec.root \o l /\ e.kind = "link"
      BY <1>2, <1>4, <1>9, <2>1, <2>3, <2>6
    <3>2. RealPath(d, at2) = RealPath(d, Top(d, spec) \o l) /\ IsRealDir(d, at2) = IsRealDir(d, Top(d, spec) \o l)
      BY <2>3, <3>1, RootOn
    <3>3. enters
      BY <1>3, <1>9, <2>3, <3>1, <3>2 DEF Enters
    <3>4. RealPath(d, at2).path = t
      BY <2>3, <3>2
    <3>5. Heads(RealPath(d, at2).path, rel2, TRUE, w)
      BY <1>9, <2>3, <3>1, <3>4 DEF Heads
    <3> QED BY <2>4, <3>1, <3>3, <3>5 DEF enters, e, linked, VisitsWay
  <2> QED BY <2>5, <2>6
<1> QED BY <1>6, <1>8, <1>9

(* ... and as long as the disk stays what it was, nothing but ways.        *)

(* A directory the walk reads while nothing changes on the disk.           *)
Stands(d, o, spec, at, rel, linked) ==
  /\ IsRealDir(d, spec.root) /\ rel \in TreePaths
  /\ \/ /\ ~linked /\ at = spec.root \o rel
        /\ Cleared(spec, <<>>, rel) /\ IsDirPlace(d, Top(d, spec) \o rel)
     \/ /\ linked
        /\ \E l, t : \E p \in TreePaths :
             /\ LinkTo(d, o, spec, l, t) /\ rel = l \o p /\ at = t \o p
             /\ Cleared(spec, l, p) /\ IsDirPlace(d, t \o p)

LEMMA StandsFirst ==
  ASSUME NEW d, IsTree(d), NEW o, NEW spec, spec.root \in TreePaths, IsRealDir(d, spec.root)
  PROVE  Stands(d, o, spec, spec.root, <<>>, FALSE)
<1>1. Top(d, spec) \in TreePaths /\ IsDirPlace(d, Top(d, spec))
  BY OutcomeIs DEF Top
<1>2. spec.root \o <<>> = spec.root /\ Top(d, spec) \o <<>> = Top(d, spec) /\ <<>> \in TreePaths
  BY <1>1, PathFacts
<1> QED BY <1>1, <1>2, ClearNone DEF Stands

LEMMA LinkToType ==
  ASSUME NEW d, IsTree(d), NEW o, NEW spec, spec.root \in TreePaths, NEW l, NEW t, LinkTo(d, o, spec, l, t)
  PROVE  /\ l \in TreePaths /\ t \in TreePaths /\ IsDirPlace(d, t)
         /\ RealPath(d, Top(d, spec) \o l) = Found(t)
<1>1. l \in TreePaths /\ Top(d, spec) \in TreePaths
  BY OutcomeIs DEF LinkTo, Top
<1>2. Top(d, spec) \o l \in TreePaths
  BY <1>1, PathFacts
<1>3. IsRealDir(d, Top(d, spec) \o l) /\ t = RealPath(d, Top(d, spec) \o l).path
  BY DEF LinkTo, Enters
<1> QED BY <1>1, <1>2, <1>3, OutcomeIs

VisitStands(d, o, spec, a, at, rel) ==
  /\ a.entry.kind = "dir" => Stands(d, o, spec, at, rel, a.linked)
  /\ EntersLink(d, o, a) => Stands(d, o, spec, RealPath(d, at).path, rel, TRUE)
  /\ a.entry.kind \in {"file", "link"} /\ ~EntersLink(d, o, a) =>
       \E w \in Ways(d, o, spec) : w.rel = rel /\ w.at = at

LEMMA StandsVisit ==
  ASSUME NEW d, IsTree(d), NEW o, NEW spec, spec.root \in TreePaths,
         NEW a, NEW at2, NEW rel2, Visited(spec, a, at2, rel2),
         Stands(d, o, spec, a.at, a.rel, a.linked), a.entry \in Entries(d, a.at), ~Excluded(spec, rel2)
  PROVE  VisitStands(d, o, spec, a, at2, rel2)
<1> DEFINE at == a.at
           rel == a.rel
           linked == a.linked
           e == a.entry
           n == e.name
           enters == EntersLink(d, o, a)
           top == Top(d, spec)
<1>1. /\ at \in TreePaths /\ rel \in TreePaths /\ linked \in BOOLEAN /\ n \in EntryNames
      /\ Stands(d, o, spec, at, rel, linked) /\ e \in Entries(d, at)
  BY DEF Visited
<1>0. at2 = Append(at, n) /\ rel2 = Append(rel, n)
  BY DEF Visited
<1>2. n \in EntryNames
  BY <1>1, EntriesType
<1>3. at2 \in TreePaths /\ rel2 \in TreePaths /\ rel2 # <<>> /\ <<>> \o rel2 = rel2 /\ <<>> \in TreePaths
  BY <1>0, <1>1, PathFacts
<1>4. enters <=> e.kind = "link" /\ o.follow /\ ~linked /\ IsRealDir(d, at2)
  BY <1>0 DEF EntersLink
<1>5. Append(RealPath(d, at).path, n) \in DOMAIN d /\ e.kind = d[Append(RealPath(d, at).path, n)].kind
  BY <1>1, EntriesType
<1>6. IsRealDir(d, spec.root)
  BY <1>1 DEF Stands
<1>7. top \in TreePaths
  BY <1>6, RootOn
<1>8. ~Excluded(spec, rel2)
  OBVIOUS
<1>z. e.name = n
  OBVIOUS
<1> HIDE DEF enters, n, top, at, rel, linked, e
<1>9. CASE ~linked
  <2>1. at = spec.root \o rel /\ Cleared(spec, <<>>, rel) /\ IsDirPlace(d, top \o rel)
    BY <1>1, <1>9 DEF Stands, top
  <2>2. RealPath(d, at) = Found(top \o rel)
    BY <1>1, <1>6, <2>1, RootOn DEF top
  <2>3. RealPath(d, at).path = top \o rel
    BY <2>2 DEF Found
  <2> DEFINE q == top \o rel2
  <2>4. Append(top \o rel, n) = q /\ at2 = spec.root \o rel2
    <3>1. top \o Append(rel, n) = Append(top \o rel, n)
      BY <1>1, <1>2, <1>7, JoinAppend
    <3>2. spec.root \o Append(rel, n) = Append(spec.root \o rel, n)
      BY <1>1, <1>2, JoinAppend
    <3> QED BY <1>0, <2>1, <3>1, <3>2
  <2>5. q \in DOMAIN d /\ e.kind = d[q].kind
    BY <1>5, <2>3, <2>4
  <2>6. Cleared(spec, <<>>, rel2)
    <3>1. Cleared(spec, <<>>, Append(rel, n)) <=> Cleared(spec, <<>>, rel2)
      BY ONLY <1>0
    <3>2. ~Excluded(spec, <<>> \o Append(rel, n))
      BY ONLY <1>0, <1>3, <1>8
    <3> QED BY <1>1, <1>2, <1>3, <2>1, <3>1, <3>2, ClearStep
  <2>7. RealPath(d, at2) = RealPath(d, q) /\ IsRealDir(d, at2) = IsRealDir(d, q)
    BY <1>3, <1>6, <2>4, RootOn DEF top
  <2> HIDE DEF q
  <2>8. e.kind = "dir" => Stands(d, o, spec, at2, rel2, linked)
    <3> SUFFICES ASSUME e.kind = "dir" PROVE Stands(d, o, spec, at2, rel2, linked)
      OBVIOUS
    <3>1. IsDirPlace(d, top \o rel2)
      BY <2>5 DEF IsDirPlace, q
    <3> QED BY <1>3, <1>6, <1>9, <2>4, <2>6, <3>1 DEF Stands, top
  <2>9. enters => Stands(d, o, spec, RealPath(d, at2).path, rel2, TRUE)
    <3> SUFFICES ASSUME enters PROVE Stands(d, o, spec, RealPath(d, at2).path, rel2, TRUE)
      OBVIOUS
    <3> DEFINE t == RealPath(d, q).path
    <3>1. Enters(d, o, q)
      BY <1>4, <2>5, <2>7 DEF Enters
    <3>2. LinkTo(d, o, spec, rel2, t)
      BY <1>3, <1>6, <2>5, <2>6, <3>1 DEF LinkTo, q, top
    <3>3. t \in TreePaths /\ IsDirPlace(d, t)
      BY <3>2, LinkToType
    <3>4. RealPath(d, at2).path = t
      BY <2>7
    <3> HIDE DEF t
    <3>5. t \o <<>> = t /\ rel2 \o <<>> = rel2
      BY <1>3, <3>3, PathFacts
    <3>6. Cleared(spec, rel2, <<>>)
      BY ClearNone
    <3> QED BY ONLY <1>3, <1>6, <3>2, <3>3, <3>4, <3>5, <3>6 DEF Stands
  <2>10. e.kind \in {"file", "link"} /\ ~enters => \E w \in Ways(d, o, spec) : w.rel = rel2 /\ w.at = at2
    <3> SUFFICES ASSUME e.kind \in {"file", "link"}, ~enters
                 PROVE  \E w \in Ways(d, o, spec) : w.rel = rel2 /\ w.at = at2
      OBVIOUS
    <3>1. ~Enters(d, o, q)
      BY <1>4, <1>9, <2>5, <2>7 DEF Enters
    <3>2. PlainWay(d, o, spec, rel2)
      BY <1>3, <1>6, <2>5, <2>6, <3>1 DEF PlainWay, q, top
    <3> DEFINE w == Way(rel2, <<>>, spec.root \o rel2)
    <3>3. w \in Ways(d, o, spec)
      BY <3>2, WayIs
    <3>4. w.rel = rel2 /\ w.at = at2
      BY <2>4 DEF Way
    <3> QED BY <3>3, <3>4
  <2> QED BY <2>8, <2>9, <2>10 DEF enters, e, linked, VisitStands
<1>10. CASE linked
  <2>1. PICK l, t : \E p \in TreePaths :
             /\ LinkTo(d, o, spec, l, t) /\ rel = l \o p /\ at = t \o p
             /\ Cleared(spec, l, p) /\ IsDirPlace(d, t \o p)
    BY <1>1, <1>10 DEF Stands
  <2>2. PICK p \in TreePaths :
             /\ LinkTo(d, o, spec, l, t) /\ rel = l \o p /\ at = t \o p
             /\ Cleared(spec, l, p) /\ IsDirPlace(d, t \o p)
    BY <2>1
  <2>3. l \in TreePaths /\ t \in TreePaths
    BY <2>2, LinkToType
  <2> DEFINE p2 == Append(p, n)
  <2>4. p2 \in TreePaths /\ p2 # <<>>
    BY <1>2, PathFacts
  <2>5. rel2 = l \o p2
    <3>1. l \o Append(p, n) = Append(l \o p, n)
      BY <1>2, <2>3, JoinAppend
    <3> QED BY <1>0, <2>2, <3>1
  <2>6. at2 = t \o p2
    <3>1. t \o Append(p, n) = Append(t \o p, n)
      BY <1>2, <2>3, JoinAppend
    <3> QED BY <1>0, <2>2, <3>1
  <2>7. RealPath(d, at).path = at
    <3>1. IsPlace(d, at)
      BY <2>2 DEF IsPlace, IsDirPlace
    <3>2. RealPath(d, at) = Found(at)
      BY <1>1, <3>1, PlaceIs
    <3> QED BY <3>2 DEF Found
  <2>8. at2 \in DOMAIN d /\ e.kind = d[at2].kind
    BY <1>0, <1>5, <2>7
  <2>9. Cleared(spec, l, p2)
    BY <1>2, <1>8, <2>2, <2>3, <2>5, ClearStep
  <2>10. ~enters
    BY <1>4, <1>10
  <2> HIDE DEF p2
  <2>11. e.kind = "dir" => Stands(d, o, spec, at2, rel2, linked)
    <3> SUFFICES ASSUME e.kind = "dir" PROVE Stands(d, o, spec, at2, rel2, linked)
      OBVIOUS
    <3>1. IsDirPlace(d, t \o p2)
      BY <2>6, <2>8 DEF IsDirPlace
    <3> QED BY <1>3, <1>6, <1>10, <2>2, <2>4, <2>5, <2>6, <2>9, <3>1 DEF Stands
  <2>12. e.kind \in {"file", "link"} => \E w \in Ways(d, o, spec) : w.rel = rel2 /\ w.at = at2
    <3> SUFFICES ASSUME e.kind \in {"file", "link"} PROVE \E w \in Ways(d, o, spec) : w.rel = rel2 /\ w.at = at2
      OBVIOUS
    <3>1. LinkedWay(d, o, spec, l, t, p2)
      BY <2>2, <2>4, <2>6, <2>8, <2>9 DEF LinkedWay
    <3> DEFINE w == Way(l \o p2, l, t \o p2)
    <3>2. w \in Ways(d, o, spec)
      BY <3>1, WayIs
    <3>3. w.rel = rel2 /\ w.at = at2
      BY <2>5, <2>6 DEF Way
    <3> QED BY <3>2, <3>3
  <2> QED BY <2>10, <2>11, <2>12 DEF enters, e, linked, VisitStands
<1> QED BY <1>9, <1>10

-----------------------------------------------------------------------------
(* The frames: what is ahead, and that no two of it are one above the other.*)

LEMMA Without ==
  ASSUME NEW S, NEW s \in Seq(S), NEW i \in 1 .. Len(s)
  PROVE  /\ RemoveAt(s, i) \in Seq(S)
         /\ Len(RemoveAt(s, i)) = Len(s) - 1
         /\ \A j \in 1 .. Len(s) - 1 : RemoveAt(s, i)[j] = IF j < i THEN s[j] ELSE s[j + 1]
<1>1. /\ SubSeq(s, 1, i - 1) \in Seq(S) /\ Len(SubSeq(s, 1, i - 1)) = i - 1
      /\ \A j \in 1 .. i - 1 : SubSeq(s, 1, i - 1)[j] = s[j]
  <2>1. \A j \in 1 .. i - 1 : s[j] \in S
    OBVIOUS
  <2> QED
    BY <2>1, SubSeqProperties
<1>2. /\ SubSeq(s, i + 1, Len(s)) \in Seq(S) /\ Len(SubSeq(s, i + 1, Len(s))) = Len(s) - i
      /\ \A j \in 1 .. Len(s) - i : SubSeq(s, i + 1, Len(s))[j] = s[i + j]
  <2>1. \A j \in i + 1 .. Len(s) : s[j] \in S
    OBVIOUS
  <2> QED
    BY <2>1, SubSeqProperties
<1> DEFINE front == SubSeq(s, 1, i - 1)
           rest == SubSeq(s, i + 1, Len(s))
<1>3. RemoveAt(s, i) = front \o rest
  BY DEF RemoveAt
<1>4. /\ front \in Seq(S) /\ Len(front) = i - 1 /\ \A j \in 1 .. i - 1 : front[j] = s[j]
      /\ rest \in Seq(S) /\ Len(rest) = Len(s) - i /\ \A j \in 1 .. Len(s) - i : rest[j] = s[i + j]
  BY <1>1, <1>2
<1> HIDE DEF front, rest
<1>5. /\ front \o rest \in Seq(S) /\ Len(front \o rest) = Len(s) - 1
      /\ \A j \in 1 .. Len(s) - 1 :
           (front \o rest)[j] = IF j <= Len(front) THEN front[j] ELSE rest[j - Len(front)]
  <2>1. /\ front \o rest \in Seq(S) /\ Len(front \o rest) = Len(front) + Len(rest)
        /\ \A j \in 1 .. Len(front) + Len(rest) :
             (front \o rest)[j] = IF j <= Len(front) THEN front[j] ELSE rest[j - Len(front)]
    BY <1>4, ConcatProperties
  <2>2. Len(front) + Len(rest) = Len(s) - 1
    BY <1>4
  <2> QED
    BY <2>1, <2>2
<1>6. \A j \in 1 .. Len(s) - 1 : (front \o rest)[j] = IF j < i THEN s[j] ELSE s[j + 1]
  <2> TAKE j \in 1 .. Len(s) - 1
  <2>1. CASE j < i
    BY <1>4, <1>5, <2>1
  <2>2. CASE ~(j < i)
    <3>1. j - (i - 1) \in 1 .. Len(s) - i /\ i + (j - (i - 1)) = j + 1 /\ ~(j <= i - 1)
      BY <2>2
    <3> QED
      BY <1>4, <1>5, <2>2, <3>1
  <2> QED
    BY <2>1, <2>2
<1> QED
  BY <1>3, <1>5, <1>6


-----------------------------------------------------------------------------
(* The walk's state.                                                       *)
Frames == [at : TreePaths, rel : TreePaths, linked : BOOLEAN,
           todo : SUBSET [name : EntryNames, kind : Kinds]]
AheadIn(f) == {Ahead(f.at, f.rel, f.linked, e) : e \in f.todo}
AheadOf(fs) == UNION {AheadIn(f) : f \in Range(fs)}
PathOf(a) == Append(a.rel, a.entry.name)

(* One path goes on from another; none of two goes on from the other.      *)
Leading(p, q) == \E y \in TreePaths : q = p \o y
Parted(p, q) == ~Leading(p, q) /\ ~Leading(q, p)
SingleNames(f) == \A e, g \in f.todo : e.name = g.name => e = g
Apart(fs) ==
  \A i, j \in 1 .. Len(fs) : \A a \in AheadIn(fs[i]), b \in AheadIn(fs[j]) :
    (i # j \/ a # b) => Parted(PathOf(a), PathOf(b))

LEMMA AheadType ==
  ASSUME NEW f \in Frames, NEW a \in AheadIn(f)
  PROVE  /\ a.at \in TreePaths /\ a.rel \in TreePaths /\ a.linked \in BOOLEAN /\ a.entry \in f.todo
         /\ a.entry \in [name : EntryNames, kind : Kinds] /\ a.entry.name \in EntryNames
         /\ a.at = f.at /\ a.rel = f.rel /\ a.linked = f.linked
         /\ PathOf(a) \in TreePaths /\ a = Ahead(a.at, a.rel, a.linked, a.entry)
<1>1. PICK e \in f.todo : a = Ahead(f.at, f.rel, f.linked, e)
  BY DEF AheadIn
<1>2. /\ f.at \in TreePaths /\ f.rel \in TreePaths /\ f.linked \in BOOLEAN
      /\ e \in [name : EntryNames, kind : Kinds]
  BY DEF Frames
<1>3. a.at = f.at /\ a.rel = f.rel /\ a.linked = f.linked /\ a.entry = e
  BY <1>1 DEF Ahead
<1>4. PathOf(a) \in TreePaths
  BY <1>2, <1>3, PathFacts DEF PathOf
<1> QED BY <1>1, <1>2, <1>3, <1>4

LEMMA LeadingAppend ==
  ASSUME NEW p \in TreePaths, NEW q \in TreePaths, NEW n \in EntryNames, Leading(p, Append(q, n))
  PROVE  Leading(p, q) \/ p = Append(q, n)
<1>1. PICK y \in TreePaths : Append(q, n) = p \o y
  BY DEF Leading
<1>2. CASE y = <<>>
  BY <1>1, <1>2, PathFacts
<1>3. CASE y # <<>>
  <2>1. PICK c \in TreePaths, m \in EntryNames : y = Append(c, m)
    BY <1>3, PathEnd
  <2>2. p \o y = Append(p \o c, m)
    BY <2>1, JoinAppend
  <2>3. p \o c \in TreePaths
    BY PathFacts
  <2>4. Front(Append(q, n)) = q
    BY FrontLast DEF TreePaths
  <2>5. Front(Append(p \o c, m)) = p \o c
    BY <2>3, FrontLast DEF TreePaths
  <2>6. q = p \o c
    BY <1>1, <2>2, <2>4, <2>5
  <2> QED BY <2>6 DEF Leading
<1> QED BY <1>2, <1>3

LEMMA AppendLeading ==
  ASSUME NEW p \in TreePaths, NEW q \in TreePaths, NEW n \in EntryNames, Leading(Append(p, n), q)
  PROVE  Leading(p, q)
<1>1. PICK y \in TreePaths : q = Append(p, n) \o y
  BY DEF Leading
<1>2. q = p \o (<<n>> \o y)
  BY <1>1, JoinAppend
<1>3. <<n>> \o y \in TreePaths
  BY PathFacts
<1> QED BY <1>2, <1>3 DEF Leading

LEMMA PartedBelow ==
  ASSUME NEW p \in TreePaths, NEW q \in TreePaths, NEW n \in EntryNames, Parted(p, q)
  PROVE  Parted(Append(p, n), q) /\ Parted(q, Append(p, n))
<1>1. ~Leading(Append(p, n), q)
  BY AppendLeading DEF Parted
<1>2. ~Leading(q, Append(p, n))
  <2> SUFFICES ASSUME Leading(q, Append(p, n)) PROVE FALSE
    OBVIOUS
  <2>1. q = Append(p, n)
    BY LeadingAppend DEF Parted
  <2>2. q = p \o <<n>> /\ <<n>> \in TreePaths
    BY <2>1, PathFacts
  <2> QED BY <2>2 DEF Parted, Leading
<1> QED BY <1>1, <1>2 DEF Parted

(* The entries of one directory.                                           *)
LEMMA Siblings ==
  ASSUME NEW p \in TreePaths, NEW m \in EntryNames, NEW n \in EntryNames, m # n
  PROVE  Parted(Append(p, m), Append(p, n))
<1>1. ASSUME NEW j \in EntryNames, NEW k \in EntryNames, j # k, Leading(Append(p, j), Append(p, k)) PROVE FALSE
  <2>1. Append(p, j) \in TreePaths /\ Append(p, j) # <<>>
    BY PathFacts
  <2>2. CASE Leading(Append(p, j), p)
    <3>1. PICK y \in TreePaths : p = Append(p, j) \o y
      BY <2>2 DEF Leading
    <3>2. p = p \o (<<j>> \o y) /\ <<j>> \o y \in TreePaths
      BY <3>1, JoinAppend, PathFacts
    <3>3. <<j>> \o y = <<>>
      BY <3>2, ConcatEqualIffEmpty DEF TreePaths
    <3> QED BY <3>3, ConcatEqualIffEmpty, PathFacts DEF TreePaths
  <2>3. CASE Append(p, j) = Append(p, k)
    BY <1>1, <2>3, AppendSame
  <2> QED BY <1>1, <2>1, <2>2, <2>3, LeadingAppend
<1> QED BY <1>1 DEF Parted

(* Frames on a stack.                                                      *)
LEMMA PushIs ==
  ASSUME NEW f \in Frames, NEW fs \in Seq(Frames), NEW gs, gs = Push(f, fs)
  PROVE  /\ gs \in Seq(Frames) /\ AheadOf(gs) = AheadIn(f) \cup AheadOf(fs)
         /\ (\A g \in Range(fs) : g.todo # {}) => \A g \in Range(gs) : g.todo # {}
<1>1. CASE f.todo = {}
  <2>1. gs = fs /\ AheadIn(f) = {}
    BY <1>1 DEF Push, AheadIn
  <2> QED BY <2>1
<1>2. CASE f.todo # {}
  <2>1. gs = <<f>> \o fs /\ <<f>> \in Seq(Frames)
    BY <1>2 DEF Push
  <2>2. gs \in Seq(Frames)
    BY <2>1, ConcatProperties
  <2>3. Range(gs) = Range(<<f>>) \cup Range(fs)
    <3> DEFINE one == <<f>>
    <3>1. gs = one \o fs /\ one \in Seq(Frames)
      BY <2>1
    <3> HIDE DEF one
    <3>2. Range(gs) = Range(one) \cup Range(fs)
      BY <3>1, RangeConcat
    <3> QED BY <3>2 DEF one
  <2>4. Range(<<f>>) = {f}
    BY DEF Range
  <2>5. Range(gs) = {f} \cup Range(fs)
    BY <2>3, <2>4
  <2>6. AheadOf(gs) = AheadIn(f) \cup AheadOf(fs)
    BY <2>5 DEF AheadOf
  <2> QED BY <1>2, <2>2, <2>5, <2>6
<1> QED BY <1>1, <1>2

LEMMA PopIs ==
  ASSUME NEW fs \in Seq(Frames), fs # <<>>
  PROVE  /\ Head(fs) \in Frames /\ Tail(fs) \in Seq(Frames)
         /\ AheadOf(fs) = AheadIn(Head(fs)) \cup AheadOf(Tail(fs))
         /\ Head(fs) \in Range(fs) /\ Range(Tail(fs)) \subseteq Range(fs)
<1>1. Range(fs) = {Head(fs)} \cup Range(Tail(fs))
  BY RangeSplit
<1>2. Head(fs) \in Frames /\ Tail(fs) \in Seq(Frames)
  BY HeadTail
<1> QED BY <1>1, <1>2 DEF AheadOf

LEMMA ApartPush ==
  ASSUME NEW f \in Frames, NEW fs \in Seq(Frames), Apart(fs), SingleNames(f),
         \A a \in AheadIn(f), b \in AheadOf(fs) : Parted(PathOf(a), PathOf(b))
  PROVE  Apart(Push(f, fs))
<1>1. CASE f.todo = {}
  BY <1>1 DEF Push
<1>2. CASE f.todo # {}
  <2> DEFINE gs == <<f>> \o fs
             k == Len(fs)
  <2>1. Push(f, fs) = gs
    BY <1>2 DEF Push
  <2>2. k \in Nat /\ Len(gs) = k + 1 /\ gs[1] = f /\ \A i \in 2 .. k + 1 : gs[i] = fs[i - 1]
    <3>1. <<f>> \in Seq(Frames) /\ Len(<<f>>) = 1 /\ <<f>>[1] = f
      OBVIOUS
    <3>2. /\ Len(gs) = Len(<<f>>) + Len(fs) /\ Len(fs) \in Nat
          /\ \A i \in 1 .. Len(<<f>>) + Len(fs) :
               gs[i] = IF i <= Len(<<f>>) THEN <<f>>[i] ELSE fs[i - Len(<<f>>)]
      BY <3>1, ConcatProperties
    <3> QED BY <3>1, <3>2
  <2>3. \A i \in 1 .. k : AheadIn(fs[i]) \subseteq AheadOf(fs)
    BY DEF AheadOf, Range
  <2> HIDE DEF gs, k
  <2>4. ASSUME NEW i \in 1 .. Len(gs), NEW j \in 1 .. Len(gs), NEW a \in AheadIn(gs[i]), NEW b \in AheadIn(gs[j]),
               i # j \/ a # b
        PROVE  Parted(PathOf(a), PathOf(b))
    <3>1. CASE i = 1 /\ j = 1
      <4>1. a \in AheadIn(f) /\ b \in AheadIn(f) /\ a # b
        BY <2>2, <2>4, <3>1
      <4>2. a.rel = f.rel /\ b.rel = f.rel /\ f.rel \in TreePaths
            /\ a.entry.name \in EntryNames /\ b.entry.name \in EntryNames
        BY <4>1, AheadType
      <4>3. a.entry # b.entry /\ a.entry \in f.todo /\ b.entry \in f.todo
        BY <4>1, AheadType
      <4>4. a.entry.name # b.entry.name
        BY <4>3 DEF SingleNames
      <4> QED BY <4>2, <4>4, Siblings DEF PathOf
    <3>2. CASE i = 1 /\ j # 1
      <4>1. j \in 2 .. k + 1 /\ j - 1 \in 1 .. k
        BY <2>2, <3>2
      <4>2. b \in AheadOf(fs) /\ a \in AheadIn(f)
        BY <2>2, <2>3, <2>4, <3>2, <4>1
      <4> QED BY <4>2
    <3>3. CASE i # 1 /\ j = 1
      <4>1. i \in 2 .. k + 1 /\ i - 1 \in 1 .. k
        BY <2>2, <3>3
      <4>2. a \in AheadOf(fs) /\ b \in AheadIn(f)
        BY <2>2, <2>3, <2>4, <3>3, <4>1
      <4> QED BY <4>2 DEF Parted
    <3>4. CASE i # 1 /\ j # 1
      <4>1. i \in 2 .. k + 1 /\ i - 1 \in 1 .. k /\ j \in 2 .. k + 1 /\ j - 1 \in 1 .. k
            /\ (i # j => i - 1 # j - 1)
        BY <2>2, <3>4
      <4>2. a \in AheadIn(fs[i - 1]) /\ b \in AheadIn(fs[j - 1])
        BY <2>2, <2>4, <4>1
      <4> QED BY <2>4, <4>1, <4>2 DEF Apart, k
    <3> QED BY <3>1, <3>2, <3>3, <3>4
  <2> QED BY <2>1, <2>4 DEF Apart
<1> QED BY <1>1, <1>2

LEMMA ApartPop ==
  ASSUME NEW fs \in Seq(Frames), fs # <<>>, Apart(fs)
  PROVE  /\ Apart(Tail(fs)) /\ SingleNames(Head(fs))
         /\ \A a \in AheadIn(Head(fs)), b \in AheadOf(Tail(fs)) : Parted(PathOf(a), PathOf(b))
<1> DEFINE k == Len(fs)
           ts == Tail(fs)
           f == Head(fs)
<1>1. k \in Nat /\ k >= 1 /\ Len(ts) = k - 1 /\ ts \in Seq(Frames) /\ f = fs[1] /\ f \in Frames
      /\ \A i \in 1 .. k - 1 : ts[i] = fs[i + 1]
  <2>1. Len(fs) # 0
    BY EmptySeq
  <2> QED BY <2>1, HeadTailProperties, LenProperties
<1>2. \A b \in AheadOf(ts) : \E j \in 1 .. k - 1 : b \in AheadIn(ts[j])
  BY <1>1 DEF AheadOf, Range
<1> HIDE DEF ts, f, k
<1>3. ASSUME NEW i \in 1 .. Len(ts), NEW j \in 1 .. Len(ts), NEW a \in AheadIn(ts[i]), NEW b \in AheadIn(ts[j]),
             i # j \/ a # b
      PROVE  Parted(PathOf(a), PathOf(b))
  <2>1. i + 1 \in 1 .. k /\ j + 1 \in 1 .. k /\ (i # j => i + 1 # j + 1) /\ i \in 1 .. k - 1 /\ j \in 1 .. k - 1
    BY <1>1
  <2>2. a \in AheadIn(fs[i + 1]) /\ b \in AheadIn(fs[j + 1])
    BY <1>1, <1>3, <2>1
  <2> QED BY <1>3, <2>1, <2>2 DEF Apart, k
<1>4. ASSUME NEW a \in AheadIn(f), NEW b \in AheadOf(ts) PROVE Parted(PathOf(a), PathOf(b))
  <2>1. PICK j \in 1 .. k - 1 : b \in AheadIn(ts[j])
    BY <1>2
  <2>2. 1 \in 1 .. k /\ j + 1 \in 1 .. k /\ 1 # j + 1
    BY <1>1
  <2>3. a \in AheadIn(fs[1]) /\ b \in AheadIn(fs[j + 1])
    BY <1>1, <1>4, <2>1
  <2> QED BY <2>2, <2>3 DEF Apart, k
<1>5. ASSUME NEW e \in f.todo, NEW g \in f.todo, e.name = g.name PROVE e = g
  <2> DEFINE a == Ahead(f.at, f.rel, f.linked, e)
             b == Ahead(f.at, f.rel, f.linked, g)
  <2>1. a \in AheadIn(f) /\ b \in AheadIn(f)
    BY DEF AheadIn
  <2>2. a.entry = e /\ b.entry = g /\ a.rel = f.rel /\ b.rel = f.rel
    BY DEF Ahead
  <2> HIDE DEF a, b
  <2>3. PathOf(a) = PathOf(b) /\ PathOf(a) \in TreePaths
    BY <1>1, <1>5, <2>1, <2>2, AheadType DEF PathOf
  <2>4. Leading(PathOf(a), PathOf(b))
    BY <2>3, PathFacts DEF Leading
  <2>5. 1 \in 1 .. k
    BY <1>1
  <2>6. a = b
    BY <1>1, <2>1, <2>4, <2>5 DEF Apart, Parted, k
  <2> QED BY <2>2, <2>6
<1> QED BY <1>3, <1>4, <1>5 DEF Apart, SingleNames, ts, f

(* Taking the first entry, and entering a directory.                       *)

LEMMA FirstEntryIs ==
  ASSUME NEW todo \in SUBSET [name : EntryNames, kind : Kinds], todo # {}
  PROVE  FirstEntry(todo) \in todo
<1>1. \A n \in EntryNames : NameRank(n) \in Nat
  <2> SUFFICES ASSUME NEW n \in EntryNames PROVE NameRank(n) \in Nat
    OBVIOUS
  <2>1. \E i \in DOMAIN NameOrder : NameOrder[i] = n
    BY DEF EntryNames, Range
  <2>2. NameRank(n) \in DOMAIN NameOrder
    BY <2>1 DEF NameRank
  <2>3. DOMAIN NameOrder = 1 .. Len(NameOrder)
    BY SelectionAssumption
  <2>4. Len(NameOrder) \in Nat
    BY SelectionAssumption, LenProperties
  <2> QED BY <2>2, <2>3, <2>4
<1> DEFINE S == {NameRank(e.name) : e \in todo}
<1>2. S \in SUBSET Nat /\ S # {}
  BY <1>1
<1>3. PICK r \in S : \A n \in S : r <= n
  BY <1>2, LeastNat
<1>4. PICK e \in todo : r = NameRank(e.name)
  BY <1>3
<1>5. \A f \in todo : NameRank(e.name) <= NameRank(f.name)
  BY <1>3, <1>4
<1> QED BY <1>4, <1>5 DEF FirstEntry

(* The next entry, and what is left without it.                            *)
Upcoming == LET f == Head(frames) IN Ahead(f.at, f.rel, f.linked, FirstEntry(f.todo))

LEMMA RestIs ==
  ASSUME frames \in Seq(Frames), frames # <<>>, \A f \in Range(frames) : f.todo # {}, Apart(frames)
  PROVE  /\ Upcoming \in AheadOf(frames) /\ Upcoming \in AheadIn(Head(frames)) /\ Head(frames) \in Frames
         /\ Upcoming.at = Head(frames).at /\ Upcoming.rel = Head(frames).rel
         /\ Upcoming.linked = Head(frames).linked /\ Upcoming.entry = FirstEntry(Head(frames).todo)
         /\ Rest \in Seq(Frames) /\ (\A f \in Range(Rest) : f.todo # {}) /\ Apart(Rest)
         /\ AheadOf(frames) = {Upcoming} \cup AheadOf(Rest)
         /\ \A b \in AheadOf(Rest) : Parted(PathOf(Upcoming), PathOf(b))
<1> DEFINE f == Head(frames)
           ts == Tail(frames)
           e == FirstEntry(f.todo)
           g == [f EXCEPT !.todo = f.todo \ {e}]
<1>1. /\ f \in Frames /\ ts \in Seq(Frames) /\ f.todo # {}
      /\ AheadOf(frames) = AheadIn(f) \cup AheadOf(ts) /\ Range(ts) \subseteq Range(frames)
  BY PopIs
<1>2. /\ Apart(ts) /\ SingleNames(f)
      /\ \A a \in AheadIn(f), b \in AheadOf(ts) : Parted(PathOf(a), PathOf(b))
  BY ApartPop
<1>3. Rest = Push(g, ts)
  BY DEF Rest
<1>4. f.todo \in SUBSET [name : EntryNames, kind : Kinds]
  BY <1>1 DEF Frames
<1>5. e \in f.todo
  BY <1>1, <1>4, FirstEntryIs
<1>6. g \in Frames /\ g.todo = f.todo \ {e} /\ g.at = f.at /\ g.rel = f.rel /\ g.linked = f.linked
  BY <1>1, <1>4 DEF Frames
<1>7. Upcoming = Ahead(f.at, f.rel, f.linked, e)
  BY DEF Upcoming
<1>n. Upcoming.at = f.at /\ Upcoming.rel = f.rel /\ Upcoming.linked = f.linked /\ Upcoming.entry = e
  BY <1>7 DEF Ahead
<1> HIDE DEF g, e, f, ts
<1>8. Upcoming \in AheadIn(f) /\ AheadIn(f) = {Upcoming} \cup AheadIn(g)
  BY <1>5, <1>6, <1>7 DEF AheadIn
<1>9. AheadIn(g) \subseteq AheadIn(f) /\ SingleNames(g)
  BY <1>2, <1>6, <1>8 DEF SingleNames
<1>10. ASSUME NEW b \in AheadIn(g) PROVE Parted(PathOf(Upcoming), PathOf(b))
  <2>1. b.entry \in g.todo /\ b.rel = f.rel /\ b.entry.name \in EntryNames /\ f.rel \in TreePaths
        /\ Upcoming.entry.name \in EntryNames
    BY <1>1, <1>6, <1>8, AheadType
  <2>2. b.entry # e /\ b.entry \in f.todo
    BY <1>6, <2>1
  <2>3. b.entry.name # e.name
    BY <1>2, <1>5, <2>2 DEF SingleNames
  <2> QED BY <1>n, <2>1, <2>3, Siblings DEF PathOf
<1>11. Rest \in Seq(Frames) /\ AheadOf(Rest) = AheadIn(g) \cup AheadOf(ts) /\ \A h \in Range(Rest) : h.todo # {}
  BY <1>1, <1>3, <1>6, PushIs
<1>12. Apart(Rest)
  BY <1>1, <1>2, <1>3, <1>6, <1>9, ApartPush
<1>13. AheadOf(frames) = {Upcoming} \cup AheadOf(Rest)
  BY <1>1, <1>8, <1>11
<1>14. \A b \in AheadOf(Rest) : Parted(PathOf(Upcoming), PathOf(b))
  BY <1>2, <1>8, <1>10, <1>11
<1> QED BY <1>1, <1>8, <1>n, <1>11, <1>12, <1>13, <1>14 DEF f, e

LEMMA FrameIs ==
  ASSUME NEW d, IsTree(d), NEW at \in TreePaths, NEW rel \in TreePaths, NEW linked \in BOOLEAN
  PROVE  /\ Frame(d, at, rel, linked) \in Frames /\ SingleNames(Frame(d, at, rel, linked))
         /\ \A a : a \in AheadIn(Frame(d, at, rel, linked)) <=>
                     \E e \in Entries(d, at) : a = Ahead(at, rel, linked, e)
         /\ \A e \in Entries(d, at) : e.name \in EntryNames
         /\ \A e \in Entries(d, at) :
              Ahead(at, rel, linked, e).at = at /\ Ahead(at, rel, linked, e).rel = rel
              /\ Ahead(at, rel, linked, e).linked = linked /\ Ahead(at, rel, linked, e).entry = e
<1> DEFINE f == Frame(d, at, rel, linked)
<1>1. f.at = at /\ f.rel = rel /\ f.linked = linked /\ f.todo = Entries(d, at)
  BY DEF Frame
<1>2. Entries(d, at) \in SUBSET [name : EntryNames, kind : Kinds] /\ \A e \in Entries(d, at) : e.name \in EntryNames
  BY EntriesType
<1>3. f \in Frames
  BY <1>2 DEF Frame, Frames
<1>4. SingleNames(f)
  <2> SUFFICES ASSUME NEW e \in Entries(d, at), NEW g \in Entries(d, at), e.name = g.name PROVE e = g
    BY <1>1 DEF SingleNames
  <2>1. e = [name |-> e.name, kind |-> e.kind] /\ e.kind = d[Append(RealPath(d, at).path, e.name)].kind
    BY EntriesType
  <2>2. g = [name |-> g.name, kind |-> g.kind] /\ g.kind = d[Append(RealPath(d, at).path, g.name)].kind
    BY EntriesType
  <2> QED BY <2>1, <2>2
<1>5. \A a : a \in AheadIn(f) <=> \E e \in Entries(d, at) : a = Ahead(at, rel, linked, e)
  BY <1>1 DEF AheadIn
<1>6. \A e : Ahead(at, rel, linked, e).at = at /\ Ahead(at, rel, linked, e).rel = rel
              /\ Ahead(at, rel, linked, e).linked = linked /\ Ahead(at, rel, linked, e).entry = e
  BY DEF Ahead
<1> QED BY <1>2, <1>3, <1>4, <1>5, <1>6

(* A directory pushed in the place of the entry it is.                     *)
Stack(fs) == fs \in Seq(Frames) /\ (\A f \in Range(fs) : f.todo # {}) /\ Apart(fs)
RoomFor(rel, fs) == \A b \in AheadOf(fs) : Parted(rel, PathOf(b))

LEMMA EnterIs ==
  ASSUME NEW d, IsTree(d), NEW at \in TreePaths, NEW rel \in TreePaths, NEW linked \in BOOLEAN,
         NEW fs, Stack(fs), RoomFor(rel, fs), NEW gs, gs = Push(Frame(d, at, rel, linked), fs)
  PROVE  /\ Stack(gs)
         /\ \A a : a \in AheadOf(gs) <=> a \in AheadOf(fs) \/ \E e \in Entries(d, at) : a = Ahead(at, rel, linked, e)
<1> DEFINE f == Frame(d, at, rel, linked)
<1>g. gs = Push(f, fs)
  OBVIOUS
<1>s. fs \in Seq(Frames) /\ (\A g \in Range(fs) : g.todo # {}) /\ Apart(fs)
      /\ \A b \in AheadOf(fs) : Parted(rel, PathOf(b))
  BY DEF Stack, RoomFor
<1>1. f \in Frames /\ SingleNames(f)
  BY FrameIs
<1>2. \A a : a \in AheadIn(f) <=> \E e \in Entries(d, at) : a = Ahead(at, rel, linked, e)
  BY FrameIs
<1>3. \A b \in AheadOf(fs) : PathOf(b) \in TreePaths
  <2>1. \A g \in Range(fs) : g \in Frames
    BY <1>s, RangeType
  <2> QED BY <2>1, AheadType DEF AheadOf
<1>4. \A a \in AheadIn(f) : \E n \in EntryNames : PathOf(a) = Append(rel, n)
  BY <1>2, FrameIs DEF PathOf
<1> HIDE DEF f
<1>5. ASSUME NEW a \in AheadIn(f), NEW b \in AheadOf(fs) PROVE Parted(PathOf(a), PathOf(b))
  <2>1. PICK n \in EntryNames : PathOf(a) = Append(rel, n)
    BY <1>4
  <2> QED BY <1>s, <1>3, <2>1, PartedBelow
<1>6. Apart(gs)
  <2>1. Apart(Push(f, fs))
    BY <1>s, <1>1, <1>5, ApartPush
  <2> QED BY ONLY <2>1, <1>g
<1>7. gs \in Seq(Frames) /\ AheadOf(gs) = AheadIn(f) \cup AheadOf(fs) /\ \A g \in Range(gs) : g.todo # {}
  BY <1>s, <1>1, <1>g, PushIs
<1> QED BY <1>2, <1>6, <1>7 DEF Stack

-----------------------------------------------------------------------------
(* The invariant.                                                          *)

Snippets == {Snippet(Values[f].lines) : f \in DOMAIN Values} \cup {<<>>}
Jobs == [at : TreePaths, shown : TreePaths, root : Nat]
Rows == [shown : TreePaths, root : Nat, file : DOMAIN Values \cup {"leaf"}, rank : Int, snippet : Snippets]

RootCount == Len(option.roots)
RootAt(i) == option.roots[i]
HasRow(i, s) == \E n \in 1 .. Len(rows) : rows[n].root = i /\ rows[n].shown = s
HasJob(i, s, at) == \E n \in 1 .. Len(queued) : queued[n].root = i /\ queued[n].shown = s /\ queued[n].at = at
Same(x, y) == x.root = y.root /\ x.shown = y.shown

WalkShape ==
  /\ frames \in Seq(Frames) /\ queued \in Seq(Jobs)
  /\ CurrentRoot \in 1 .. RootCount /\ specs = SubSeq(FirstSpecs, CurrentRoot, RootCount)
  /\ phase = "begun" => CurrentRoot = 1 /\ frames = <<>> /\ queued = <<>> /\ rows = <<>>
  /\ \A n \in 1 .. Len(rows) : rows[n].root \in 1 .. CurrentRoot
  /\ \A n \in 1 .. Len(queued) : queued[n].root \in 1 .. CurrentRoot
  /\ \A f \in Range(frames) : f.todo # {}
  /\ Apart(frames)
  /\ \A a \in AheadOf(frames) : ~a.linked => a.at = RootAt(CurrentRoot) \o a.rel
RowsOnce == \A m, n \in 1 .. Len(rows) : Same(rows[m], rows[n]) => m = n
JobsOnce ==
  /\ \A m, n \in 1 .. Len(queued) : Same(queued[m], queued[n]) => m = n
  /\ \A m \in 1 .. Len(rows), n \in 1 .. Len(queued) : ~Same(rows[m], queued[n])
(* Nothing ahead is, or is above, what has been taken.                     *)
Untaken(a, t) == t.root = CurrentRoot => ~Leading(RootAt(CurrentRoot) \o PathOf(a), t.shown)
AheadOnce ==
  \A a \in AheadOf(frames) : /\ \A n \in 1 .. Len(rows) : Untaken(a, rows[n])
                             /\ \A n \in 1 .. Len(queued) : Untaken(a, queued[n])
(* Every way of a root that has been begun is taken, or lies ahead.        *)
Covered(i, w) ==
  \/ HasRow(i, RootAt(i) \o w.rel)
  \/ HasJob(i, RootAt(i) \o w.rel, w.at)
  \/ i = CurrentRoot /\ \E a \in AheadOf(frames) : Leads(a, w)
WaysOf(d, i) == Ways(d, option, FirstSpecs[i])
WalkComplete ==
  phase = "walking" =>
    \A i \in 1 .. CurrentRoot : \A w \in WaysOf(firstDisk, i) \cap WaysOf(disk, i) : Covered(i, w)
(* As long as the disk is what it was, there is nothing but ways.          *)
WalkSound ==
  disk = firstDisk =>
    /\ \A a \in AheadOf(frames) :
         /\ Stands(disk, option, FirstSpecs[CurrentRoot], a.at, a.rel, a.linked)
         /\ a.entry \in Entries(disk, a.at)
    /\ \A n \in 1 .. Len(queued) : \E w \in WaysOf(disk, queued[n].root) :
         queued[n].shown = RootAt(queued[n].root) \o w.rel /\ queued[n].at = w.at
    /\ \A n \in 1 .. Len(rows) : \E w \in WaysOf(disk, rows[n].root) :
         rows[n].shown = RootAt(rows[n].root) \o w.rel

Given == /\ IsTree(disk) /\ IsTree(firstDisk) /\ option \in WalkOptions /\ rows \in Seq(Rows)
         /\ phase \in {"begun", "walking", "hung", "scored", "arranged"}
Going == phase \in {"begun", "walking"}
Walking == WalkShape /\ RowsOnce /\ JobsOnce /\ AheadOnce /\ WalkComplete /\ WalkSound
SelectionInv ==
  /\ Given
  /\ Going => Walking
  /\ HungOnlyBy
  /\ phase = "scored" => RowsOnce /\ \E a \in Arrangements : returned = [rows |-> <<>>, asked |-> {a}]
  /\ Arranged

-----------------------------------------------------------------------------
LEMMA OptionType ==
  ASSUME option \in WalkOptions
  PROVE  /\ option.roots \in Seq(TreePaths) /\ RootCount \in Nat /\ RootCount >= 1 /\ option.follow \in BOOLEAN
         /\ \A i \in 1 .. RootCount : RootAt(i) \in TreePaths
<1>1. option.roots \in Seq(TreePaths) /\ option.roots # <<>> /\ option.follow \in BOOLEAN
  BY SelectionAssumption
<1>2. Len(option.roots) \in Nat /\ Len(option.roots) # 0
  BY <1>1, LenProperties, EmptySeq
<1>3. \A i \in 1 .. Len(option.roots) : option.roots[i] \in TreePaths
  BY <1>1
<1> QED BY <1>1, <1>2, <1>3 DEF RootCount, RootAt

LEMMA SpecsIs ==
  ASSUME option \in WalkOptions
  PROVE  /\ FirstSpecs \in Seq(Range(FirstSpecs)) /\ Len(FirstSpecs) = RootCount
         /\ \A i \in 1 .. RootCount : FirstSpecs[i].root = RootAt(i) /\ FirstSpecs[i].root \in TreePaths
<1>1. FirstSpecs = [i \in 1 .. RootCount |-> NewExcluder(firstDisk, option, RootAt(i))]
  BY DEF FirstSpecs, BuildWalkSpecs, RootCount, RootAt
<1>2. RootCount \in Nat /\ \A i \in 1 .. RootCount : RootAt(i) \in TreePaths
  BY OptionType
<1>3. \A i \in 1 .. RootCount : FirstSpecs[i] = NewExcluder(firstDisk, option, RootAt(i))
  BY <1>1
<1>4. \A i \in 1 .. RootCount : FirstSpecs[i].root = RootAt(i)
  <2>1. \A r : NewExcluder(firstDisk, option, r).root = r
    BY DEF NewExcluder
  <2> QED BY <1>3, <2>1
<1>5. DOMAIN FirstSpecs = 1 .. RootCount
  BY <1>1
<1>6. FirstSpecs \in [1 .. RootCount -> Range(FirstSpecs)]
  BY <1>1, <1>5 DEF Range
<1>7. FirstSpecs \in Seq(Range(FirstSpecs)) /\ Len(FirstSpecs) = RootCount
  <2> HIDE DEF FirstSpecs
  <2> QED BY <1>2, <1>6
<1> QED BY <1>2, <1>4, <1>7

LEMMA HeadSpec ==
  ASSUME option \in WalkOptions, NEW c \in 1 .. RootCount, NEW ss, ss = SubSeq(FirstSpecs, c, RootCount)
  PROVE  /\ ss # <<>> /\ Head(ss) = FirstSpecs[c] /\ Len(ss) = RootCount - c + 1
         /\ Head(ss).root = RootAt(c) /\ Head(ss).root \in TreePaths
         /\ Tail(ss) = SubSeq(FirstSpecs, c + 1, RootCount)
<1> DEFINE F == FirstSpecs
           S == Range(FirstSpecs)
           k == RootCount
<1>1. F \in Seq(S) /\ Len(F) = k /\ k \in Nat /\ c \in 1 .. k
  BY SpecsIs, OptionType
<1>2. F[c].root = RootAt(c) /\ F[c].root \in TreePaths
  BY SpecsIs
<1> HIDE DEF F, S, k
<1>3. \A i \in c .. k : F[i] \in S
  BY <1>1
<1>4. c \in Int /\ k \in Int /\ c <= k /\ k \in c .. k
  BY <1>1
<1>5. SubSeq(F, c, k) \in Seq(S) /\ Len(SubSeq(F, c, k)) = k - c + 1
  BY <1>3, <1>4, SubSeqProperties
<1>6. Head(SubSeq(F, c, k)) = F[c] /\ Tail(SubSeq(F, c, k)) = SubSeq(F, c + 1, k)
  BY <1>1, <1>4, HeadTailOfSubSeq
<1>7. SubSeq(F, c, k) # <<>>
  <2>1. k - c + 1 # 0
    BY <1>4
  <2> QED BY <1>5, <2>1
<1> QED BY <1>2, <1>5, <1>6, <1>7 DEF F, S, k

LEMMA CurrentIs ==
  ASSUME option \in WalkOptions, WalkShape
  PROVE  /\ specs # <<>> /\ Head(specs) = FirstSpecs[CurrentRoot] /\ CurrentRoot \in 1 .. RootCount
         /\ Head(specs).root = RootAt(CurrentRoot) /\ RootAt(CurrentRoot) \in TreePaths
         /\ RootCount \in Nat
<1>1. CurrentRoot \in 1 .. RootCount /\ specs = SubSeq(FirstSpecs, CurrentRoot, RootCount)
  BY DEF WalkShape
<1> QED BY <1>1, HeadSpec, OptionType

LEMMA SelectionStarts ==
  ASSUME SelectionInit
  PROVE  SelectionInv
<1>1. PICK d \in DiskTrees, o \in WalkOptions : SelectionStart(d, o)
  BY DEF SelectionInit
<1>2. /\ disk = d /\ firstDisk = d /\ option = o /\ specs = BuildWalkSpecs(d, o)
      /\ frames = <<>> /\ queued = <<>> /\ rows = <<>> /\ phase = "begun"
  BY <1>1 DEF SelectionStart
<1>3. IsTree(disk) /\ IsTree(firstDisk) /\ option \in WalkOptions
  BY <1>2, SelectionAssumption
<1>4. Given
  BY <1>2, <1>3 DEF Given
<1>5. AheadOf(frames) = {} /\ Range(frames) = {} /\ Len(rows) = 0 /\ Len(queued) = 0 /\ Len(frames) = 0
  BY <1>2, RangeEmpty DEF AheadOf
<1>6. WalkShape
  <2>1. specs = FirstSpecs
    BY <1>2 DEF FirstSpecs
  <2>2. FirstSpecs \in Seq(Range(FirstSpecs)) /\ Len(FirstSpecs) = RootCount /\ RootCount \in Nat /\ RootCount >= 1
    BY <1>3, SpecsIs, OptionType
  <2>3. CurrentRoot = 1
    BY <2>1, <2>2 DEF CurrentRoot, RootCount
  <2>4. specs = SubSeq(FirstSpecs, 1, RootCount)
    BY <2>1, <2>2, SubSeqFull
  <2>5. Apart(frames)
    BY <1>5 DEF Apart
  <2> QED BY <1>2, <1>5, <2>2, <2>3, <2>4, <2>5 DEF WalkShape
<1>7. RowsOnce /\ JobsOnce /\ AheadOnce /\ WalkComplete /\ WalkSound
  BY <1>2, <1>5 DEF RowsOnce, JobsOnce, AheadOnce, WalkComplete, WalkSound
<1>8. HungOnlyBy /\ Arranged
  BY <1>2 DEF HungOnlyBy, Arranged
<1> QED BY <1>2, <1>4, <1>6, <1>7, <1>8 DEF SelectionInv, Walking

-----------------------------------------------------------------------------
(* A root is opened.                                                       *)

LEMMA WayHeads ==
  ASSUME NEW d, IsTree(d), NEW o, NEW spec, spec.root \in TreePaths, NEW w \in Ways(d, o, spec)
  PROVE  Heads(spec.root, <<>>, FALSE, w)
<1>1. CASE \E p : PlainWay(d, o, spec, p) /\ w = Way(p, <<>>, spec.root \o p)
  <2>1. PICK p : PlainWay(d, o, spec, p) /\ w = Way(p, <<>>, spec.root \o p)
    BY <1>1
  <2>2. w.below = <<>> /\ w.rel = p /\ w.at = spec.root \o p /\ p \in TreePaths /\ p # <<>>
    BY <2>1 DEF PlainWay, Way
  <2>3. p = <<>> \o p
    BY <2>2, PathFacts
  <2> QED BY <2>2, <2>3 DEF Heads
<1>2. CASE \E l, t, p : LinkedWay(d, o, spec, l, t, p) /\ w = Way(l \o p, l, t \o p)
  <2>1. PICK l, t, p : LinkedWay(d, o, spec, l, t, p) /\ w = Way(l \o p, l, t \o p)
    BY <1>2
  <2>2. w.below = l /\ l \in TreePaths /\ l # <<>>
    BY <2>1 DEF LinkedWay, LinkTo, Way
  <2>3. l = <<>> \o l
    BY <2>2, PathFacts
  <2> QED BY <2>2, <2>3 DEF Heads
<1>3. \/ \E p : PlainWay(d, o, spec, p) /\ w = Way(p, <<>>, spec.root \o p)
      \/ \E l, t, p : LinkedWay(d, o, spec, l, t, p) /\ w = Way(l \o p, l, t \o p)
  BY WayIs
<1> QED BY <1>1, <1>2, <1>3

LEMMA OpenStep ==
  ASSUME SelectionInv, OpenRoot
  PROVE  SelectionInv'
<1> DEFINE c == CurrentRoot
           c2 == CurrentRoot'
           root == RootAt(c2)
           left == IF phase = "begun" THEN specs ELSE Tail(specs)
<1>1. /\ Given /\ Walking /\ WalkShape /\ phase \in {"begun", "walking"} /\ frames = <<>>
      /\ phase = "walking" => Len(specs) > 1
  BY DEF SelectionInv, OpenRoot, Going, Walking
<1>2. /\ specs' = left /\ frames' = Push(Frame(disk, Head(left).root, <<>>, FALSE), <<>>)
      /\ phase' = "walking" /\ disk' = disk /\ option' = option /\ rows' = rows /\ returned' = returned
      /\ firstDisk' = firstDisk /\ queued' = queued
  BY DEF OpenRoot, unwalked
<1>3. /\ IsTree(disk) /\ IsTree(firstDisk) /\ option \in WalkOptions /\ rows \in Seq(Rows)
      /\ c \in 1 .. RootCount /\ specs = SubSeq(FirstSpecs, c, RootCount) /\ RootCount \in Nat
      /\ queued \in Seq(Jobs) /\ (phase = "begun" => c = 1 /\ queued = <<>> /\ rows = <<>>)
      /\ (\A n \in 1 .. Len(rows) : rows[n].root \in 1 .. c)
      /\ (\A n \in 1 .. Len(queued) : queued[n].root \in 1 .. c)
  BY <1>1, OptionType DEF Given, WalkShape
<1>4. Len(specs) = RootCount - c + 1 /\ Tail(specs) = SubSeq(FirstSpecs, c + 1, RootCount)
  BY <1>3, HeadSpec
<1>5. /\ c2 \in 1 .. RootCount /\ left = SubSeq(FirstSpecs, c2, RootCount) /\ RootCount' = RootCount
      /\ (phase = "begun" => c2 = 1) /\ (phase = "walking" => c2 = c + 1)
  <2>1. RootCount' = RootCount /\ c2 = RootCount + 1 - Len(left)
    BY <1>2 DEF CurrentRoot, RootCount
  <2>2. CASE phase = "begun"
    BY <1>3, <1>4, <2>1, <2>2
  <2>3. CASE phase = "walking"
    <3>1. c + 1 \in 1 .. RootCount
      BY <1>1, <1>3, <1>4, <2>3
    <3>2. left = SubSeq(FirstSpecs, c + 1, RootCount)
      BY <1>4, <2>3
    <3>3. Len(left) = RootCount - (c + 1) + 1
      <4> DEFINE k == c + 1
      <4>1. k \in 1 .. RootCount /\ left = SubSeq(FirstSpecs, k, RootCount)
        BY <3>1, <3>2
      <4> HIDE DEF k, left
      <4>2. Len(left) = RootCount - k + 1
        BY <1>3, <4>1, HeadSpec
      <4> QED BY <4>2 DEF k, left
    <3>4. c \in Int /\ RootCount \in Int
      BY <1>3
    <3> HIDE DEF left, c
    <3>5. c2 = c + 1
      BY <2>1, <3>3, <3>4
    <3> QED BY <2>1, <2>3, <3>1, <3>2, <3>5
  <2> QED BY <1>1, <2>2, <2>3
<1>6. Head(left) = FirstSpecs[c2] /\ Head(left).root = root /\ root \in TreePaths
  BY <1>3, <1>5, HeadSpec
<1>7. FirstSpecs' = FirstSpecs /\ \A i : RootAt(i)' = RootAt(i)
  BY <1>2 DEF FirstSpecs, RootAt
<1>8. /\ frames' \in Seq(Frames) /\ (\A f \in Range(frames') : f.todo # {}) /\ Apart(frames')
      /\ \A a : a \in AheadOf(frames') <=> \E e \in Entries(disk, root) : a = Ahead(root, <<>>, FALSE, e)
  <2>1. <<>> \in Seq(Frames) /\ Range(<<>>) = {} /\ AheadOf(<<>>) = {} /\ Apart(<<>>) /\ <<>> \in TreePaths
    BY RangeEmpty, PathFacts DEF AheadOf, Apart
  <2>2. frames' = Push(Frame(disk, root, <<>>, FALSE), <<>>)
    BY <1>2, <1>6
  <2> HIDE DEF root
  <2> DEFINE none == <<>>
             at == root
             no == FALSE
             rel == <<>>
             gs == frames'
  <2>3. /\ Stack(none) /\ no \in BOOLEAN /\ at \in TreePaths /\ rel \in TreePaths /\ RoomFor(rel, none)
    BY <1>6, <2>1 DEF Stack, RoomFor
  <2>4. gs = Push(Frame(disk, at, rel, no), none)
    BY <2>2
  <2> HIDE DEF none, at, no, rel, gs
  <2>5. /\ Stack(gs)
        /\ \A a : a \in AheadOf(gs) <=> a \in AheadOf(none) \/ \E e \in Entries(disk, at) : a = Ahead(at, rel, no, e)
    BY <1>3, <2>3, <2>4, EnterIs
  <2> QED BY <2>1, <2>5 DEF none, at, no, rel, gs, Stack
<1> HIDE DEF c, c2, root, left
<1>9. c2 = CurrentRoot' /\ c = CurrentRoot /\ root = RootAt(c2)
  BY DEF c, c2, root
<1>10. Given'
  BY <1>1, <1>2 DEF Given
<1>11. \A a \in AheadOf(frames') : a.at = root /\ a.rel = <<>> /\ ~a.linked /\ a.entry \in Entries(disk, root)
  BY <1>8 DEF Ahead
<1>12. \A i \in 1 .. c : i \in 1 .. c2 /\ (phase = "walking" => i # c2)
  BY <1>1, <1>3, <1>5
<1>13. \A n \in 1 .. Len(rows) : rows[n].root \in 1 .. c2 /\ rows[n].root # c2
  <2>1. CASE phase = "begun"
    BY <1>3, <2>1
  <2>2. CASE phase = "walking"
    BY <1>3, <1>12, <2>2
  <2> QED BY <1>1, <2>1, <2>2
<1>14. \A n \in 1 .. Len(queued) : queued[n].root \in 1 .. c2 /\ queued[n].root # c2
  <2>1. CASE phase = "begun"
    BY <1>3, <2>1
  <2>2. CASE phase = "walking"
    BY <1>3, <1>12, <2>2
  <2> QED BY <1>1, <2>1, <2>2
<1>15. WalkShape'
  <2>1. \A a \in AheadOf(frames') : a.at = RootAt(c2) \o a.rel
    <3>1. root \o <<>> = root
      BY <1>6, PathFacts
    <3> QED BY <1>9, <1>11, <3>1
  <2>2. specs' = SubSeq(FirstSpecs', c2, RootCount')
    BY <1>2, <1>5, <1>7
  <2>3. frames' \in Seq(Frames) /\ queued' \in Seq(Jobs) /\ c2 \in 1 .. RootCount'
    BY <1>2, <1>3, <1>5, <1>8
  <2>4. (\A n \in 1 .. Len(rows') : rows'[n].root \in 1 .. c2) /\ \A n \in 1 .. Len(queued') : queued'[n].root \in 1 .. c2
    BY <1>2, <1>13, <1>14
  <2>5. \A a \in AheadOf(frames') : ~a.linked => a.at = RootAt(CurrentRoot)' \o a.rel
    <3>1. RootAt(CurrentRoot)' = RootAt(c2)
      BY <1>2, <1>9 DEF RootAt
    <3> QED BY <2>1, <3>1
  <2> QED BY <1>2, <1>8, <1>9, <2>2, <2>3, <2>4, <2>5 DEF WalkShape
<1>16. RowsOnce' /\ JobsOnce'
  BY <1>1, <1>2 DEF Walking, RowsOnce, JobsOnce
<1>17. AheadOnce'
  BY <1>2, <1>9, <1>13, <1>14 DEF AheadOnce, Untaken
<1>18. WalkComplete'
  <2> SUFFICES ASSUME NEW i \in 1 .. c2, NEW w \in WaysOf(firstDisk, i) \cap WaysOf(disk, i)
               PROVE  \/ HasRow(i, RootAt(i) \o w.rel)
                      \/ HasJob(i, RootAt(i) \o w.rel, w.at)
                      \/ i = c2 /\ \E a \in AheadOf(frames') : Leads(a, w)
    <3>1. ASSUME NEW i, NEW w,
                 \/ HasRow(i, RootAt(i) \o w.rel)
                 \/ HasJob(i, RootAt(i) \o w.rel, w.at)
                 \/ i = c2 /\ \E a \in AheadOf(frames') : Leads(a, w)
          PROVE  Covered(i, w)'
      BY <1>2, <1>7, <1>9, <3>1 DEF Covered, HasRow, HasJob
    <3>2. \A i : WaysOf(firstDisk, i)' = WaysOf(firstDisk, i) /\ WaysOf(disk, i)' = WaysOf(disk, i)
      BY <1>2, <1>7 DEF WaysOf
    <3> QED BY <1>9, <3>1, <3>2 DEF WalkComplete
  <2>1. CASE i = c2
    <3>1. w \in Ways(disk, option, FirstSpecs[c2]) /\ FirstSpecs[c2].root = root
      BY <1>6, <2>1 DEF WaysOf
    <3>2. Heads(root, <<>>, FALSE, w)
      BY <1>3, <1>6, <3>1, WayHeads
    <3>3. <<>> \in TreePaths /\ root \o <<>> = root
      BY <1>6, PathFacts
    <3>4. PICK e \in Entries(disk, root) : Leads(Ahead(root, <<>>, FALSE, e), w)
      <4> DEFINE no == FALSE
                 rel == <<>>
                 spec == FirstSpecs[c2]
      <4>1. /\ no \in BOOLEAN /\ rel \in TreePaths /\ spec.root \in TreePaths /\ root = spec.root \o rel
            /\ Heads(root, rel, no, w) /\ w \in Ways(disk, option, spec) /\ root \in TreePaths
        BY <1>6, <3>1, <3>2, <3>3
      <4> HIDE DEF no, rel, spec
      <4>2. \E e \in Entries(disk, root) : Leads(Ahead(root, rel, no, e), w)
        BY <1>3, <4>1, Opens
      <4> QED BY <4>2 DEF no, rel
    <3> QED BY <1>8, <2>1, <3>4
  <2>2. CASE i # c2
    <3>1. phase = "walking" /\ i \in 1 .. c
      BY <1>1, <1>3, <1>5, <2>2
    <3>2. Covered(i, w)
      BY <1>1, <1>9, <3>1 DEF Walking, WalkComplete
    <3>3. AheadOf(frames) = {}
      BY <1>1, RangeEmpty DEF AheadOf
    <3> QED BY <3>2, <3>3 DEF Covered
  <2> QED BY <2>1, <2>2
<1>19. WalkSound'
  <2> SUFFICES ASSUME disk = firstDisk PROVE WalkSound'
    BY <1>2 DEF WalkSound
  <2>1. /\ \A n \in 1 .. Len(queued) : \E w \in WaysOf(disk, queued[n].root) :
             queued[n].shown = RootAt(queued[n].root) \o w.rel /\ queued[n].at = w.at
        /\ \A n \in 1 .. Len(rows) : \E w \in WaysOf(disk, rows[n].root) :
             rows[n].shown = RootAt(rows[n].root) \o w.rel
    BY <1>1 DEF Walking, WalkSound
  <2>2. ASSUME NEW a \in AheadOf(frames')
        PROVE  Stands(disk, option, FirstSpecs[c2], a.at, a.rel, a.linked) /\ a.entry \in Entries(disk, a.at)
    <3>1. a \in AheadOf(frames') /\ \E e \in Entries(disk, root) : a = Ahead(root, <<>>, FALSE, e)
      BY <1>8, <2>2
    <3>2. PICK e \in Entries(disk, root) : a = Ahead(root, <<>>, FALSE, e)
      BY <3>1
    <3>3. a.at = root /\ a.rel = <<>> /\ a.linked = FALSE /\ a.entry = e
      BY <3>2 DEF Ahead
    <3>4. IsRealDir(disk, root)
      BY <1>3, <1>6, EntriesType
    <3>5. Stands(disk, option, FirstSpecs[c2], root, <<>>, FALSE)
      BY <1>3, <1>6, <3>4, StandsFirst
    <3> QED BY <3>3, <3>5
  <2> QED BY <1>2, <1>7, <1>9, <2>1, <2>2 DEF WalkSound, WaysOf
<1>20. HungOnlyBy' /\ Arranged' /\ (phase # "scored")'
  BY <1>2 DEF HungOnlyBy, Arranged
<1> QED BY <1>10, <1>15, <1>16, <1>17, <1>18, <1>19, <1>20 DEF SelectionInv, Walking

-----------------------------------------------------------------------------
(* An entry is visited: what it may come to ...                            *)

AtOf(a) == Append(a.at, a.entry.name)
(* What becomes of the next entry: nothing, a directory or a job.          *)
Skips(d, spec) ==
  /\ frames' = Rest /\ queued' = queued
  /\ \A w \in Ways(d, option, spec) : ~Leads(Upcoming, w)
Descended(d, spec, at, linked) ==
  /\ at \in TreePaths /\ linked \in BOOLEAN /\ queued' = queued
  /\ frames' = Push(Frame(d, at, PathOf(Upcoming), linked), Rest)
  /\ ~linked => at = spec.root \o PathOf(Upcoming)
  /\ \A w \in Ways(d, option, spec) : Leads(Upcoming, w) => Heads(at, PathOf(Upcoming), linked, w)
  /\ disk = firstDisk => Stands(d, option, spec, at, PathOf(Upcoming), linked)
Queues(d, spec) ==
  /\ frames' = Rest
  /\ queued' = Append(queued, [at |-> AtOf(Upcoming), shown |-> spec.root \o PathOf(Upcoming), root |-> CurrentRoot])
  /\ AtOf(Upcoming) \in TreePaths
  /\ \A w \in Ways(d, option, spec) : Leads(Upcoming, w) => w.rel = PathOf(Upcoming) /\ w.at = AtOf(Upcoming)
  /\ disk = firstDisk => \E w \in Ways(d, option, spec) : w.rel = PathOf(Upcoming) /\ w.at = AtOf(Upcoming)

LEMMA VisitParts ==
  ASSUME SelectionInv, VisitEntry
  PROVE  /\ Given /\ Walking /\ phase = "walking" /\ frames # <<>> /\ Stack(frames)
         /\ option \in WalkOptions /\ IsTree(disk) /\ IsTree(firstDisk)
         /\ Head(specs) = FirstSpecs[CurrentRoot] /\ Head(specs).root = RootAt(CurrentRoot)
         /\ Head(specs).root \in TreePaths /\ CurrentRoot \in 1 .. RootCount
         /\ Upcoming \in AheadOf(frames)
         /\ Upcoming.at \in TreePaths /\ Upcoming.rel \in TreePaths /\ Upcoming.linked \in BOOLEAN
         /\ Upcoming.entry.name \in EntryNames /\ PathOf(Upcoming) \in TreePaths /\ AtOf(Upcoming) \in TreePaths
         /\ Upcoming.entry.kind \in Kinds
         /\ Upcoming = Ahead(Upcoming.at, Upcoming.rel, Upcoming.linked, Upcoming.entry)
         /\ ~Upcoming.linked => Upcoming.at = Head(specs).root \o Upcoming.rel
         /\ Stack(Rest) /\ RoomFor(PathOf(Upcoming), Rest) /\ AheadOf(frames) = {Upcoming} \cup AheadOf(Rest)
         /\ disk' = disk /\ option' = option /\ rows' = rows /\ returned' = returned
         /\ firstDisk' = firstDisk /\ specs' = specs /\ phase' = phase
         /\ disk = firstDisk => /\ Stands(disk, option, Head(specs), Upcoming.at, Upcoming.rel, Upcoming.linked)
                                /\ Upcoming.entry \in Entries(disk, Upcoming.at)
<1>1. phase = "walking" /\ frames # <<>>
      /\ disk' = disk /\ option' = option /\ rows' = rows /\ returned' = returned
      /\ firstDisk' = firstDisk /\ specs' = specs /\ phase' = phase
  BY DEF VisitEntry, unwalked
<1>2. Given /\ Walking /\ WalkShape
  BY <1>1 DEF SelectionInv, Going, Walking
<1>3. option \in WalkOptions /\ IsTree(disk) /\ IsTree(firstDisk)
  BY <1>2 DEF Given
<1>4. /\ Head(specs) = FirstSpecs[CurrentRoot] /\ Head(specs).root = RootAt(CurrentRoot)
      /\ Head(specs).root \in TreePaths /\ CurrentRoot \in 1 .. RootCount
  BY <1>2, <1>3, CurrentIs
<1>5. frames \in Seq(Frames) /\ (\A f \in Range(frames) : f.todo # {}) /\ Apart(frames)
      /\ \A a \in AheadOf(frames) : ~a.linked => a.at = RootAt(CurrentRoot) \o a.rel
  BY <1>2 DEF WalkShape
<1>6. /\ Upcoming \in AheadOf(frames) /\ Upcoming \in AheadIn(Head(frames)) /\ Head(frames) \in Frames
      /\ Rest \in Seq(Frames) /\ (\A f \in Range(Rest) : f.todo # {}) /\ Apart(Rest)
      /\ AheadOf(frames) = {Upcoming} \cup AheadOf(Rest)
      /\ \A b \in AheadOf(Rest) : Parted(PathOf(Upcoming), PathOf(b))
  BY <1>1, <1>5, RestIs
<1>7. /\ Upcoming.at \in TreePaths /\ Upcoming.rel \in TreePaths /\ Upcoming.linked \in BOOLEAN
      /\ Upcoming.entry \in [name : EntryNames, kind : Kinds]
      /\ Upcoming.entry.name \in EntryNames /\ PathOf(Upcoming) \in TreePaths
      /\ Upcoming = Ahead(Upcoming.at, Upcoming.rel, Upcoming.linked, Upcoming.entry)
  BY <1>6, AheadType
<1>8. AtOf(Upcoming) \in TreePaths /\ Upcoming.entry.kind \in Kinds
  BY <1>7, PathFacts DEF AtOf
<1>9. ~Upcoming.linked => Upcoming.at = Head(specs).root \o Upcoming.rel
  BY <1>4, <1>5, <1>6
<1>10. disk = firstDisk => /\ Stands(disk, option, Head(specs), Upcoming.at, Upcoming.rel, Upcoming.linked)
                           /\ Upcoming.entry \in Entries(disk, Upcoming.at)
  BY <1>2, <1>4, <1>6 DEF Walking, WalkSound
<1> QED BY <1>1, <1>2, <1>3, <1>4, <1>5, <1>6, <1>7, <1>8, <1>9, <1>10 DEF Stack, RoomFor

LEMMA VisitCases ==
  ASSUME SelectionInv, VisitEntry
  PROVE  \/ Skips(disk, Head(specs))
         \/ \E at, linked : Descended(disk, Head(specs), at, linked)
         \/ Queues(disk, Head(specs))
<1> DEFINE a == Upcoming
           spec == Head(specs)
           e == Upcoming.entry
           rel2 == PathOf(a)
           at2 == AtOf(a)
           enters == EntersLink(disk, option, a)
<1>1. /\ IsTree(disk) /\ spec.root \in TreePaths /\ a = Ahead(a.at, a.rel, a.linked, e)
      /\ a.at \in TreePaths /\ a.rel \in TreePaths /\ a.linked \in BOOLEAN /\ e.name \in EntryNames
      /\ rel2 \in TreePaths /\ at2 \in TreePaths /\ e.kind \in Kinds
      /\ ~a.linked => a.at = spec.root \o a.rel
      /\ disk = firstDisk => Stands(disk, option, spec, a.at, a.rel, a.linked) /\ e \in Entries(disk, a.at)
  BY VisitParts
<1>2. frames \in Seq(Frames) /\ frames # <<>> /\ (\A f \in Range(frames) : f.todo # {}) /\ Apart(frames)
  BY VisitParts DEF Stack
<1>3. a.at = Head(frames).at /\ a.rel = Head(frames).rel /\ a.linked = Head(frames).linked
      /\ e = FirstEntry(Head(frames).todo)
  BY <1>2, RestIs
<1>4. rel2 = Append(a.rel, e.name) /\ at2 = Append(a.at, e.name)
  BY DEF PathOf, AtOf
<1>5. enters <=> e.kind = "link" /\ option.follow /\ ~a.linked /\ IsRealDir(disk, at2)
  BY <1>4 DEF EntersLink
<1>6. \/ /\ Excluded(spec, rel2) \/ e.kind = "special"
         /\ frames' = Rest /\ queued' = queued
      \/ /\ ~Excluded(spec, rel2) /\ e.kind = "dir"
         /\ frames' = Push(Frame(disk, at2, rel2, a.linked), Rest) /\ queued' = queued
      \/ /\ ~Excluded(spec, rel2) /\ enters
         /\ frames' = Push(Frame(disk, RealPath(disk, at2).path, rel2, TRUE), Rest) /\ queued' = queued
      \/ /\ ~Excluded(spec, rel2) /\ e.kind \in {"file", "link"} /\ ~enters
         /\ frames' = Rest
         /\ queued' = Append(queued, [at |-> at2, shown |-> spec.root \o rel2, root |-> CurrentRoot])
  <2>1. VisitEntry
    OBVIOUS
  <2> HIDE DEF a, e, rel2, at2, enters, spec
  <2> QED BY <2>1, <1>3, <1>4, <1>5 DEF VisitEntry, spec
<1>v. Visited(spec, a, at2, rel2)
  BY <1>1, <1>4 DEF Visited
<1>7. ASSUME NEW w \in Ways(disk, option, spec), Leads(a, w)
      PROVE  /\ ~Excluded(spec, rel2) /\ e.kind \in {"dir", "file", "link"}
             /\ e.kind = "dir" => Heads(at2, rel2, a.linked, w)
             /\ enters => Heads(RealPath(disk, at2).path, rel2, TRUE, w)
             /\ e.kind # "dir" /\ ~enters => w.rel = rel2 /\ w.at = at2
  <2> HIDE DEF a, spec, at2, rel2
  <2>1. VisitsWay(disk, option, spec, w, a, at2, rel2)
    BY <1>1, <1>7, <1>v, Visits
  <2> QED BY <2>1 DEF VisitsWay, a
<1>8. ASSUME disk = firstDisk, ~Excluded(spec, rel2)
      PROVE  /\ e.kind = "dir" => Stands(disk, option, spec, at2, rel2, a.linked)
             /\ enters => Stands(disk, option, spec, RealPath(disk, at2).path, rel2, TRUE)
             /\ e.kind \in {"file", "link"} /\ ~enters =>
                  \E w \in Ways(disk, option, spec) : w.rel = rel2 /\ w.at = at2
  <2>1. Stands(disk, option, spec, a.at, a.rel, a.linked) /\ a.entry \in Entries(disk, a.at)
    BY <1>1, <1>8
  <2> HIDE DEF a, spec, at2, rel2
  <2>2. VisitStands(disk, option, spec, a, at2, rel2)
    BY <1>1, <1>8, <1>v, <2>1, StandsVisit
  <2> QED BY <2>2 DEF VisitStands, a
<1>9. ~a.linked => at2 = spec.root \o rel2
  <2>1. spec.root \o Append(a.rel, e.name) = Append(spec.root \o a.rel, e.name)
    BY <1>1, JoinAppend
  <2> QED BY <1>1, <1>4, <2>1
<1>10. RealPath(disk, at2).path \in TreePaths
  BY <1>1, OutcomeIs
<1> HIDE DEF e, rel2, at2, enters, spec
<1>11. CASE /\ Excluded(spec, rel2) \/ e.kind = "special"
            /\ frames' = Rest /\ queued' = queued
  <2>1. Skips(disk, spec)
    BY <1>7, <1>11 DEF Skips
  <2> QED BY <2>1 DEF spec
<1>12. CASE /\ ~Excluded(spec, rel2) /\ e.kind = "dir"
            /\ frames' = Push(Frame(disk, at2, rel2, a.linked), Rest) /\ queued' = queued
  <2>1. Descended(disk, spec, at2, a.linked)
    BY <1>1, <1>7, <1>8, <1>9, <1>12 DEF Descended, rel2
  <2> QED BY <2>1 DEF spec
<1>13. CASE /\ ~Excluded(spec, rel2) /\ enters
            /\ frames' = Push(Frame(disk, RealPath(disk, at2).path, rel2, TRUE), Rest) /\ queued' = queued
  <2>1. Descended(disk, spec, RealPath(disk, at2).path, TRUE)
    BY <1>7, <1>8, <1>10, <1>13 DEF Descended, rel2
  <2> QED BY <2>1 DEF spec
<1>14. CASE /\ ~Excluded(spec, rel2) /\ e.kind \in {"file", "link"} /\ ~enters
            /\ frames' = Rest
            /\ queued' = Append(queued, [at |-> at2, shown |-> spec.root \o rel2, root |-> CurrentRoot])
  <2>1. Queues(disk, spec)
    BY <1>1, <1>7, <1>8, <1>14 DEF Queues, rel2, at2
  <2> QED BY <2>1 DEF spec
<1> QED BY <1>6, <1>11, <1>12, <1>13, <1>14

(* ... an entry that is left out ...                                       *)

LEMMA LeadingJoin ==
  ASSUME NEW r \in TreePaths, NEW p \in TreePaths, NEW q \in TreePaths, Leading(r \o p, r \o q)
  PROVE  Leading(p, q)
<1>1. PICK y \in TreePaths : r \o q = (r \o p) \o y
  BY DEF Leading
<1>2. (r \o p) \o y = r \o (p \o y) /\ p \o y \in TreePaths
  <2>1. p \o y \in TreePaths
    BY PathFacts
  <2> QED BY <2>1, JoinJoin
<1> DEFINE z == p \o y
<1>3. r \o q = r \o z /\ z \in TreePaths
  BY <1>1, <1>2
<1> HIDE DEF z
<1>4. q = z
  BY <1>3, ConcatSimplifications DEF TreePaths
<1> QED BY <1>4 DEF Leading, z

LEMMA VisitSame ==
  ASSUME SelectionInv, VisitEntry
  PROVE  /\ CurrentRoot' = CurrentRoot /\ FirstSpecs' = FirstSpecs /\ RootCount' = RootCount
         /\ \A i : RootAt(i)' = RootAt(i)
         /\ \A i : WaysOf(disk, i)' = WaysOf(disk, i) /\ WaysOf(firstDisk, i)' = WaysOf(firstDisk, i)
         /\ Given' /\ HungOnlyBy' /\ Arranged' /\ (phase # "scored")' /\ RowsOnce'
         /\ RootAt(CurrentRoot) \in TreePaths /\ RootAt(CurrentRoot)' = RootAt(CurrentRoot)
<1>1. /\ Given /\ phase = "walking" /\ Walking /\ CurrentRoot \in 1 .. RootCount
      /\ disk' = disk /\ option' = option /\ rows' = rows /\ returned' = returned
      /\ firstDisk' = firstDisk /\ specs' = specs /\ phase' = phase
      /\ Head(specs).root = RootAt(CurrentRoot) /\ Head(specs).root \in TreePaths
  BY VisitParts
<1>2. CurrentRoot' = CurrentRoot /\ FirstSpecs' = FirstSpecs /\ RootCount' = RootCount
  BY <1>1 DEF CurrentRoot, FirstSpecs, RootCount
<1>3. \A i : RootAt(i)' = RootAt(i)
  BY <1>1 DEF RootAt
<1>4. \A i : WaysOf(disk, i)' = WaysOf(disk, i) /\ WaysOf(firstDisk, i)' = WaysOf(firstDisk, i)
  BY <1>1, <1>2 DEF WaysOf
<1>5. Given' /\ HungOnlyBy' /\ Arranged' /\ (phase # "scored")' /\ RowsOnce'
  BY <1>1 DEF Given, HungOnlyBy, Arranged, RowsOnce, Walking
<1>6. RootAt(CurrentRoot)' = RootAt(CurrentRoot)
  BY <1>1, <1>2 DEF RootAt
<1> QED BY <1>1, <1>2, <1>3, <1>4, <1>5, <1>6

LEMMA VisitShape ==
  ASSUME SelectionInv, VisitEntry, Stack(frames'), queued' \in Seq(Jobs),
         \A n \in 1 .. Len(queued') : queued'[n].root \in 1 .. CurrentRoot,
         \A a \in AheadOf(frames') : ~a.linked => a.at = RootAt(CurrentRoot) \o a.rel
  PROVE  WalkShape'
<1>1. /\ phase = "walking" /\ WalkShape /\ rows' = rows /\ specs' = specs /\ phase' = phase
  BY VisitParts DEF Walking
<1>2. /\ CurrentRoot' = CurrentRoot /\ FirstSpecs' = FirstSpecs /\ RootCount' = RootCount
      /\ RootAt(CurrentRoot)' = RootAt(CurrentRoot)
  BY VisitSame
<1>3. CurrentRoot' \in 1 .. RootCount' /\ specs' = SubSeq(FirstSpecs', CurrentRoot', RootCount')
  BY <1>1, <1>2 DEF WalkShape
<1>4. \A n \in 1 .. Len(rows') : rows'[n].root \in 1 .. CurrentRoot'
  BY <1>1, <1>2 DEF WalkShape
<1>5. \A n \in 1 .. Len(queued') : queued'[n].root \in 1 .. CurrentRoot'
  BY <1>2
<1>6. \A a \in AheadOf(frames') : ~a.linked => a.at = RootAt(CurrentRoot)' \o a.rel
  BY <1>2
<1>7. frames' \in Seq(Frames) /\ (\A f \in Range(frames') : f.todo # {}) /\ Apart(frames')
  BY DEF Stack
<1>8. phase' # "begun"
  BY <1>1
<1> QED BY <1>3, <1>4, <1>5, <1>6, <1>7, <1>8 DEF WalkShape

(* What holds of the entries that remain, whatever becomes of the next.    *)
LEMMA Remaining ==
  ASSUME SelectionInv, VisitEntry, NEW b \in AheadOf(Rest)
  PROVE  /\ b \in AheadOf(frames) /\ PathOf(b) \in TreePaths /\ Parted(PathOf(Upcoming), PathOf(b))
         /\ ~b.linked => b.at = RootAt(CurrentRoot) \o b.rel
         /\ \A n \in 1 .. Len(rows) : Untaken(b, rows[n])
         /\ \A n \in 1 .. Len(queued) : Untaken(b, queued[n])
         /\ disk = firstDisk => /\ Stands(disk, option, FirstSpecs[CurrentRoot], b.at, b.rel, b.linked)
                                /\ b.entry \in Entries(disk, b.at)
<1>1. Walking /\ Stack(Rest) /\ RoomFor(PathOf(Upcoming), Rest) /\ AheadOf(frames) = {Upcoming} \cup AheadOf(Rest)
  BY VisitParts
<1>2. b \in AheadOf(frames) /\ Parted(PathOf(Upcoming), PathOf(b))
  BY <1>1 DEF RoomFor
<1>3. PathOf(b) \in TreePaths
  <2>1. \A f \in Range(Rest) : f \in Frames
    BY <1>1, RangeType DEF Stack
  <2> QED BY <2>1, AheadType DEF AheadOf
<1> QED BY <1>1, <1>2, <1>3 DEF Walking, WalkShape, AheadOnce, WalkSound

LEMMA SkipStep ==
  ASSUME SelectionInv, VisitEntry, Skips(disk, Head(specs))
  PROVE  Walking'
<1>1. /\ Walking /\ phase = "walking" /\ Stack(Rest) /\ AheadOf(frames) = {Upcoming} \cup AheadOf(Rest)
      /\ Head(specs) = FirstSpecs[CurrentRoot] /\ rows' = rows /\ phase' = phase /\ option' = option
      /\ disk' = disk /\ firstDisk' = firstDisk
  BY VisitParts
<1>2. frames' = Rest /\ queued' = queued /\ \A w \in Ways(disk, option, Head(specs)) : ~Leads(Upcoming, w)
  BY DEF Skips
<1>3. /\ CurrentRoot' = CurrentRoot /\ RootAt(CurrentRoot)' = RootAt(CurrentRoot) /\ FirstSpecs' = FirstSpecs
      /\ (\A i : RootAt(i)' = RootAt(i)) /\ RowsOnce'
      /\ \A i : WaysOf(disk, i)' = WaysOf(disk, i) /\ WaysOf(firstDisk, i)' = WaysOf(firstDisk, i)
  BY VisitSame
<1>4. WalkShape'
  <2>1. queued \in Seq(Jobs) /\ \A n \in 1 .. Len(queued) : queued[n].root \in 1 .. CurrentRoot
    BY <1>1 DEF Walking, WalkShape
  <2>2. \A a \in AheadOf(Rest) : ~a.linked => a.at = RootAt(CurrentRoot) \o a.rel
    BY Remaining
  <2> QED BY <1>1, <1>2, <2>1, <2>2, VisitShape
<1>5. JobsOnce'
  BY <1>1, <1>2 DEF JobsOnce, Walking
<1>6. AheadOnce'
  <2>1. \A a \in AheadOf(Rest) : /\ \A n \in 1 .. Len(rows) : Untaken(a, rows[n])
                                 /\ \A n \in 1 .. Len(queued) : Untaken(a, queued[n])
    BY Remaining
  <2> QED BY <1>1, <1>2, <1>3, <2>1 DEF AheadOnce, Untaken
<1>7. WalkComplete'
  <2> SUFFICES ASSUME NEW i \in 1 .. CurrentRoot, NEW w \in WaysOf(firstDisk, i) \cap WaysOf(disk, i)
               PROVE  Covered(i, w)'
    BY <1>3 DEF WalkComplete
  <2>1. Covered(i, w)
    BY <1>1 DEF Walking, WalkComplete
  <2>2. i = CurrentRoot => ~Leads(Upcoming, w)
    BY <1>1, <1>2 DEF WaysOf
  <2>3. \/ HasRow(i, RootAt(i) \o w.rel) \/ HasJob(i, RootAt(i) \o w.rel, w.at)
        \/ i = CurrentRoot /\ \E a \in AheadOf(Rest) : Leads(a, w)
    BY <1>1, <2>1, <2>2 DEF Covered
  <2> QED BY <1>1, <1>2, <1>3, <2>3 DEF Covered, HasRow, HasJob
<1>8. WalkSound'
  <2>1. disk = firstDisk =>
          \A a \in AheadOf(Rest) : /\ Stands(disk, option, FirstSpecs[CurrentRoot], a.at, a.rel, a.linked)
                                   /\ a.entry \in Entries(disk, a.at)
    BY Remaining
  <2>2. WalkSound
    BY <1>1 DEF Walking
  <2> QED BY <1>1, <1>2, <1>3, <2>1, <2>2 DEF WalkSound
<1> QED BY <1>3, <1>4, <1>5, <1>6, <1>7, <1>8 DEF Walking

(* ... one that is entered, one that is queued.                            *)

LEMMA DescendStep ==
  ASSUME SelectionInv, VisitEntry, NEW at, NEW linked, Descended(disk, Head(specs), at, linked)
  PROVE  Walking'
<1> DEFINE root == RootAt(CurrentRoot)
           rel == PathOf(Upcoming)
           gs == frames'
           fs == Rest
<1>1. /\ Walking /\ phase = "walking" /\ Stack(Rest) /\ AheadOf(frames) = {Upcoming} \cup AheadOf(Rest)
      /\ Head(specs) = FirstSpecs[CurrentRoot] /\ rows' = rows /\ phase' = phase /\ option' = option
      /\ disk' = disk /\ firstDisk' = firstDisk /\ IsTree(disk) /\ Head(specs).root = root
      /\ Head(specs).root \in TreePaths /\ rel \in TreePaths /\ RoomFor(rel, Rest) /\ Upcoming \in AheadOf(frames)
  BY VisitParts
<1>2. /\ at \in TreePaths /\ linked \in BOOLEAN /\ queued' = queued
      /\ gs = Push(Frame(disk, at, rel, linked), fs)
      /\ ~linked => at = root \o rel
      /\ \A w \in Ways(disk, option, Head(specs)) : Leads(Upcoming, w) => Heads(at, rel, linked, w)
      /\ disk = firstDisk => Stands(disk, option, FirstSpecs[CurrentRoot], at, rel, linked)
  BY <1>1 DEF Descended
<1>3. /\ CurrentRoot' = CurrentRoot /\ RootAt(CurrentRoot)' = RootAt(CurrentRoot) /\ FirstSpecs' = FirstSpecs
      /\ (\A i : RootAt(i)' = RootAt(i)) /\ RowsOnce' /\ root \in TreePaths
      /\ \A i : WaysOf(disk, i)' = WaysOf(disk, i) /\ WaysOf(firstDisk, i)' = WaysOf(firstDisk, i)
  BY VisitSame
<1>4. /\ Stack(gs)
      /\ \A a : a \in AheadOf(gs) <=> a \in AheadOf(fs) \/ \E e \in Entries(disk, at) : a = Ahead(at, rel, linked, e)
  <2>1. Stack(fs) /\ RoomFor(rel, fs)
    BY <1>1
  <2> HIDE DEF gs, fs, rel
  <2> QED BY <1>1, <1>2, <2>1, EnterIs
<1>5. ASSUME NEW a \in AheadOf(gs)
      PROVE  \/ a \in AheadOf(Rest)
             \/ /\ a.at = at /\ a.rel = rel /\ a.linked = linked /\ a.entry \in Entries(disk, at)
                /\ a.entry.name \in EntryNames /\ PathOf(a) = Append(rel, a.entry.name)
  <2>1. a \in AheadOf(Rest) \/ \E e \in Entries(disk, at) : a = Ahead(at, rel, linked, e)
    BY <1>4
  <2>2. ASSUME NEW e \in Entries(disk, at), a = Ahead(at, rel, linked, e)
        PROVE /\ a.at = at /\ a.rel = rel /\ a.linked = linked /\ a.entry \in Entries(disk, at)
              /\ a.entry.name \in EntryNames /\ PathOf(a) = Append(rel, a.entry.name)
    <3>1. a.at = at /\ a.rel = rel /\ a.linked = linked /\ a.entry = e
      BY <2>2 DEF Ahead
    <3>2. e.name \in EntryNames
      BY <1>1, <1>2, EntriesType
    <3> QED BY <3>1, <3>2 DEF PathOf
  <2> QED BY <2>1, <2>2
<1>6. WalkShape'
  <2>1. queued \in Seq(Jobs) /\ \A n \in 1 .. Len(queued) : queued[n].root \in 1 .. CurrentRoot
    BY <1>1 DEF Walking, WalkShape
  <2>2. \A a \in AheadOf(frames') : ~a.linked => a.at = RootAt(CurrentRoot) \o a.rel
    BY <1>2, <1>5, Remaining
  <2> QED BY <1>2, <1>4, <2>1, <2>2, VisitShape
<1>7. JobsOnce'
  BY <1>1, <1>2 DEF JobsOnce, Walking
<1>8. ASSUME NEW a \in AheadOf(gs), NEW t, t.shown \in TreePaths, Untaken(Upcoming, t),
             a \in AheadOf(Rest) => Untaken(a, t)
      PROVE  Untaken(a, t)
  <2> SUFFICES ASSUME t.root = CurrentRoot, a.entry.name \in EntryNames, PathOf(a) = Append(rel, a.entry.name),
                      Leading(root \o PathOf(a), t.shown)
               PROVE  FALSE
    BY <1>5, <1>8 DEF Untaken
  <2> DEFINE n == a.entry.name
             p == root \o rel
             s == t.shown
  <2>1. root \o Append(rel, n) = Append(p, n) /\ p \in TreePaths
    BY <1>1, <1>3, JoinAppend, PathFacts
  <2>2. Leading(Append(p, n), s) /\ n \in EntryNames /\ s \in TreePaths
    BY <1>8, <2>1
  <2> HIDE DEF p, n, s
  <2>3. Leading(p, s)
    BY <2>1, <2>2, AppendLeading
  <2> QED BY <1>8, <2>3 DEF Untaken, p, s
<1>9. /\ \A n \in 1 .. Len(rows) : rows[n].shown \in TreePaths
      /\ \A n \in 1 .. Len(queued) : queued[n].shown \in TreePaths
  <2>1. rows \in Seq(Rows) /\ queued \in Seq(Jobs)
    BY <1>1 DEF Walking, WalkShape, SelectionInv, Given
  <2>2. (\A n \in 1 .. Len(rows) : rows[n] \in Rows) /\ \A n \in 1 .. Len(queued) : queued[n] \in Jobs
    BY <2>1
  <2> QED BY <2>2 DEF Rows, Jobs
<1>10. AheadOnce'
  <2>1. \A a \in AheadOf(gs) : /\ \A n \in 1 .. Len(rows) : Untaken(a, rows[n])
                               /\ \A n \in 1 .. Len(queued) : Untaken(a, queued[n])
    <3>1. /\ \A n \in 1 .. Len(rows) : Untaken(Upcoming, rows[n])
          /\ \A n \in 1 .. Len(queued) : Untaken(Upcoming, queued[n])
      BY <1>1 DEF Walking, AheadOnce
    <3>2. \A a \in AheadOf(Rest) : /\ \A n \in 1 .. Len(rows) : Untaken(a, rows[n])
                                   /\ \A n \in 1 .. Len(queued) : Untaken(a, queued[n])
      BY Remaining
    <3> QED BY <1>8, <1>9, <3>1, <3>2
  <2> QED BY <1>1, <1>2, <1>3, <2>1 DEF AheadOnce, Untaken
<1>11. WalkComplete'
  <2> SUFFICES ASSUME NEW i \in 1 .. CurrentRoot, NEW w \in WaysOf(firstDisk, i) \cap WaysOf(disk, i)
               PROVE  Covered(i, w)'
    BY <1>3 DEF WalkComplete
  <2>1. Covered(i, w)
    BY <1>1 DEF Walking, WalkComplete
  <2>2. i = CurrentRoot /\ Leads(Upcoming, w) => \E a \in AheadOf(gs) : Leads(a, w)
    <3> SUFFICES ASSUME i = CurrentRoot, Leads(Upcoming, w) PROVE \E a \in AheadOf(gs) : Leads(a, w)
      OBVIOUS
    <3> DEFINE spec == FirstSpecs[CurrentRoot]
    <3>1. w \in Ways(disk, option, spec) /\ spec.root \in TreePaths /\ spec.root = root
      BY <1>1 DEF WaysOf
    <3>2. Heads(at, rel, linked, w)
      BY <1>1, <1>2, <3>1
    <3>3. ~linked => at = spec.root \o rel
      BY <1>2, <3>1
    <3> HIDE DEF spec, rel
    <3>5. /\ IsTree(disk) /\ spec.root \in TreePaths /\ w \in Ways(disk, option, spec)
          /\ at \in TreePaths /\ rel \in TreePaths /\ linked \in BOOLEAN
          /\ (~linked => at = spec.root \o rel) /\ Heads(at, rel, linked, w)
      BY <1>1, <1>2, <3>1, <3>2, <3>3
    <3>4. \E e \in Entries(disk, at) : Leads(Ahead(at, rel, linked, e), w)
      BY ONLY <3>5, Opens
    <3> QED BY <1>4, <3>4
  <2>3. \/ HasRow(i, RootAt(i) \o w.rel) \/ HasJob(i, RootAt(i) \o w.rel, w.at)
        \/ i = CurrentRoot /\ \E a \in AheadOf(gs) : Leads(a, w)
    BY <1>1, <1>4, <2>1, <2>2 DEF Covered
  <2> QED BY <1>1, <1>2, <1>3, <2>3 DEF Covered, HasRow, HasJob
<1>12. WalkSound'
  <2>1. disk = firstDisk =>
          \A a \in AheadOf(gs) : /\ Stands(disk, option, FirstSpecs[CurrentRoot], a.at, a.rel, a.linked)
                                 /\ a.entry \in Entries(disk, a.at)
    BY <1>2, <1>5, Remaining
  <2>2. WalkSound
    BY <1>1 DEF Walking
  <2> QED BY <1>1, <1>2, <1>3, <2>1, <2>2 DEF WalkSound
<1> QED BY <1>3, <1>6, <1>7, <1>10, <1>11, <1>12 DEF Walking

LEMMA Appended ==
  ASSUME NEW S, NEW s \in Seq(S), NEW x \in S
  PROVE  /\ Append(s, x) \in Seq(S) /\ Len(Append(s, x)) = Len(s) + 1 /\ Len(s) \in Nat
         /\ Append(s, x)[Len(s) + 1] = x
         /\ \A n \in 1 .. Len(s) : Append(s, x)[n] = s[n]
         /\ \A n \in 1 .. Len(Append(s, x)) : n \in 1 .. Len(s) \/ n = Len(s) + 1
OBVIOUS

LEMMA QueueStep ==
  ASSUME SelectionInv, VisitEntry, Queues(disk, Head(specs))
  PROVE  Walking'
<1> DEFINE root == RootAt(CurrentRoot)
           rel == PathOf(Upcoming)
           at == AtOf(Upcoming)
           j == [at |-> at, shown |-> root \o rel, root |-> CurrentRoot]
<1>1. /\ Walking /\ phase = "walking" /\ Stack(Rest) /\ AheadOf(frames) = {Upcoming} \cup AheadOf(Rest)
      /\ Head(specs) = FirstSpecs[CurrentRoot] /\ rows' = rows /\ phase' = phase /\ option' = option
      /\ disk' = disk /\ firstDisk' = firstDisk /\ IsTree(disk) /\ Head(specs).root = root
      /\ Head(specs).root \in TreePaths /\ rel \in TreePaths /\ Upcoming \in AheadOf(frames)
      /\ CurrentRoot \in 1 .. RootCount /\ option \in WalkOptions
  BY VisitParts
<1>2. /\ frames' = Rest /\ queued' = Append(queued, j) /\ at \in TreePaths
      /\ \A w \in Ways(disk, option, Head(specs)) : Leads(Upcoming, w) => w.rel = rel /\ w.at = at
      /\ disk = firstDisk => \E w \in Ways(disk, option, Head(specs)) : w.rel = rel /\ w.at = at
  BY <1>1 DEF Queues
<1>3. /\ CurrentRoot' = CurrentRoot /\ RootAt(CurrentRoot)' = RootAt(CurrentRoot) /\ FirstSpecs' = FirstSpecs
      /\ (\A i : RootAt(i)' = RootAt(i)) /\ RowsOnce' /\ root \in TreePaths
      /\ \A i : WaysOf(disk, i)' = WaysOf(disk, i) /\ WaysOf(firstDisk, i)' = WaysOf(firstDisk, i)
  BY VisitSame
<1>4. queued \in Seq(Jobs) /\ rows \in Seq(Rows)
  BY <1>1 DEF Walking, WalkShape, SelectionInv, Given
<1>5. j.at = at /\ j.shown = root \o rel /\ j.root = CurrentRoot /\ j \in Jobs
  <2>1. root \o rel \in TreePaths /\ CurrentRoot \in Nat
    BY <1>1, <1>3, OptionType, PathFacts
  <2> QED BY <1>2, <2>1 DEF Jobs
<1> DEFINE k == Len(queued) + 1
<1>6. /\ queued' \in Seq(Jobs) /\ k \in 1 .. Len(queued') /\ queued'[k] = j
      /\ (\A n \in 1 .. Len(queued) : queued'[n] = queued[n] /\ n \in 1 .. Len(queued'))
      /\ \A n \in 1 .. Len(queued') : n \in 1 .. Len(queued) \/ n = k
  BY <1>2, <1>4, <1>5, Appended
<1> HIDE DEF j, k, root, rel, at
<1>7. WalkShape'
  <2>1. \A n \in 1 .. Len(queued') : queued'[n].root \in 1 .. CurrentRoot
    <3>1. \A n \in 1 .. Len(queued) : queued[n].root \in 1 .. CurrentRoot
      BY <1>1 DEF Walking, WalkShape
    <3>2. CurrentRoot \in 1 .. CurrentRoot
      BY <1>1, OptionType
    <3> QED BY <1>5, <1>6, <3>1, <3>2
  <2>2. \A a \in AheadOf(Rest) : ~a.linked => a.at = RootAt(CurrentRoot) \o a.rel
    BY Remaining
  <2> QED BY <1>1, <1>2, <1>6, <2>1, <2>2, VisitShape
<1>8. ASSUME NEW t, Untaken(Upcoming, t) PROVE ~Same(t, j)
  <2> SUFFICES ASSUME t.root = CurrentRoot, t.shown = root \o rel PROVE FALSE
    BY <1>5 DEF Same
  <2>1. Leading(root \o rel, root \o rel)
    <3>1. root \o rel = (root \o rel) \o <<>> /\ <<>> \in TreePaths
      BY <1>1, <1>3, PathFacts
    <3> QED BY <3>1 DEF Leading
  <2> QED BY <1>8, <2>1 DEF Untaken, root, rel
<1>9. /\ \A n \in 1 .. Len(rows) : ~Same(rows[n], j)
      /\ \A n \in 1 .. Len(queued) : ~Same(queued[n], j) /\ ~Same(j, queued[n])
  <2>1. /\ \A n \in 1 .. Len(rows) : Untaken(Upcoming, rows[n])
        /\ \A n \in 1 .. Len(queued) : Untaken(Upcoming, queued[n])
    BY <1>1 DEF Walking, AheadOnce
  <2> QED BY <1>8, <2>1 DEF Same
<1>10. JobsOnce'
  <2>1. \A m, n \in 1 .. Len(queued') : Same(queued'[m], queued'[n]) => m = n
    <3>1. \A m, n \in 1 .. Len(queued) : Same(queued[m], queued[n]) => m = n
      BY <1>1 DEF Walking, JobsOnce
    <3> QED BY <1>6, <1>9, <3>1
  <2>2. \A m \in 1 .. Len(rows), n \in 1 .. Len(queued') : ~Same(rows[m], queued'[n])
    <3>1. \A m \in 1 .. Len(rows), n \in 1 .. Len(queued) : ~Same(rows[m], queued[n])
      BY <1>1 DEF Walking, JobsOnce
    <3> QED BY <1>6, <1>9, <3>1
  <2> QED BY <1>1, <2>1, <2>2 DEF JobsOnce, Same
<1>11. AheadOnce'
  <2>1. ASSUME NEW b \in AheadOf(Rest) PROVE Untaken(b, j)
    <3> DEFINE p == PathOf(b)
    <3>1. p \in TreePaths /\ Parted(PathOf(Upcoming), p) /\ p = PathOf(b)
      BY Remaining
    <3> HIDE DEF p
    <3>2. ~Leading(root \o p, root \o rel)
      BY <1>1, <1>3, <3>1, LeadingJoin DEF Parted, rel
    <3> QED BY <1>5, <3>1, <3>2 DEF Untaken, root
  <2>2. \A a \in AheadOf(Rest) : /\ \A n \in 1 .. Len(rows) : Untaken(a, rows[n])
                                 /\ \A n \in 1 .. Len(queued') : Untaken(a, queued'[n])
    BY <1>6, <2>1, Remaining
  <2> QED BY <1>1, <1>2, <1>3, <2>2 DEF AheadOnce, Untaken
<1>12. WalkComplete'
  <2> SUFFICES ASSUME NEW i \in 1 .. CurrentRoot, NEW w \in WaysOf(firstDisk, i) \cap WaysOf(disk, i)
               PROVE  Covered(i, w)'
    BY <1>3 DEF WalkComplete
  <2>1. Covered(i, w)
    BY <1>1 DEF Walking, WalkComplete
  <2> DEFINE shown == RootAt(i) \o w.rel
             at2 == w.at
  <2>2. ASSUME \E n \in 1 .. Len(queued') : queued'[n].root = i /\ queued'[n].shown = shown /\ queued'[n].at = at2
        PROVE  Covered(i, w)'
    BY <1>3, <2>2 DEF Covered, HasJob
  <2>3. CASE HasRow(i, shown)
    BY <1>1, <1>3, <2>3 DEF Covered, HasRow
  <2>4. CASE HasJob(i, shown, at2)
    BY <1>6, <2>2, <2>4 DEF HasJob
  <2>5. CASE i = CurrentRoot /\ Leads(Upcoming, w)
    <3>1. w.rel = rel /\ w.at = at
      BY <1>1, <1>2, <2>5 DEF WaysOf
    <3>2. queued'[k].root = i /\ queued'[k].shown = shown /\ queued'[k].at = at2
      BY <1>5, <1>6, <2>5, <3>1 DEF root
    <3> QED BY <1>6, <2>2, <3>2
  <2>6. CASE i = CurrentRoot /\ \E a \in AheadOf(Rest) : Leads(a, w)
    BY <1>2, <1>3, <2>6 DEF Covered
  <2> QED BY <1>1, <2>1, <2>3, <2>4, <2>5, <2>6 DEF Covered
<1>13. WalkSound'
  <2> SUFFICES ASSUME disk = firstDisk PROVE WalkSound'
    BY <1>1 DEF WalkSound
  <2>1. \A a \in AheadOf(Rest) : /\ Stands(disk, option, FirstSpecs[CurrentRoot], a.at, a.rel, a.linked)
                                 /\ a.entry \in Entries(disk, a.at)
    BY Remaining
  <2>2. /\ \A n \in 1 .. Len(queued) : \E w \in WaysOf(disk, queued[n].root) :
             queued[n].shown = RootAt(queued[n].root) \o w.rel /\ queued[n].at = w.at
        /\ \A n \in 1 .. Len(rows) : \E w \in WaysOf(disk, rows[n].root) :
             rows[n].shown = RootAt(rows[n].root) \o w.rel
    BY <1>1 DEF Walking, WalkSound
  <2> DEFINE sound(x) == \E w \in WaysOf(disk, x.root) : x.shown = RootAt(x.root) \o w.rel /\ x.at = w.at
  <2>3. sound(j)
    BY <1>1, <1>2, <1>5 DEF WaysOf, root
  <2>4. \A n \in 1 .. Len(queued) : sound(queued[n])
    BY <2>2
  <2> HIDE DEF sound
  <2>5. \A n \in 1 .. Len(queued') : sound(queued'[n])
    BY <1>6, <2>3, <2>4
  <2>6. \A n \in 1 .. Len(queued') : \E w \in WaysOf(disk, queued'[n].root) :
             queued'[n].shown = RootAt(queued'[n].root) \o w.rel /\ queued'[n].at = w.at
    BY <2>5 DEF sound
  <2>7. ASSUME NEW i PROVE WaysOf(disk, i)' = WaysOf(disk, i) /\ RootAt(i)' = RootAt(i)
    BY <1>3
  <2>8. (\A n \in 1 .. Len(queued) : \E w \in WaysOf(disk, queued[n].root) :
             queued[n].shown = RootAt(queued[n].root) \o w.rel /\ queued[n].at = w.at)'
    BY ONLY <2>6, <2>7
  <2>9. (\A n \in 1 .. Len(rows) : \E w \in WaysOf(disk, rows[n].root) :
             rows[n].shown = RootAt(rows[n].root) \o w.rel)'
    BY ONLY <1>1, <2>2, <2>7
  <2>10. (\A a \in AheadOf(frames) : /\ Stands(disk, option, FirstSpecs[CurrentRoot], a.at, a.rel, a.linked)
                                     /\ a.entry \in Entries(disk, a.at))'
    BY ONLY <1>1, <1>2, <1>3, <2>1
  <2> QED BY ONLY <2>8, <2>9, <2>10 DEF WalkSound
<1> QED BY <1>3, <1>7, <1>10, <1>11, <1>12, <1>13 DEF Walking

LEMMA VisitStep ==
  ASSUME SelectionInv, VisitEntry
  PROVE  SelectionInv'
<1>1. Walking'
  BY VisitCases, SkipStep, DescendStep, QueueStep
<1> QED BY <1>1, VisitSame DEF SelectionInv

-----------------------------------------------------------------------------
(* A worker takes a job.                                                   *)

LEMMA RowType ==
  ASSUME NEW j \in Jobs, NEW held \in DOMAIN Values \cup {"leaf"}
  PROVE  RowOf(j, held) \in Rows /\ RowOf(j, held).root = j.root /\ RowOf(j, held).shown = j.shown
<1> DEFINE s == IF held = "leaf" THEN <<>> ELSE Snippet(Values[held].lines)
<1>1. s \in Snippets
  BY DEF Snippets
<1>2. RowOf(j, held) = [shown |-> j.shown, root |-> j.root, file |-> held, rank |-> 0, snippet |-> s]
  BY DEF RowOf
<1>3. j.shown \in TreePaths /\ j.root \in Nat /\ 0 \in Int
  BY DEF Jobs
<1> HIDE DEF s
<1> QED BY <1>1, <1>2, <1>3 DEF Rows

(* A file that is opened is one.                                           *)
LEMMA FileAt ==
  ASSUME NEW d, IsTree(d), NEW p \in TreePaths, KindAt(d, p) = "file"
  PROVE  d[RealPath(d, p).path].file \in DOMAIN Values
<1> DEFINE r == RealPath(d, p)
<1>1. r.found /\ r.path # <<>> /\ d[r.path].kind = "file"
  BY DEF KindAt
<1>2. IsPlace(d, r.path)
  BY <1>1, OutcomeIs
<1>3. r.path \in DOMAIN d
  BY <1>1, <1>2 DEF IsPlace
<1> HIDE DEF r
<1>4. IsSpot(d[r.path])
  BY <1>3 DEF IsTree
<1>5. d[r.path].file \in DOMAIN Values
  BY <1>1, <1>4 DEF IsSpot
<1> QED BY <1>5 DEF r

(* What a worker takes is one of the queued jobs; the others stay.         *)
LEMMA JobParts ==
  ASSUME SelectionInv, NEW i \in 1 .. Len(queued), ProcessJob(i)
  PROVE  /\ Given /\ Walking /\ WalkShape /\ phase = "walking" /\ IsTree(disk) /\ option \in WalkOptions
         /\ rows \in Seq(Rows)
         /\ queued[i] \in Jobs /\ queued[i].at \in TreePaths /\ queued[i].root \in 1 .. CurrentRoot
         /\ CurrentRoot \in 1 .. RootCount
         /\ queued' \in Seq(Jobs)
         /\ \A m \in 1 .. Len(queued') : \E n \in 1 .. Len(queued) : n # i /\ queued'[m] = queued[n]
         /\ \A n \in 1 .. Len(queued) : n # i => \E m \in 1 .. Len(queued') : queued'[m] = queued[n]
         /\ \A m, n \in 1 .. Len(queued') : Same(queued'[m], queued'[n]) => m = n
         /\ disk' = disk /\ option' = option /\ specs' = specs /\ frames' = frames
         /\ returned' = returned /\ firstDisk' = firstDisk
<1>1. /\ phase = "walking" /\ queued' = RemoveAt(queued, i)
      /\ disk' = disk /\ option' = option /\ specs' = specs /\ frames' = frames
      /\ returned' = returned /\ firstDisk' = firstDisk
  BY DEF ProcessJob
<1>2. Given /\ Walking /\ WalkShape
  BY <1>1 DEF SelectionInv, Going, Walking
<1>3. /\ queued \in Seq(Jobs) /\ IsTree(disk) /\ option \in WalkOptions /\ rows \in Seq(Rows)
      /\ CurrentRoot \in 1 .. RootCount /\ queued[i].root \in 1 .. CurrentRoot
      /\ \A m, n \in 1 .. Len(queued) : Same(queued[m], queued[n]) => m = n
  BY <1>2 DEF Given, WalkShape, Walking, JobsOnce
<1>4. queued[i] \in Jobs /\ queued[i].at \in TreePaths
  <2>1. queued[i] \in Jobs
    BY <1>3
  <2> QED BY <2>1 DEF Jobs
<1>5. /\ queued' \in Seq(Jobs) /\ Len(queued') = Len(queued) - 1 /\ Len(queued) \in Nat
      /\ \A m \in 1 .. Len(queued) - 1 : queued'[m] = IF m < i THEN queued[m] ELSE queued[m + 1]
  <2> DEFINE left == RemoveAt(queued, i)
  <2>1. /\ left \in Seq(Jobs) /\ Len(left) = Len(queued) - 1
        /\ \A m \in 1 .. Len(queued) - 1 : left[m] = IF m < i THEN queued[m] ELSE queued[m + 1]
    BY <1>3, Without
  <2>2. queued' = left /\ Len(queued) \in Nat
    BY <1>1, <1>3
  <2> HIDE DEF left
  <2> QED BY <2>1, <2>2
<1> DEFINE k == Len(queued)
           g == [m \in 1 .. k - 1 |-> IF m < i THEN m ELSE m + 1]
<1>6. k \in Nat /\ i \in 1 .. k /\ Len(queued') = k - 1
  BY <1>5
<1>7. /\ \A m \in 1 .. k - 1 : g[m] \in 1 .. k /\ g[m] # i /\ queued'[m] = queued[g[m]]
      /\ \A m, n \in 1 .. k - 1 : g[m] = g[n] => m = n
      /\ \A n \in 1 .. k : n # i => \E m \in 1 .. k - 1 : g[m] = n
  <2>1. \A m \in 1 .. k - 1 : g[m] \in 1 .. k /\ g[m] # i /\ queued'[m] = queued[g[m]]
    BY <1>5, <1>6
  <2>2. \A m, n \in 1 .. k - 1 : g[m] = g[n] => m = n
    BY <1>6
  <2>3. ASSUME NEW n \in 1 .. k, n # i PROVE \E m \in 1 .. k - 1 : g[m] = n
    <3>1. CASE n < i
      <4>1. n \in 1 .. k - 1 /\ g[n] = n
        BY <1>6, <3>1
      <4> QED BY <4>1
    <3>2. CASE ~(n < i)
      <4>1. n - 1 \in 1 .. k - 1 /\ g[n - 1] = n
        BY <1>6, <2>3, <3>2
      <4> QED BY <4>1
    <3> QED BY <3>1, <3>2
  <2> QED BY <2>1, <2>2, <2>3
<1> HIDE DEF g
<1>8. ASSUME NEW m \in 1 .. Len(queued'), NEW n \in 1 .. Len(queued'), Same(queued'[m], queued'[n]) PROVE m = n
  <2>1. /\ m \in 1 .. k - 1 /\ n \in 1 .. k - 1 /\ g[m] \in 1 .. Len(queued) /\ g[n] \in 1 .. Len(queued)
        /\ queued'[m] = queued[g[m]] /\ queued'[n] = queued[g[n]]
    BY <1>6, <1>7
  <2>2. Same(queued[g[m]], queued[g[n]])
    BY <1>8, <2>1
  <2>3. g[m] = g[n]
    BY <1>3, <2>1, <2>2
  <2> QED BY <1>7, <2>1, <2>3
<1>9. \A m \in 1 .. Len(queued') : \E n \in 1 .. Len(queued) : n # i /\ queued'[m] = queued[n]
  BY <1>6, <1>7
<1>10. \A n \in 1 .. Len(queued) : n # i => \E m \in 1 .. Len(queued') : queued'[m] = queued[n]
  BY <1>6, <1>7
<1> QED BY <1>1, <1>2, <1>3, <1>4, <1>5, <1>8, <1>9, <1>10

LEMMA JobSame ==
  ASSUME SelectionInv, NEW i \in 1 .. Len(queued), ProcessJob(i)
  PROVE  /\ CurrentRoot' = CurrentRoot /\ RootAt(CurrentRoot)' = RootAt(CurrentRoot)
         /\ FirstSpecs' = FirstSpecs /\ RootCount' = RootCount
         /\ \A r : RootAt(r)' = RootAt(r)
         /\ \A r : WaysOf(disk, r)' = WaysOf(disk, r) /\ WaysOf(firstDisk, r)' = WaysOf(firstDisk, r)
<1>1. disk' = disk /\ option' = option /\ specs' = specs /\ frames' = frames /\ firstDisk' = firstDisk
  BY JobParts
<1>2. CurrentRoot' = CurrentRoot /\ FirstSpecs' = FirstSpecs /\ RootCount' = RootCount
  BY <1>1 DEF CurrentRoot, FirstSpecs, RootCount
<1>3. \A r : RootAt(r)' = RootAt(r)
  BY <1>1 DEF RootAt
<1>4. \A r : WaysOf(disk, r)' = WaysOf(disk, r) /\ WaysOf(firstDisk, r)' = WaysOf(firstDisk, r)
  BY <1>1, <1>2 DEF WaysOf
<1>5. RootAt(CurrentRoot)' = RootAt(CurrentRoot)
  BY <1>1, <1>2 DEF RootAt
<1> QED BY <1>2, <1>3, <1>4, <1>5

(* The rows of a worker's step hold on to what was queued.                 *)
LEMMA WorkerStep ==
  ASSUME SelectionInv, NEW i \in 1 .. Len(queued), ProcessJob(i), phase' = "walking",
         \/ \E r \in Rows : r.root = queued[i].root /\ r.shown = queued[i].shown /\ rows' = Append(rows, r)
         \/ /\ rows' = rows
            /\ \A w \in WaysOf(disk, queued[i].root) : w.at # queued[i].at
  PROVE  Walking'
<1> DEFINE j == queued[i]
           k == Len(rows) + 1
<1>1. /\ Walking /\ WalkShape /\ phase = "walking" /\ rows \in Seq(Rows) /\ j.root \in 1 .. CurrentRoot
      /\ queued' \in Seq(Jobs)
      /\ \A m \in 1 .. Len(queued') : \E n \in 1 .. Len(queued) : n # i /\ queued'[m] = queued[n]
      /\ \A n \in 1 .. Len(queued) : n # i => \E m \in 1 .. Len(queued') : queued'[m] = queued[n]
      /\ \A m, n \in 1 .. Len(queued') : Same(queued'[m], queued'[n]) => m = n
      /\ disk' = disk /\ option' = option /\ specs' = specs /\ frames' = frames
      /\ returned' = returned /\ firstDisk' = firstDisk
  BY JobParts
<1>2. /\ CurrentRoot' = CurrentRoot /\ RootAt(CurrentRoot)' = RootAt(CurrentRoot)
      /\ FirstSpecs' = FirstSpecs /\ RootCount' = RootCount
      /\ \A r : RootAt(r)' = RootAt(r)
      /\ \A r : WaysOf(disk, r)' = WaysOf(disk, r) /\ WaysOf(firstDisk, r)' = WaysOf(firstDisk, r)
  BY JobSame
<1>3. /\ \A m \in 1 .. Len(rows') : m \in 1 .. Len(rows) \/ m = k
      /\ \A m \in 1 .. Len(rows) : m \in 1 .. Len(rows') /\ rows'[m] = rows[m]
      /\ k \in 1 .. Len(rows') => rows'[k].root = j.root /\ rows'[k].shown = j.shown
      /\ k \in 1 .. Len(rows') \/ \A w \in WaysOf(disk, j.root) : w.at # j.at
  <2>1. CASE \E r \in Rows : r.root = j.root /\ r.shown = j.shown /\ rows' = Append(rows, r)
    <3>1. PICK r \in Rows : r.root = j.root /\ r.shown = j.shown /\ rows' = Append(rows, r)
      BY <2>1
    <3> HIDE DEF j
    <3>2. /\ Len(rows') = Len(rows) + 1 /\ Len(rows) \in Nat /\ rows'[k] = r
          /\ \A n \in 1 .. Len(rows) : rows'[n] = rows[n]
      BY <1>1, <3>1, Appended
    <3> QED BY <3>1, <3>2
  <2>2. CASE rows' = rows /\ \A w \in WaysOf(disk, j.root) : w.at # j.at
    <3>1. Len(rows) \in Nat
      BY <1>1
    <3> HIDE DEF j
    <3> QED BY <2>2, <3>1
  <2> QED BY <2>1, <2>2
<1> HIDE DEF k
<1>4. WalkShape'
  <2>1. /\ frames' \in Seq(Frames) /\ CurrentRoot' \in 1 .. RootCount' /\ phase' # "begun"
        /\ specs' = SubSeq(FirstSpecs', CurrentRoot', RootCount')
        /\ (\A f \in Range(frames') : f.todo # {}) /\ Apart(frames')
        /\ \A a \in AheadOf(frames') : ~a.linked => a.at = RootAt(CurrentRoot)' \o a.rel
    BY <1>1, <1>2 DEF WalkShape
  <2>2. \A n \in 1 .. Len(rows') : rows'[n].root \in 1 .. CurrentRoot'
    BY <1>1, <1>2, <1>3 DEF WalkShape
  <2>3. \A n \in 1 .. Len(queued') : queued'[n].root \in 1 .. CurrentRoot'
    <3>1. \A n \in 1 .. Len(queued) : queued[n].root \in 1 .. CurrentRoot
      BY <1>1 DEF WalkShape
    <3> QED BY <1>1, <1>2, <3>1
  <2> QED BY <1>1, <2>1, <2>2, <2>3 DEF WalkShape
<1>5. /\ \A m, n \in 1 .. Len(rows) : Same(rows[m], rows[n]) => m = n
      /\ \A m, n \in 1 .. Len(queued) : Same(queued[m], queued[n]) => m = n
      /\ \A m \in 1 .. Len(rows), n \in 1 .. Len(queued) : ~Same(rows[m], queued[n])
  BY <1>1 DEF Walking, RowsOnce, JobsOnce
<1>6. RowsOnce'
  <2>1. \A m \in 1 .. Len(rows) : k \in 1 .. Len(rows') => ~Same(rows[m], rows'[k]) /\ ~Same(rows'[k], rows[m])
    BY <1>3, <1>5 DEF Same
  <2> QED BY <1>3, <1>5, <2>1 DEF RowsOnce
<1>7. JobsOnce'
  <2>1. \A m \in 1 .. Len(rows), n \in 1 .. Len(queued') : ~Same(rows[m], queued'[n])
    BY <1>1, <1>5
  <2>2. k \in 1 .. Len(rows') => \A n \in 1 .. Len(queued') : ~Same(rows'[k], queued'[n])
    <3> SUFFICES ASSUME k \in 1 .. Len(rows'), NEW n \in 1 .. Len(queued'), Same(rows'[k], queued'[n]) PROVE FALSE
      OBVIOUS
    <3>1. PICK m \in 1 .. Len(queued) : m # i /\ queued'[n] = queued[m]
      BY <1>1
    <3>2. Same(queued[i], queued[m])
      BY <1>3, <3>1 DEF Same
    <3> QED BY <1>5, <3>1, <3>2
  <2>3. \A m \in 1 .. Len(rows'), n \in 1 .. Len(queued') : ~Same(rows'[m], queued'[n])
    BY <1>3, <2>1, <2>2
  <2> QED BY <1>1, <2>3 DEF JobsOnce, Same
<1>8. AheadOnce'
  <2>1. \A a \in AheadOf(frames) : /\ \A n \in 1 .. Len(rows) : Untaken(a, rows[n])
                                   /\ \A n \in 1 .. Len(queued) : Untaken(a, queued[n])
    BY <1>1 DEF Walking, AheadOnce
  <2>2. \A a \in AheadOf(frames) : k \in 1 .. Len(rows') => Untaken(a, rows'[k])
    BY <1>3, <2>1 DEF Untaken
  <2>3. \A a \in AheadOf(frames) : /\ \A n \in 1 .. Len(rows') : Untaken(a, rows'[n])
                                   /\ \A n \in 1 .. Len(queued') : Untaken(a, queued'[n])
    BY <1>1, <1>3, <2>1, <2>2
  <2> QED BY <1>1, <1>2, <2>3 DEF AheadOnce, Untaken
<1>9. WalkComplete'
  <2> SUFFICES ASSUME NEW r \in 1 .. CurrentRoot, NEW w \in WaysOf(firstDisk, r) \cap WaysOf(disk, r)
               PROVE  Covered(r, w)'
    BY <1>2 DEF WalkComplete
  <2>1. Covered(r, w)
    BY <1>1 DEF Walking, WalkComplete
  <2> DEFINE shown == RootAt(r) \o w.rel
             at2 == w.at
  <2>2. ASSUME \E n \in 1 .. Len(queued') : queued'[n].root = r /\ queued'[n].shown = shown /\ queued'[n].at = at2
        PROVE  Covered(r, w)'
    BY <1>2, <2>2 DEF Covered, HasJob
  <2>3. ASSUME \E n \in 1 .. Len(rows') : rows'[n].root = r /\ rows'[n].shown = shown
        PROVE  Covered(r, w)'
    BY <1>2, <2>3 DEF Covered, HasRow
  <2>4. CASE HasRow(r, shown)
    BY <1>3, <2>3, <2>4 DEF HasRow
  <2>5. CASE HasJob(r, shown, at2)
    <3>1. PICK n \in 1 .. Len(queued) : queued[n].root = r /\ queued[n].shown = shown /\ queued[n].at = at2
      BY <2>5 DEF HasJob
    <3>2. CASE n # i
      BY <1>1, <2>2, <3>1, <3>2
    <3>3. CASE n = i
      <4>1. k \in 1 .. Len(rows')
        BY <1>3, <3>1, <3>3
      <4> QED BY <1>3, <2>3, <3>1, <3>3, <4>1
    <3> QED BY <3>2, <3>3
  <2>6. CASE r = CurrentRoot /\ \E a \in AheadOf(frames) : Leads(a, w)
    BY <1>1, <1>2, <2>6 DEF Covered
  <2> QED BY <2>1, <2>4, <2>5, <2>6 DEF Covered
<1>10. WalkSound'
  <2> SUFFICES ASSUME disk = firstDisk PROVE WalkSound'
    BY <1>1 DEF WalkSound
  <2> DEFINE sound(x) == \E w \in WaysOf(disk, x.root) : x.shown = RootAt(x.root) \o w.rel
             full(x) == \E w \in WaysOf(disk, x.root) : x.shown = RootAt(x.root) \o w.rel /\ x.at = w.at
  <2>1. /\ \A n \in 1 .. Len(queued) : full(queued[n]) /\ sound(queued[n])
        /\ \A n \in 1 .. Len(rows) : sound(rows[n])
    BY <1>1 DEF Walking, WalkSound
  <2>2. k \in 1 .. Len(rows') => sound(rows'[k])
    BY <1>3, <2>1
  <2> HIDE DEF sound, full
  <2>3. \A n \in 1 .. Len(queued') : full(queued'[n])
    BY <1>1, <2>1
  <2>4. \A n \in 1 .. Len(rows') : sound(rows'[n])
    BY <1>3, <2>1, <2>2
  <2>5. \A n \in 1 .. Len(queued') : \E w \in WaysOf(disk, queued'[n].root) :
             queued'[n].shown = RootAt(queued'[n].root) \o w.rel /\ queued'[n].at = w.at
    BY <2>3 DEF full
  <2>6. \A n \in 1 .. Len(rows') : \E w \in WaysOf(disk, rows'[n].root) :
             rows'[n].shown = RootAt(rows'[n].root) \o w.rel
    BY <2>4 DEF sound
  <2>7. ASSUME NEW r PROVE WaysOf(disk, r)' = WaysOf(disk, r) /\ RootAt(r)' = RootAt(r)
    BY <1>2
  <2>8. (\A n \in 1 .. Len(queued) : \E w \in WaysOf(disk, queued[n].root) :
             queued[n].shown = RootAt(queued[n].root) \o w.rel /\ queued[n].at = w.at)'
    BY ONLY <2>5, <2>7
  <2>9. (\A n \in 1 .. Len(rows) : \E w \in WaysOf(disk, rows[n].root) :
             rows[n].shown = RootAt(rows[n].root) \o w.rel)'
    BY ONLY <2>6, <2>7
  <2>10. (\A a \in AheadOf(frames) : /\ Stands(disk, option, FirstSpecs[CurrentRoot], a.at, a.rel, a.linked)
                                     /\ a.entry \in Entries(disk, a.at))'
    BY <1>1, <1>2 DEF Walking, WalkSound
  <2> QED BY ONLY <2>8, <2>9, <2>10 DEF WalkSound
<1> QED BY <1>4, <1>6, <1>7, <1>8, <1>9, <1>10 DEF Walking

LEMMA JobStep ==
  ASSUME SelectionInv, NEW i \in 1 .. Len(queued), ProcessJob(i)
  PROVE  SelectionInv'
<1> DEFINE j == queued[i]
           k == KindAt(disk, j.at)
           isLink == IsLinkAt(disk, j.at)
<1>1. /\ Given /\ Walking /\ phase = "walking" /\ IsTree(disk) /\ rows \in Seq(Rows) /\ option \in WalkOptions
      /\ j \in Jobs /\ j.at \in TreePaths /\ j.root \in 1 .. CurrentRoot /\ CurrentRoot \in 1 .. RootCount
      /\ disk' = disk /\ option' = option /\ returned' = returned /\ firstDisk' = firstDisk
  BY JobParts
<1>2. \/ k = "special" /\ phase' = "hung" /\ rows' = rows
      \/ /\ k = "file"
         /\ rows' = Append(rows, RowOf(j, disk[RealPath(disk, j.at).path].file)) /\ phase' = phase
      \/ isLink /\ rows' = Append(rows, RowOf(j, "leaf")) /\ phase' = phase
      \/ ~isLink /\ k \in {"dir", "gone"} /\ rows' = rows /\ phase' = phase
  BY DEF ProcessJob
<1>3. FirstSpecs[j.root].root \in TreePaths
  <2>1. j.root \in 1 .. RootCount
    BY <1>1, OptionType
  <2> HIDE DEF j
  <2> QED BY <1>1, <2>1, SpecsIs
<1>4. \A w \in WaysOf(disk, j.root) :
        /\ KindAt(disk, w.at) = "file" \/ IsLinkAt(disk, w.at)
        /\ KindAt(disk, w.at) = "special" => \E p \in DOMAIN disk : disk[p].kind = "link" /\ KindAt(disk, p) = "special"
  <2> DEFINE spec == FirstSpecs[j.root]
  <2>1. spec.root \in TreePaths /\ WaysOf(disk, j.root) = Ways(disk, option, spec)
    BY <1>3 DEF WaysOf
  <2> HIDE DEF spec
  <2> QED BY <1>1, <2>1, WayFacts
<1>5. CASE k = "special" /\ phase' = "hung" /\ rows' = rows
  <2>1. HungOnlyBy'
    <3>1. disk = firstDisk => \E p \in DOMAIN disk : disk[p].kind = "link" /\ KindAt(disk, p) = "special"
      <4> SUFFICES ASSUME disk = firstDisk
                   PROVE  \E p \in DOMAIN disk : disk[p].kind = "link" /\ KindAt(disk, p) = "special"
        OBVIOUS
      <4>1. PICK w \in WaysOf(disk, j.root) : j.at = w.at
        BY <1>1 DEF Walking, WalkSound
      <4> QED BY <1>4, <1>5, <4>1
    <3> QED BY <1>1, <3>1 DEF HungOnlyBy
  <2> QED BY <1>1, <1>5, <2>1 DEF SelectionInv, Given, Going, Arranged
<1>6. ASSUME phase' = phase, NEW held \in DOMAIN Values \cup {"leaf"}, rows' = Append(rows, RowOf(j, held))
      PROVE  SelectionInv'
  <2>1. RowOf(j, held) \in Rows /\ RowOf(j, held).root = j.root /\ RowOf(j, held).shown = j.shown
    BY <1>1, RowType
  <2>2. Walking'
    BY <1>1, <1>6, <2>1, WorkerStep
  <2>3. rows' \in Seq(Rows)
    BY <1>1, <1>6, <2>1, Appended
  <2> QED BY <1>1, <1>6, <2>2, <2>3 DEF SelectionInv, Given, HungOnlyBy, Arranged
<1>7. CASE /\ k = "file"
           /\ rows' = Append(rows, RowOf(j, disk[RealPath(disk, j.at).path].file)) /\ phase' = phase
  <2>1. disk[RealPath(disk, j.at).path].file \in DOMAIN Values
    BY <1>1, <1>7, FileAt
  <2> QED BY <1>6, <1>7, <2>1
<1>8. CASE isLink /\ rows' = Append(rows, RowOf(j, "leaf")) /\ phase' = phase
  BY <1>6, <1>8
<1>9. CASE ~isLink /\ k \in {"dir", "gone"} /\ rows' = rows /\ phase' = phase
  <2>1. \A w \in WaysOf(disk, j.root) : w.at # j.at
    BY <1>4, <1>9
  <2>2. Walking'
    BY <1>1, <1>9, <2>1, WorkerStep
  <2> QED BY <1>1, <1>9, <2>2 DEF SelectionInv, Given, HungOnlyBy, Arranged
<1> QED BY <1>2, <1>5, <1>7, <1>8, <1>9

-----------------------------------------------------------------------------
(* The disk changes.                                                       *)

(* What another program puts in a place leaves a tree.                     *)
LEMMA PlacedTree ==
  ASSUME NEW d, IsTree(d), NEW p \in TreePaths, p # <<>>, NEW spot, spot = NoSpot \/ IsSpot(spot),
         Len(p) > 1 => Front(p) \in DOMAIN d /\ d[Front(p)].kind = "dir"
  PROVE  IsTree(Placed(d, p, spot))
<1> DEFINE e == Placed(d, p, spot)
<1>1. /\ DOMAIN e = {q \in DOMAIN d : ~IsPrefix(p, q)} \cup (IF spot = NoSpot THEN {} ELSE {p})
      /\ \A q \in DOMAIN e : e[q] = IF q = p THEN spot ELSE d[q]
  BY DEF Placed
<1> HIDE DEF e
<1>2. IsPrefix(p, p)
  <2>1. p = p \o <<>> /\ <<>> \in TreePaths
    BY PathFacts
  <2> QED BY <2>1, PrefixIs
<1>3. ASSUME NEW q \in TreePaths, NEW n \in EntryNames, IsPrefix(p, q) PROVE IsPrefix(p, Append(q, n))
  <2>1. PICK u \in TreePaths : q = p \o u
    BY <1>3, PrefixIs
  <2>2. Append(q, n) = p \o Append(u, n) /\ Append(u, n) \in TreePaths /\ Append(q, n) \in TreePaths
    <3>1. p \o Append(u, n) = Append(p \o u, n)
      BY JoinAppend
    <3>2. Append(u, n) \in TreePaths /\ Append(q, n) \in TreePaths
      BY PathFacts
    <3> QED BY <2>1, <3>1, <3>2
  <2> DEFINE r == Append(q, n)
             v == Append(u, n)
  <2>3. r = p \o v /\ v \in TreePaths /\ r \in TreePaths
    BY <2>2
  <2> HIDE DEF r, v
  <2>4. IsPrefix(p, r)
    BY <2>3, PrefixIs
  <2> QED BY <2>4 DEF r
<1>4. ASSUME NEW q \in TreePaths, NEW n \in EntryNames, p = Append(q, n) PROVE ~IsPrefix(p, q)
  <2> SUFFICES ASSUME IsPrefix(p, q) PROVE FALSE
    OBVIOUS
  <2>1. PICK u \in TreePaths : q = p \o u
    BY PrefixIs
  <2>2. Len(p) = Len(q) + 1 /\ Len(q) = Len(p) + Len(u) /\ Len(u) \in Nat /\ Len(q) \in Nat
    <3>1. Len(p) = Len(q) + 1
      BY <1>4, AppendProperties DEF TreePaths
    <3>2. Len(q) = Len(p) + Len(u)
      BY <2>1, ConcatProperties DEF TreePaths
    <3> QED BY <3>1, <3>2 DEF TreePaths
  <2> QED BY <2>2
<1>5. ASSUME NEW q \in DOMAIN e
      PROVE  /\ q \in TreePaths /\ q # <<>> /\ IsSpot(e[q])
             /\ Len(q) > 1 => Front(q) \in DOMAIN e /\ e[Front(q)].kind = "dir"
  <2>1. CASE q = p
    <3>1. IsSpot(e[q])
      BY <1>1, <1>2, <2>1
    <3>2. ASSUME Len(q) > 1 PROVE Front(q) \in DOMAIN e /\ e[Front(q)].kind = "dir"
      <4>1. PICK c \in TreePaths, n \in EntryNames : p = Append(c, n) /\ Front(p) = c
        BY PathEnd
      <4>2. c \in DOMAIN d /\ d[c].kind = "dir"
        BY <2>1, <3>2, <4>1
      <4>3. ~IsPrefix(p, c)
        BY <1>4, <4>1
      <4>4. c # p
        BY <1>2, <4>3
      <4> QED BY <1>1, <2>1, <4>1, <4>2, <4>3, <4>4
    <3> QED BY <2>1, <3>1, <3>2
  <2>2. CASE q # p
    <3>1. q \in DOMAIN d /\ ~IsPrefix(p, q) /\ e[q] = d[q]
      BY <1>1, <2>2
    <3>2. /\ q \in TreePaths /\ q # <<>> /\ IsSpot(d[q])
          /\ Len(q) > 1 => Front(q) \in DOMAIN d /\ d[Front(q)].kind = "dir"
      BY <3>1 DEF IsTree
    <3>3. ASSUME Len(q) > 1 PROVE Front(q) \in DOMAIN e /\ e[Front(q)].kind = "dir"
      <4>1. PICK c \in TreePaths, n \in EntryNames : q = Append(c, n) /\ Front(q) = c
        BY <3>2, PathEnd
      <4>2. c \in DOMAIN d /\ d[c].kind = "dir"
        BY <3>2, <3>3, <4>1
      <4>3. ~IsPrefix(p, c)
        BY <1>3, <3>1, <4>1
      <4>4. c # p
        BY <1>2, <4>3
      <4> QED BY <1>1, <4>1, <4>2, <4>3, <4>4
    <3> QED BY <3>1, <3>2, <3>3
  <2> QED BY <2>1, <2>2
<1>6. IsTree(e)
  BY <1>5 DEF IsTree
<1> QED BY <1>6 DEF e

LEMMA ChangeStep ==
  ASSUME SelectionInv, NEW c \in DiskChanges, ChangeDisk(c)
  PROVE  SelectionInv'
<1>1. /\ phase \in {"begun", "walking"} /\ disk = firstDisk
      /\ Len(c.at) > 1 => Front(c.at) \in DOMAIN disk /\ disk[Front(c.at)].kind = "dir"
      /\ disk' = Placed(disk, c.at, c.into)
      /\ option' = option /\ specs' = specs /\ frames' = frames /\ queued' = queued /\ rows' = rows
      /\ phase' = phase /\ returned' = returned /\ firstDisk' = firstDisk
  BY DEF ChangeDisk
<1>2. Given /\ Walking
  BY <1>1 DEF SelectionInv, Going
<1>3. Given'
  <2>1. c.at \in TreePaths /\ c.at # <<>> /\ (c.into = NoSpot \/ IsSpot(c.into))
    BY SelectionAssumption
  <2>2. IsTree(disk)
    BY <1>2 DEF Given
  <2> DEFINE p == c.at
             s == c.into
  <2>3. /\ p \in TreePaths /\ p # <<>> /\ (s = NoSpot \/ IsSpot(s)) /\ disk' = Placed(disk, p, s)
        /\ Len(p) > 1 => Front(p) \in DOMAIN disk /\ disk[Front(p)].kind = "dir"
    BY <1>1, <2>1
  <2> HIDE DEF p, s
  <2>4. IsTree(Placed(disk, p, s))
    BY <2>2, <2>3, PlacedTree
  <2>5. IsTree(disk')
    BY <2>3, <2>4
  <2>6. IsTree(disk)'
    BY <2>5 DEF IsTree, IsSpot
  <2>7. IsTree(firstDisk)'
    BY <1>1, <1>2 DEF Given, IsTree, IsSpot
  <2> QED BY <1>1, <1>2, <2>6, <2>7 DEF Given
<1>4. /\ CurrentRoot' = CurrentRoot /\ FirstSpecs' = FirstSpecs /\ RootCount' = RootCount
      /\ \A i : RootAt(i)' = RootAt(i)
  BY <1>1 DEF CurrentRoot, FirstSpecs, RootCount, RootAt
<1>5. RootAt(CurrentRoot)' = RootAt(CurrentRoot)
  BY <1>1, <1>4 DEF RootAt
<1>6. WalkShape' /\ RowsOnce' /\ JobsOnce' /\ AheadOnce'
  <2>1. WalkShape'
    BY <1>1, <1>2, <1>4, <1>5 DEF Walking, WalkShape
  <2>2. RowsOnce' /\ JobsOnce'
    BY <1>1, <1>2 DEF Walking, RowsOnce, JobsOnce
  <2>3. AheadOnce'
    BY <1>1, <1>2, <1>4, <1>5 DEF Walking, AheadOnce, Untaken
  <2> QED BY <2>1, <2>2, <2>3
<1>7. WalkComplete'
  <2> SUFFICES ASSUME phase = "walking", NEW i \in 1 .. CurrentRoot, NEW w \in WaysOf(firstDisk, i)
               PROVE  Covered(i, w)'
    <3>1. \A i : WaysOf(firstDisk, i)' = WaysOf(firstDisk, i)
      BY <1>1, <1>4 DEF WaysOf
    <3> QED BY <1>1, <1>4, <3>1 DEF WalkComplete
  <2>1. Covered(i, w)
    BY <1>1, <1>2 DEF Walking, WalkComplete
  <2> QED BY <1>1, <1>4, <2>1 DEF Covered, HasRow, HasJob
<1>8. WalkSound'
  <2> SUFFICES ASSUME disk' = firstDisk' PROVE WalkSound'
    BY DEF WalkSound
  <2>1. disk' = disk
    BY <1>1
  <2>2. WalkSound
    BY <1>2 DEF Walking
  <2> QED BY <1>1, <1>4, <2>1, <2>2 DEF WalkSound, WaysOf
<1>9. HungOnlyBy' /\ Arranged' /\ (phase # "scored")'
  BY <1>1 DEF HungOnlyBy, Arranged
<1> QED BY <1>3, <1>6, <1>7, <1>8, <1>9 DEF SelectionInv, Walking

-----------------------------------------------------------------------------
(* The rows are scored.                                                    *)

(* What rows are ranked and sorted by is a number.                         *)
LEMMA ValuesType ==
  ASSUME NEW r \in Rows
  PROVE  /\ ValuesOf(r).key \in Int /\ ValuesOf(r).keyword \in Int
         /\ ValuesOf(r).likeness \in Int /\ ValuesOf(r).formula \in Int
<1>1. r.file \in DOMAIN Values \cup {"leaf"}
  BY DEF Rows
<1>2. MissingKey \in Int
  BY SelectionAssumption
<1>3. CASE r.file = "leaf"
  <2>1. ValuesOf(r) = NoRow
    BY <1>3 DEF ValuesOf
  <2> QED BY <1>2, <2>1 DEF NoRow
<1>4. CASE r.file # "leaf"
  <2>1. ValuesOf(r) = Values[r.file] /\ r.file \in DOMAIN Values
    BY <1>1, <1>4 DEF ValuesOf
  <2>2. {Values[r.file].key, Values[r.file].keyword, Values[r.file].likeness, Values[r.file].formula} \subseteq Int
    BY <2>1, SelectionAssumption
  <2> QED BY <2>1, <2>2
<1> QED BY <1>3, <1>4

LEMMA PositionType ==
  ASSUME NEW rs, Len(rs) \in Nat, NEW score
  PROVE  \A i \in 1 .. Len(rs) : RankedPaths(rs, score)[i] \in Nat
<1> DEFINE n == Len(rs)
           before(i, j) ==
             \/ score[i] > score[j]
             \/ score[i] = score[j] /\ PathBefore(rs[i].shown, rs[j].shown)
             \/ score[i] = score[j] /\ rs[i].shown = rs[j].shown /\ i < j
           T(i) == {j \in 1 .. n : before(j, i)}
<1>1. RankedPaths(rs, score) = [i \in 1 .. n |-> 1 + Cardinality(T(i))]
  BY DEF RankedPaths
<1>2. \A i : Cardinality(T(i)) \in Nat
  <2> TAKE i
  <2>1. IsFiniteSet(1 .. n) /\ T(i) \subseteq 1 .. n
    BY FS_Interval
  <2> HIDE DEF T
  <2> QED BY <2>1, FS_Subset, FS_CardinalityType
<1> HIDE DEF T
<1> QED BY <1>1, <1>2

LEMMA RanksType ==
  ASSUME NEW rs \in Seq(Rows), NEW how
  PROVE  \A i \in 1 .. Len(rs) : FinalizeBM25(rs, how)[i] \in Int
<1> DEFINE n == Len(rs)
<1>0. n \in Nat /\ \A i \in 1 .. n : rs[i] \in Rows
  OBVIOUS
<1>1. \A i \in 1 .. n : ApplyRRF(rs)[i] \in Int
  <2> DEFINE kw == RankedPaths(rs, [i \in 1 .. Len(rs) |-> ValuesOf(rs[i]).keyword])
             vec == RankedPaths(rs, [i \in 1 .. Len(rs) |-> ValuesOf(rs[i]).likeness])
             share == [i \in 1 .. Len(rs) |-> RRFShare(kw[i]) + RRFShare(vec[i])]
             same(i) == {j \in 1 .. Len(rs) : rs[j].shown = rs[i].shown}
  <2>1. \A i \in 1 .. n : kw[i] \in Nat /\ vec[i] \in Nat
    BY <1>0, PositionType
  <2>2. \A m \in Nat : RRFShare(m) \in Int
    BY DEF RRFShare
  <2>3. \A i \in 1 .. n : share[i] \in Int
    <3> HIDE DEF kw, vec
    <3> QED BY <2>1, <2>2
  <2>4. \A i : IsFiniteSet(same(i)) /\ same(i) \subseteq 1 .. n
    <3> TAKE i
    <3>1. IsFiniteSet(1 .. n) /\ same(i) \subseteq 1 .. n
      BY <1>0, FS_Interval
    <3> HIDE DEF same
    <3> QED BY <3>1, FS_Subset
  <2>5. ApplyRRF(rs) = [i \in 1 .. n |-> SumFunctionOnSet(share, same(i))]
    BY DEF ApplyRRF
  <2> HIDE DEF kw, vec, share, same
  <2>6. ASSUME NEW i \in 1 .. n PROVE SumFunctionOnSet(share, same(i)) \in Int
    <3> DEFINE T == same(i)
    <3>1. IsFiniteSet(T) /\ \A x \in T : share[x] \in Int
      BY <2>3, <2>4
    <3> HIDE DEF T
    <3>2. SumFunctionOnSet(share, T) \in Int
      BY <3>1, SumType
    <3> QED BY <3>2 DEF T
  <2> QED BY <2>5, <2>6
<1>2. \A i \in 1 .. n : [m \in 1 .. Len(rs) |-> ValuesOf(rs[m]).formula][i] \in Int
                        /\ [m \in 1 .. Len(rs) |-> ValuesOf(rs[m]).keyword][i] \in Int
                        /\ [m \in 1 .. Len(rs) |-> 0][i] \in Int
  BY <1>0, ValuesType
<1>3. FinalizeBM25(rs, how) \in
        {ApplyRRF(rs), [m \in 1 .. Len(rs) |-> ValuesOf(rs[m]).formula],
         [m \in 1 .. Len(rs) |-> ValuesOf(rs[m]).keyword], [m \in 1 .. Len(rs) |-> 0]}
  BY DEF FinalizeBM25
<1> QED BY <1>1, <1>2, <1>3

LEMMA ScoreStep ==
  ASSUME SelectionInv, NEW a \in Arrangements, ScoreRows(a)
  PROVE  SelectionInv'
<1> DEFINE ranks == FinalizeBM25(rows, a.how)
<1>1. /\ phase' = "scored" /\ disk' = disk /\ option' = option /\ firstDisk' = firstDisk
      /\ rows' = [i \in 1 .. Len(rows) |-> [rows[i] EXCEPT !.rank = ranks[i]]]
      /\ returned' = [rows |-> <<>>, asked |-> {a}]
  BY DEF ScoreRows
<1>2. Given
  BY DEF SelectionInv
<1>3. rows \in Seq(Rows) /\ Len(rows) \in Nat
  BY <1>2 DEF Given
<1>4. \A i \in 1 .. Len(rows) : ranks[i] \in Int
  BY <1>3, RanksType
<1> HIDE DEF ranks
<1>5. ASSUME NEW i \in 1 .. Len(rows) PROVE [rows[i] EXCEPT !.rank = ranks[i]] \in Rows
  <2>1. rows[i] \in Rows /\ ranks[i] \in Int
    BY <1>3, <1>4
  <2> QED BY <2>1 DEF Rows
<1>6. rows' \in Seq(Rows)
  <2> DEFINE n == Len(rows)
             row(i) == [rows[i] EXCEPT !.rank = ranks[i]]
  <2>1. rows' = [i \in 1 .. n |-> row(i)] /\ n \in Nat /\ \A i \in 1 .. n : row(i) \in Rows
    BY <1>1, <1>3, <1>5
  <2> HIDE DEF n, row
  <2> QED BY <2>1
<1>7. returned' = [rows |-> <<>>, asked |-> {a}]
  BY <1>1
<1>8. IsTree(disk)' /\ IsTree(firstDisk)'
  BY <1>1, <1>2 DEF Given, IsTree, IsSpot
<1>9. Given'
  BY <1>1, <1>2, <1>6, <1>8 DEF Given
<1>10. HungOnlyBy' /\ Arranged' /\ ~Going'
  BY <1>1 DEF HungOnlyBy, Arranged, Going
<1>11. RowsOnce'
  <2>1. RowsOnce
    BY DEF SelectionInv, ScoreRows, WalkDone, Going, Walking
  <2>2. Len(rows') = Len(rows) /\ \A i \in 1 .. Len(rows) : rows[i] \in Rows /\ rows'[i] = [rows[i] EXCEPT !.rank = ranks[i]]
    BY <1>1, <1>3
  <2>3. \A i \in 1 .. Len(rows) : rows'[i].shown = rows[i].shown /\ rows'[i].root = rows[i].root
    BY <2>2 DEF Rows
  <2> QED BY <2>1, <2>2, <2>3 DEF RowsOnce, Same
<1> QED BY <1>7, <1>9, <1>10, <1>11 DEF SelectionInv

-----------------------------------------------------------------------------
(* Comparing rows orders them by their places of arrival, too.             *)

(* The comparisons are consistent.                                         *)
LEMMA IntCompares ==
  /\ \A x, y \in Int : CmpInt(x, y) \in {-1, 0, 1} /\ CmpInt(y, x) = -CmpInt(x, y)
  /\ \A x, y, z \in Int : CmpInt(x, y) <= 0 /\ CmpInt(y, z) <= 0 =>
       /\ CmpInt(x, z) <= 0
       /\ CmpInt(x, z) = 0 => CmpInt(x, y) = 0 /\ CmpInt(y, z) = 0
<1>1. \A x, y \in Int : CmpInt(x, y) = IF x < y THEN -1 ELSE IF x > y THEN 1 ELSE 0
  BY DEF CmpInt
<1> QED BY <1>1

LEMMA KeyCompares ==
  /\ \A x, y \in Int : CmpKey(x, y) \in {-1, 0, 1} /\ CmpKey(y, x) = -CmpKey(x, y)
  /\ \A x, y, z \in Int : CmpKey(x, y) <= 0 /\ CmpKey(y, z) <= 0 =>
       /\ CmpKey(x, z) <= 0
       /\ CmpKey(x, z) = 0 => CmpKey(x, y) = 0 /\ CmpKey(y, z) = 0
<1>1. \A x, y : CmpKey(x, y) = IF x = MissingKey THEN IF y = MissingKey THEN 0 ELSE 1
                               ELSE IF y = MissingKey THEN -1 ELSE CmpInt(x, y)
  BY DEF CmpKey
<1>2. \A x, y \in Int : CmpKey(x, y) \in {-1, 0, 1} /\ CmpKey(y, x) = -CmpKey(x, y)
  BY <1>1, IntCompares
<1>3. \A x, y, z \in Int : CmpKey(x, y) <= 0 /\ CmpKey(y, z) <= 0 =>
       /\ CmpKey(x, z) <= 0
       /\ CmpKey(x, z) = 0 => CmpKey(x, y) = 0 /\ CmpKey(y, z) = 0
  BY <1>1, IntCompares
<1> QED BY <1>2, <1>3

LEMMA RowsCompare ==
  ASSUME NEW how
  PROVE  /\ \A x, y \in Rows : CompareByKey(how, x, y) \in {-1, 0, 1} /\ CompareByKey(how, y, x) = -CompareByKey(how, x, y)
         /\ \A x, y, z \in Rows : CompareByKey(how, x, y) <= 0 /\ CompareByKey(how, y, z) <= 0 =>
              /\ CompareByKey(how, x, z) <= 0
              /\ CompareByKey(how, x, z) = 0 => CompareByKey(how, x, y) = 0 /\ CompareByKey(how, y, z) = 0
<1>1. \A x \in Rows : ValuesOf(x).key \in Int /\ x.rank \in Int
  BY ValuesType DEF Rows
<1>2. CASE how = "key"
  <2>1. \A x, y : CompareByKey(how, x, y) = CmpKey(ValuesOf(x).key, ValuesOf(y).key)
    BY <1>2 DEF CompareByKey
  <2> QED BY <1>1, <2>1, KeyCompares
<1>3. CASE how = "arrival"
  <2>1. \A x, y : CompareByKey(how, x, y) = 0
    BY <1>3 DEF CompareByKey
  <2> QED BY <2>1
<1>4. CASE how \notin {"key", "arrival"}
  <2>1. \A x, y : CompareByKey(how, x, y) = CmpInt(x.rank, y.rank)
    BY <1>4 DEF CompareByKey
  <2> QED BY <1>1, <2>1, IntCompares
<1> QED BY <1>2, <1>3, <1>4

(* Which of two rows, by their places of arrival, comes first.             *)
Precedes(rs, how, desc, i, j) ==
  LET c == CompareByKey(how, rs[i], rs[j])
  IN  IF c = 0 THEN i < j ELSE IF desc THEN c > 0 ELSE c < 0
Order(rs, how, desc) ==
  {p \in (1 .. Len(rs)) \X (1 .. Len(rs)) : Precedes(rs, how, desc, p[1], p[2])}

LEMMA OrderIs ==
  ASSUME NEW rs \in Seq(Rows), NEW how, NEW desc \in BOOLEAN
  PROVE  /\ \A i, j \in 1 .. Len(rs) : <<i, j>> \in Order(rs, how, desc) <=> Precedes(rs, how, desc, i, j)
         /\ Orders(Order(rs, how, desc), 1 .. Len(rs))
         /\ \A i \in 1 .. Len(rs) : <<i, i>> \notin Order(rs, how, desc)
         /\ \A i, j \in 1 .. Len(rs) : <<i, j>> \in Order(rs, how, desc) => <<j, i>> \notin Order(rs, how, desc)
<1> DEFINE n == Len(rs)
           R == Order(rs, how, desc)
           c(i, j) == CompareByKey(how, rs[i], rs[j])
<1>1. n \in Nat /\ \A i \in 1 .. n : rs[i] \in Rows
  OBVIOUS
<1>2. /\ \A i, j \in 1 .. n : c(i, j) \in {-1, 0, 1} /\ c(j, i) = -c(i, j)
      /\ \A i, j, k \in 1 .. n : c(i, j) <= 0 /\ c(j, k) <= 0 =>
           c(i, k) <= 0 /\ (c(i, k) = 0 => c(i, j) = 0 /\ c(j, k) = 0)
  BY <1>1, RowsCompare
<1>3. \A i, j \in 1 .. n : <<i, j>> \in R <=> IF c(i, j) = 0 THEN i < j ELSE IF desc THEN c(i, j) > 0 ELSE c(i, j) < 0
  BY DEF Order, Precedes
<1>4. \A i, j \in 1 .. n : <<i, j>> \in R <=> Precedes(rs, how, desc, i, j)
  BY DEF Order
<1> HIDE DEF c, R, n
<1>5. \A i \in 1 .. n : <<i, i>> \notin R
  BY <1>1, <1>2, <1>3
<1>6. \A i, j \in 1 .. n : <<i, j>> \in R => <<j, i>> \notin R
  BY <1>1, <1>2, <1>3
<1>7. \A i, j \in 1 .. n : i # j => <<i, j>> \in R \/ <<j, i>> \in R
  BY <1>1, <1>2, <1>3
<1>8. \A i, j, k \in 1 .. n : <<i, j>> \in R /\ <<j, k>> \in R => <<i, k>> \in R
  <2> SUFFICES ASSUME NEW i \in 1 .. n, NEW j \in 1 .. n, NEW k \in 1 .. n, <<i, j>> \in R, <<j, k>> \in R
               PROVE  <<i, k>> \in R
    OBVIOUS
  <2>1. CASE desc
    <3>1. c(j, i) <= 0 /\ c(k, j) <= 0
      BY <1>2, <1>3, <2>1
    <3>2. c(k, i) <= 0 /\ (c(k, i) = 0 => c(k, j) = 0 /\ c(j, i) = 0)
      BY <1>2, <3>1
    <3> QED BY <1>1, <1>2, <1>3, <2>1, <3>1, <3>2
  <2>2. CASE ~desc
    <3>1. c(i, j) <= 0 /\ c(j, k) <= 0
      BY <1>2, <1>3, <2>2
    <3>2. c(i, k) <= 0 /\ (c(i, k) = 0 => c(i, j) = 0 /\ c(j, k) = 0)
      BY <1>2, <3>1
    <3> QED BY <1>1, <1>2, <1>3, <2>2, <3>1, <3>2
  <2> QED BY <2>1, <2>2
<1>9. Orders(R, 1 .. n)
  BY <1>5, <1>7, <1>8 DEF Orders
<1> QED BY <1>4, <1>5, <1>6, <1>9 DEF R, n

(* Inserting a row.                                                        *)

(* Something put into a sequence.                                          *)
LEMMA Inserted ==
  ASSUME NEW S, NEW s \in Seq(S), NEW x \in S, NEW i \in 1 .. Len(s) + 1
  PROVE  /\ InsertAt(s, i, x) \in Seq(S) /\ Len(InsertAt(s, i, x)) = Len(s) + 1
         /\ \A j \in 1 .. Len(s) + 1 :
              InsertAt(s, i, x)[j] = IF j < i THEN s[j] ELSE IF j = i THEN x ELSE s[j - 1]
<1> DEFINE n == Len(s)
           a == SubSeq(s, 1, i - 1)
           b == <<x>>
           c == SubSeq(s, i, n)
<1>0. n \in Nat /\ \A j \in 1 .. n : s[j] \in S
  OBVIOUS
<1>1. a \in Seq(S) /\ Len(a) = i - 1 /\ \A j \in 1 .. i - 1 : a[j] = s[j]
  <2>1. \A j \in 1 .. i - 1 : s[j] \in S
    BY <1>0
  <2> QED BY <2>1, SubSeqProperties
<1>2. c \in Seq(S) /\ Len(c) = n - i + 1 /\ \A j \in 1 .. n - i + 1 : c[j] = s[i + j - 1]
  <2>1. \A j \in i .. n : s[j] \in S
    BY <1>0
  <2> QED BY <1>0, <2>1, SubSeqProperties
<1>3. b \in Seq(S) /\ Len(b) = 1 /\ b[1] = x
  OBVIOUS
<1>4. InsertAt(s, i, x) = (a \o b) \o c
  BY DEF InsertAt
<1> HIDE DEF n, a, b, c
<1> DEFINE ab == a \o b
<1>5. ab \in Seq(S) /\ Len(ab) = i /\ ab[i] = x /\ \A j \in 1 .. i - 1 : ab[j] = s[j]
  <2>1. /\ ab \in Seq(S) /\ Len(ab) = Len(a) + Len(b)
        /\ \A j \in 1 .. Len(a) + Len(b) : ab[j] = IF j <= Len(a) THEN a[j] ELSE b[j - Len(a)]
    BY <1>1, <1>3, ConcatProperties
  <2>2. Len(a) + Len(b) = i /\ i \in 1 .. i /\ ~(i <= Len(a)) /\ i - Len(a) = 1
    BY <1>1, <1>3
  <2>3. \A j \in 1 .. i - 1 : ab[j] = s[j]
    BY <1>1, <2>1, <2>2
  <2>4. ab[i] = b[i - Len(a)]
    BY <2>1, <2>2
  <2>5. ab[i] = x
    BY <1>3, <2>2, <2>4
  <2> QED BY <2>1, <2>2, <2>3, <2>5
<1> HIDE DEF ab
<1> DEFINE t == ab \o c
<1>6. /\ t \in Seq(S) /\ Len(t) = Len(ab) + Len(c)
      /\ \A j \in 1 .. Len(ab) + Len(c) : t[j] = IF j <= Len(ab) THEN ab[j] ELSE c[j - Len(ab)]
  BY <1>2, <1>5, ConcatProperties
<1>7. Len(ab) + Len(c) = n + 1
  BY <1>0, <1>2, <1>5
<1> HIDE DEF t
<1>8. ASSUME NEW j \in 1 .. n + 1 PROVE t[j] = IF j < i THEN s[j] ELSE IF j = i THEN x ELSE s[j - 1]
  <2>0. CASE j < i
    BY <1>5, <1>6, <1>7, <2>0
  <2>1. CASE j = i
    BY <1>5, <1>6, <1>7, <2>1
  <2>2. CASE j > i
    <3>1. ~(j <= Len(ab)) /\ j - Len(ab) = j - i /\ j - i \in 1 .. n - i + 1 /\ i + (j - i) - 1 = j - 1
      BY <1>0, <1>5, <2>2
    <3>2. t[j] = c[j - i]
      BY <1>6, <1>7, <3>1
    <3>3. c[j - i] = s[i + (j - i) - 1]
      BY <1>2, <3>1
    <3> QED BY <2>2, <3>1, <3>2, <3>3
  <2> QED BY <1>0, <2>0, <2>1, <2>2
<1>9. InsertAt(s, i, x) = t
  BY <1>4 DEF ab, t
<1> QED BY <1>6, <1>7, <1>8, <1>9 DEF n

(* The place after the last of some places.                                *)
After(T) == IF T = {} THEN 1 ELSE 1 + CHOOSE i \in T : \A j \in T : j <= i
LEMMA AfterLast ==
  ASSUME NEW n \in Nat, NEW T \in SUBSET (1 .. n)
  PROVE  /\ After(T) \in 1 .. n + 1 /\ \A i \in T : i < After(T)
         /\ After(T) > 1 => After(T) - 1 \in T
<1>1. CASE T = {}
  BY <1>1 DEF After
<1>2. CASE T # {}
  <2> DEFINE S == {n - i : i \in T}
  <2>0. \A h \in T : h \in 1 .. n /\ n - h \in Nat
    OBVIOUS
  <2>1. S \in SUBSET Nat /\ S # {}
    BY <1>2, <2>0
  <2>2. PICK m \in S : \A k \in S : m <= k
    BY <2>1, LeastNat
  <2>3. PICK i \in T : m = n - i
    BY <2>2
  <2>4. \A j \in T : j <= i
    <3> SUFFICES ASSUME NEW j \in T PROVE j <= i
      OBVIOUS
    <3>1. n - i <= n - j
      BY <2>2, <2>3
    <3> QED BY <3>1
  <2>5. PICK k \in T : k = (CHOOSE h \in T : \A j \in T : j <= h) /\ \A j \in T : j <= k
    BY <2>3, <2>4
  <2>6. After(T) = 1 + k
    BY <1>2, <2>5 DEF After
  <2>7. k \in 1 .. n
    BY <2>0
  <2>8. \A j \in T : j < After(T)
    BY <2>0, <2>5, <2>6, <2>7
  <2> QED BY <2>5, <2>6, <2>7, <2>8
<1> QED BY <1>1, <1>2

Stays(list, x, how, desc) == {i \in 1 .. Len(list) : ~IsLess(how, desc, x, list[i])}
LEMMA InsertIs ==
  ASSUME NEW S, NEW list \in Seq(S), NEW x \in S, NEW how, NEW desc
  PROVE  LET t == StableInsert(list, x, how, desc)
             at == After(Stays(list, x, how, desc))
         IN  /\ at \in 1 .. Len(list) + 1
             /\ \A i \in Stays(list, x, how, desc) : i < at
             /\ at > 1 => at - 1 \in Stays(list, x, how, desc)
             /\ t \in Seq(S) /\ Len(t) = Len(list) + 1
             /\ \A j \in 1 .. Len(list) + 1 : t[j] = IF j < at THEN list[j] ELSE IF j = at THEN x ELSE list[j - 1]
<1> DEFINE T == Stays(list, x, how, desc)
           at == After(T)
           n == Len(list)
<1>1. n \in Nat /\ T \in SUBSET (1 .. n)
  BY DEF Stays
<1>2. StableInsert(list, x, how, desc) = InsertAt(list, at, x)
  BY DEF StableInsert, After, Stays
<1> HIDE DEF T
<1>3. at \in 1 .. n + 1 /\ (\A i \in T : i < at) /\ (at > 1 => at - 1 \in T)
  BY <1>1, AfterLast
<1> HIDE DEF at
<1>4. /\ InsertAt(list, at, x) \in Seq(S) /\ Len(InsertAt(list, at, x)) = n + 1
      /\ \A j \in 1 .. n + 1 :
           InsertAt(list, at, x)[j] = IF j < at THEN list[j] ELSE IF j = at THEN x ELSE list[j - 1]
  BY <1>3, Inserted
<1> QED BY <1>2, <1>3, <1>4 DEF at, T

LEMMA InsertType ==
  ASSUME NEW S, NEW list \in Seq(S), NEW x \in S, NEW how, NEW desc
  PROVE  StableInsert(list, x, how, desc) \in Seq(S)
<1> DEFINE t == StableInsert(list, x, how, desc)
<1>1. t \in Seq(S)
  BY InsertIs
<1> QED BY <1>1

(* SortResults, row by row.                                                *)
SortsBy(f, N, how, desc) ==
  /\ f[<<>>] = <<>> /\ \A p \in Seq(N) : f[p] \in Seq(N)
  /\ \A p \in Seq(N), n \in N : f[Append(p, n)] = StableInsert(f[p], n, how, desc)

LEMMA SortedIs ==
  ASSUME NEW rs, rs \in Seq(Range(rs)), NEW how, NEW desc
  PROVE  \E f : SortsBy(f, Range(rs), how, desc) /\ SortResults(rs, how, desc) = f[rs]
<1> DEFINE N == Range(rs)
           S == Seq(N)
           step == [x \in S \X N |-> StableInsert(x[1], x[2], how, desc)]
           Body(g) == [s \in Seq(N) |->
                         IF s = <<>> THEN <<>> ELSE StableInsert(g[Front(s)], Last(s), how, desc)]
           sorted == CHOOSE g : g = Body(g)
<1>1. step \in [S \X N -> S] /\ <<>> \in S
      /\ \A s \in S, n \in N : step[<<s, n>>] = StableInsert(s, n, how, desc)
  <2>1. \A s \in S, n \in N : StableInsert(s, n, how, desc) \in S
    <3> HIDE DEF N
    <3> SUFFICES ASSUME NEW s \in Seq(N), NEW n \in N PROVE StableInsert(s, n, how, desc) \in Seq(N)
      OBVIOUS
    <3>1. s \in Seq(N) /\ n \in N
      OBVIOUS
    <3> QED BY ONLY <3>1, InsertType
  <2>2. <<>> \in S
    OBVIOUS
  <2> HIDE DEF S, N
  <2>3. \A s \in S, n \in N : step[<<s, n>>] = StableInsert(s, n, how, desc)
    OBVIOUS
  <2>4. step \in [S \X N -> S]
    <3>1. \A x \in S \X N : StableInsert(x[1], x[2], how, desc) \in S
      <4> SUFFICES ASSUME NEW x \in S \X N PROVE StableInsert(x[1], x[2], how, desc) \in S
        OBVIOUS
      <4>1. x[1] \in S /\ x[2] \in N
        OBVIOUS
      <4> QED BY <2>1, <4>1
    <3> QED BY ONLY <3>1
  <2> QED BY <2>2, <2>3, <2>4
<1> HIDE DEF step, N
<1>2. PICK f : /\ f \in [Seq(N) -> S] /\ f[<<>>] = <<>>
               /\ \A p \in Seq(N), n \in N : f[Append(p, n)] = step[<<f[p], n>>]
  <2> DEFINE base == <<>>
  <2>1. base \in S /\ step \in [S \X N -> S]
    BY <1>1
  <2> HIDE DEF base, S
  <2>2. PICK f : Recurs(f, N, S, base, step)
    BY <2>1, SeqRecursion
  <2> QED BY <2>2 DEF Recurs, base
<1>3. \A p \in Seq(N), n \in N : f[Append(p, n)] = StableInsert(f[p], n, how, desc)
  BY <1>1, <1>2
<1>4. ASSUME NEW q \in Seq(N) PROVE f[q] = Body(f)[q]
  <2>1. CASE q = <<>>
    BY <1>2, <2>1
  <2>2. CASE q # <<>>
    <3>1. PICK p \in Seq(N), n \in N : q = Append(p, n)
      BY <2>2, SequenceEmptyOrAppend
    <3>2. Front(q) = p /\ Last(q) = n
      BY <3>1, FrontLast
    <3> QED BY <1>3, <2>2, <3>1, <3>2
  <2> QED BY <2>1, <2>2
<1>5. f = Body(f)
  BY <1>2, <1>4
<1> HIDE DEF Body
<1>6. sorted = Body(sorted)
  BY <1>5
<1> HIDE DEF sorted
<1>7. sorted[<<>>] = <<>>
  <2>1. <<>> \in Seq(N)
    OBVIOUS
  <2> QED BY <1>6, <2>1 DEF Body
<1>8. ASSUME NEW p \in Seq(N), NEW n \in N
      PROVE  sorted[Append(p, n)] = StableInsert(sorted[p], n, how, desc)
  <2>1. Append(p, n) \in Seq(N) /\ Append(p, n) # <<>>
        /\ Front(Append(p, n)) = p /\ Last(Append(p, n)) = n
    BY FrontLast, AppendProperties
  <2> QED BY <1>6, <2>1 DEF Body
<1>9. \A p \in Seq(N) : sorted[p] = f[p]
  <2>1. \A p \in Seq(N), n \in N : sorted[p] = f[p] => sorted[Append(p, n)] = f[Append(p, n)]
    BY <1>3, <1>8
  <2>2. Continue(sorted, f, N)
    BY <1>2, <1>7, <2>1 DEF Continue
  <2> QED BY <2>2, SeqUnique
<1>10. SortResults(rs, how, desc) = sorted[rs]
  BY DEF SortResults, sorted, Body, N
<1>11. rs \in Seq(N)
  BY DEF N
<1>12. SortsBy(f, N, how, desc)
  BY <1>2, <1>3 DEF SortsBy
<1> QED BY <1>9, <1>10, <1>11, <1>12 DEF N

(* The rows of rs in order: where in rs each one is.                       *)
InOrder(sigma, list, rs, how, desc) ==
  /\ Len(list) = Len(rs) /\ sigma \in [1 .. Len(rs) -> 1 .. Len(rs)]
  /\ \A i \in 1 .. Len(rs) : list[i] = rs[sigma[i]]
  /\ \A i, j \in 1 .. Len(rs) : i < j => <<sigma[i], sigma[j]>> \in Order(rs, how, desc)
  /\ \A y \in 1 .. Len(rs) : \E i \in 1 .. Len(rs) : sigma[i] = y

LEMMA InsertInOrder ==
  ASSUME NEW p \in Seq(Rows), NEW x \in Rows, NEW list \in Seq(Rows), NEW how, NEW desc \in BOOLEAN,
         NEW sigma, InOrder(sigma, list, p, how, desc), NEW q, q = Append(p, x)
  PROVE  \E tau : InOrder(tau, StableInsert(list, x, how, desc), q, how, desc)
<1> DEFINE k == Len(p)
           R == Order(q, how, desc)
           T == Stays(list, x, how, desc)
           at == After(T)
           t == StableInsert(list, x, how, desc)
           tau == [i \in 1 .. k + 1 |-> IF i < at THEN sigma[i] ELSE IF i = at THEN k + 1 ELSE sigma[i - 1]]
<1>1. k \in Nat /\ q \in Seq(Rows) /\ Len(q) = k + 1 /\ q[k + 1] = x /\ \A i \in 1 .. k : q[i] = p[i]
  BY Appended
<1>2. /\ Len(list) = k /\ sigma \in [1 .. k -> 1 .. k] /\ (\A i \in 1 .. k : list[i] = p[sigma[i]])
      /\ (\A i, j \in 1 .. k : i < j => <<sigma[i], sigma[j]>> \in Order(p, how, desc))
      /\ \A y \in 1 .. k : \E i \in 1 .. k : sigma[i] = y
  BY DEF InOrder
<1>t. \A i \in 1 .. k : /\ sigma[i] \in 1 .. k /\ sigma[i] \in 1 .. k + 1 /\ sigma[i] < k + 1
                        /\ sigma[i] # k + 1 /\ q[sigma[i]] = list[i]
  <2> SUFFICES ASSUME NEW i \in 1 .. k
               PROVE  /\ sigma[i] \in 1 .. k /\ sigma[i] \in 1 .. k + 1 /\ sigma[i] < k + 1
                      /\ sigma[i] # k + 1 /\ q[sigma[i]] = list[i]
    OBVIOUS
  <2> DEFINE m == sigma[i]
  <2>1. m \in 1 .. k /\ list[i] = p[m]
    BY <1>2
  <2> HIDE DEF m
  <2>2. m \in 1 .. k + 1 /\ m < k + 1 /\ m # k + 1 /\ q[m] = list[i]
    BY <1>1, <2>1
  <2> QED BY <2>1, <2>2 DEF m
<1>k. k + 1 \in 1 .. k + 1
  BY <1>1
<1>3. /\ at \in 1 .. k + 1 /\ (\A i \in T : i < at) /\ (at > 1 => at - 1 \in T)
      /\ t \in Seq(Rows) /\ Len(t) = k + 1
      /\ \A j \in 1 .. k + 1 : t[j] = IF j < at THEN list[j] ELSE IF j = at THEN x ELSE list[j - 1]
  <2> HIDE DEF T
  <2> HIDE DEF t, at
  <2> QED BY <1>2, InsertIs DEF t, at, T
<1>4. /\ \A i, j \in 1 .. k + 1 : <<i, j>> \in R <=> Precedes(q, how, desc, i, j)
      /\ Orders(R, 1 .. k + 1)
  <2> DEFINE n == Len(q)
  <2>1. q \in Seq(Rows) /\ desc \in BOOLEAN /\ n = k + 1
    BY <1>1
  <2> HIDE DEF n, R, k
  <2>2. /\ \A i, j \in 1 .. n : <<i, j>> \in R <=> Precedes(q, how, desc, i, j)
        /\ Orders(R, 1 .. n)
    BY ONLY <2>1, OrderIs DEF n, R
  <2> QED BY ONLY <2>1, <2>2
<1>5. \A i, j \in 1 .. k : i < j => <<sigma[i], sigma[j]>> \in R
  <2> SUFFICES ASSUME NEW i \in 1 .. k, NEW j \in 1 .. k, i < j PROVE <<sigma[i], sigma[j]>> \in R
    OBVIOUS
  <2> DEFINE m == sigma[i]
             n == sigma[j]
  <2>1. m \in 1 .. k /\ n \in 1 .. k /\ m \in 1 .. k + 1 /\ n \in 1 .. k + 1 /\ <<m, n>> \in Order(p, how, desc)
    BY <1>2, <1>t
  <2> HIDE DEF m, n, R
  <2>2. Precedes(p, how, desc, m, n)
    BY <2>1 DEF Order
  <2>3. Precedes(q, how, desc, m, n)
    BY <1>1, <2>1, <2>2 DEF Precedes
  <2> QED BY <1>4, <2>1, <2>3 DEF m, n
<1>6. \A i \in 1 .. k : i \in T <=> <<sigma[i], k + 1>> \in R
  <2> SUFFICES ASSUME NEW i \in 1 .. k PROVE i \in T <=> <<sigma[i], k + 1>> \in R
    OBVIOUS
  <2> DEFINE m == sigma[i]
             c == CompareByKey(how, list[i], x)
             c2 == CompareByKey(how, x, list[i])
  <2>1. m \in 1 .. k /\ m \in 1 .. k + 1 /\ k + 1 \in 1 .. k + 1 /\ q[m] = list[i] /\ m < k + 1
    BY <1>k, <1>t
  <2>2. list[i] \in Rows
    BY <1>2
  <2>3. c \in {-1, 0, 1} /\ c2 = -c
    BY <2>2, RowsCompare
  <2>4. i \in T <=> ~(IF desc THEN c2 > 0 ELSE c2 < 0)
    BY <1>2 DEF Stays, IsLess
  <2>5. Precedes(q, how, desc, m, k + 1) <=> IF c = 0 THEN m < k + 1 ELSE IF desc THEN c > 0 ELSE c < 0
    BY <1>1, <2>1 DEF Precedes
  <2>6. <<m, k + 1>> \in R <=> Precedes(q, how, desc, m, k + 1)
    BY <1>4, <2>1
  <2> HIDE DEF c, c2, m, R, T
  <2>7. i \in T <=> <<m, k + 1>> \in R
    BY <2>1, <2>3, <2>4, <2>5, <2>6
  <2> QED BY <2>7 DEF m
<1> HIDE DEF T, at, R, t, tau
<1>7. \A i \in 1 .. k : i < at <=> <<sigma[i], k + 1>> \in R
  <2> SUFFICES ASSUME NEW i \in 1 .. k PROVE i < at <=> i \in T
    BY <1>6
  <2>1. i \in T => i < at
    BY <1>3
  <2>2. ASSUME i < at PROVE i \in T
    <3>1. at > 1 /\ at - 1 \in T /\ at - 1 \in 1 .. k
      BY <1>1, <1>3, <2>2
    <3>2. CASE i = at - 1
      BY <3>1, <3>2
    <3>3. CASE i < at - 1
      <4>1. <<sigma[i], sigma[at - 1]>> \in R /\ <<sigma[at - 1], k + 1>> \in R
        BY <1>5, <1>6, <3>1, <3>3
      <4>2. sigma[i] \in 1 .. k + 1 /\ sigma[at - 1] \in 1 .. k + 1 /\ k + 1 \in 1 .. k + 1
        BY <1>k, <1>t, <3>1
      <4>3. <<sigma[i], k + 1>> \in R
        BY <1>4, <4>1, <4>2 DEF Orders
      <4> QED BY <1>6, <4>3
    <3> QED BY <1>1, <1>3, <2>2, <3>2, <3>3
  <2> QED BY <2>1, <2>2
<1>8. \A i \in 1 .. k : ~(i < at) => <<k + 1, sigma[i]>> \in R
  <2> SUFFICES ASSUME NEW i \in 1 .. k, ~(i < at) PROVE <<k + 1, sigma[i]>> \in R
    OBVIOUS
  <2>1. <<sigma[i], k + 1>> \notin R
    BY <1>7
  <2>2. sigma[i] \in 1 .. k + 1 /\ k + 1 \in 1 .. k + 1 /\ sigma[i] # k + 1
    BY <1>k, <1>t
  <2> QED BY <1>4, <2>1, <2>2 DEF Orders
<1>9. /\ \A i \in 1 .. k + 1 : i < at => i \in 1 .. k /\ tau[i] = sigma[i]
      /\ \A i \in 1 .. k + 1 : i = at => tau[i] = k + 1
      /\ \A i \in 1 .. k + 1 : i > at => i - 1 \in 1 .. k /\ tau[i] = sigma[i - 1] /\ ~(i - 1 < at)
      /\ DOMAIN tau = 1 .. k + 1
  BY <1>1, <1>3 DEF tau
<1>10. tau \in [1 .. k + 1 -> 1 .. k + 1]
  <2>1. ASSUME NEW i \in 1 .. k + 1 PROVE tau[i] \in 1 .. k + 1
    <3>1. CASE i < at
      <4>1. i \in 1 .. k /\ tau[i] = sigma[i]
        BY <1>9, <3>1
      <4> QED BY <1>t, <4>1
    <3>2. CASE i = at
      BY <1>1, <1>9, <3>2
    <3>3. CASE i > at
      <4> DEFINE m == i - 1
      <4>1. m \in 1 .. k /\ tau[i] = sigma[m]
        BY <1>9, <3>3
      <4> HIDE DEF m
      <4> QED BY <1>t, <4>1
    <3> QED BY <1>3, <3>1, <3>2, <3>3
  <2>2. tau = [i \in 1 .. k + 1 |-> tau[i]]
    BY DEF tau
  <2> QED BY <2>1, <2>2
<1>11. \A i \in 1 .. k + 1 : t[i] = q[tau[i]]
  <2> SUFFICES ASSUME NEW i \in 1 .. k + 1 PROVE t[i] = q[tau[i]]
    OBVIOUS
  <2>1. CASE i < at
    <3>1. i \in 1 .. k /\ tau[i] = sigma[i] /\ t[i] = list[i]
      BY <1>3, <1>9, <2>1
    <3> QED BY <1>t, <3>1
  <2>2. CASE i = at
    <3>1. t[i] = x /\ tau[i] = k + 1
      BY <1>3, <1>9, <2>2
    <3> QED BY <1>1, <3>1
  <2>3. CASE i > at
    <3> DEFINE m == i - 1
    <3>1. m \in 1 .. k /\ tau[i] = sigma[m] /\ t[i] = list[m]
      BY <1>3, <1>9, <2>3
    <3> HIDE DEF m
    <3> QED BY <1>t, <3>1
  <2>4. i < at \/ i = at \/ i > at
    BY <1>1, <1>3
  <2> QED BY ONLY <2>1, <2>2, <2>3, <2>4
<1>12. \A i, j \in 1 .. k + 1 : i < j => <<tau[i], tau[j]>> \in R
  <2> SUFFICES ASSUME NEW i \in 1 .. k + 1, NEW j \in 1 .. k + 1, i < j PROVE <<tau[i], tau[j]>> \in R
    OBVIOUS
  <2>1. CASE j < at
    <3>1. i < at
      BY <1>3, <2>1
    <3> QED BY <1>5, <1>9, <2>1, <3>1
  <2>2. CASE j = at
    BY <1>7, <1>9, <2>2
  <2>3. CASE j > at
    <3> DEFINE m == j - 1
    <3>1. m \in 1 .. k /\ tau[j] = sigma[m] /\ ~(m < at)
      BY <1>9, <2>3
    <3>2. CASE i < at
      <4>1. i < m
        BY <1>3, <2>3, <3>2
      <4>2. i \in 1 .. k /\ tau[i] = sigma[i]
        BY <1>9, <3>2
      <4> HIDE DEF m
      <4> QED BY <1>5, <3>1, <4>1, <4>2
    <3>3. CASE i = at
      <4>1. tau[i] = k + 1
        BY <1>9, <3>3
      <4> HIDE DEF m
      <4> QED BY <1>8, <3>1, <4>1
    <3>4. CASE i > at
      <4> DEFINE n == i - 1
      <4>1. n \in 1 .. k /\ tau[i] = sigma[n] /\ n < m
        BY <1>9, <3>4
      <4> HIDE DEF m, n
      <4> QED BY <1>5, <3>1, <4>1
    <3> QED BY <1>3, <3>2, <3>3, <3>4
  <2> QED BY <1>3, <2>1, <2>2, <2>3
<1>13. \A y \in 1 .. k + 1 : \E i \in 1 .. k + 1 : tau[i] = y
  <2> SUFFICES ASSUME NEW y \in 1 .. k + 1 PROVE \E i \in 1 .. k + 1 : tau[i] = y
    OBVIOUS
  <2>1. CASE y = k + 1
    BY <1>3, <1>9, <2>1
  <2>2. CASE y # k + 1
    <3>1. y \in 1 .. k
      BY <1>1, <2>2
    <3>2. PICK i \in 1 .. k : sigma[i] = y
      BY <1>2, <3>1
    <3>3. CASE i < at
      <4>1. i \in 1 .. k + 1 /\ tau[i] = sigma[i]
        BY <1>1, <1>9, <3>3
      <4> QED BY <3>2, <4>1
    <3>4. CASE ~(i < at)
      <4> DEFINE m == i + 1
      <4>1. m \in 1 .. k + 1 /\ m > at /\ m - 1 = i
        BY <1>1, <1>3, <3>4
      <4> HIDE DEF m
      <4>2. tau[m] = sigma[i]
        BY <1>9, <4>1
      <4> QED BY <3>2, <4>1, <4>2
    <3> QED BY <3>3, <3>4
  <2> QED BY <2>1, <2>2
<1>14. InOrder(tau, t, q, how, desc)
  BY <1>1, <1>3, <1>10, <1>11, <1>12, <1>13 DEF InOrder, R
<1> QED BY <1>14 DEF t

LEMMA AllInOrder ==
  ASSUME NEW N, N \subseteq Rows, NEW f, NEW how, NEW desc \in BOOLEAN, SortsBy(f, N, how, desc)
  PROVE  \A p \in Seq(N) : \E sigma : InOrder(sigma, f[p], p, how, desc)
<1> DEFINE P(p) == \E sigma : InOrder(sigma, f[p], p, how, desc)
           K == {k \in Nat : \A p \in Seq(N) : Len(p) = k => P(p)}
<1>1. 0 \in K
  <2> SUFFICES ASSUME NEW p \in Seq(N), Len(p) = 0 PROVE P(p)
    OBVIOUS
  <2>1. p = <<>>
    BY EmptySeq
  <2>2. f[p] = <<>>
    BY <2>1 DEF SortsBy
  <2>3. InOrder(<<>>, <<>>, <<>>, how, desc)
    BY DEF InOrder
  <2> QED BY <2>1, <2>2, <2>3
<1>2. ASSUME NEW k \in Nat, k \in K PROVE k + 1 \in K
  <2> SUFFICES ASSUME NEW q \in Seq(N), Len(q) = k + 1 PROVE P(q)
    OBVIOUS
  <2>1. q # <<>>
    BY EmptySeq
  <2>2. PICK p \in Seq(N), x \in N : q = Append(p, x)
    BY <2>1, SequenceEmptyOrAppend
  <2>3. Len(p) = k
    BY <2>2, AppendProperties
  <2>4. PICK sigma : InOrder(sigma, f[p], p, how, desc)
    BY <1>2, <2>3
  <2>5. f[q] = StableInsert(f[p], x, how, desc) /\ f[p] \in Seq(N)
    BY <2>2 DEF SortsBy
  <2> DEFINE list == f[p]
  <2>6. p \in Seq(Rows) /\ x \in Rows /\ list \in Seq(Rows)
    <3>1. \A s \in Seq(N) : s \in Seq(Rows)
      OBVIOUS
    <3> QED BY <2>5, <3>1
  <2>7. InOrder(sigma, list, p, how, desc) /\ f[q] = StableInsert(list, x, how, desc)
    BY <2>4, <2>5
  <2> HIDE DEF list
  <2>8. \E tau : InOrder(tau, StableInsert(list, x, how, desc), q, how, desc)
    BY <2>2, <2>6, <2>7, InsertInOrder
  <2> QED BY <2>7, <2>8
<1> HIDE DEF P
<1>3. Nat \subseteq K
  BY <1>1, <1>2, NatSetInduction
<1>4. \A p \in Seq(N) : P(p)
  BY <1>3
<1> QED BY <1>4 DEF P

LEMMA ResultsInOrder ==
  ASSUME NEW rs \in Seq(Rows), NEW how, NEW desc \in BOOLEAN
  PROVE  /\ SortResults(rs, how, desc) \in Seq(Rows)
         /\ \E sigma : InOrder(sigma, SortResults(rs, how, desc), rs, how, desc)
<1> DEFINE N == Range(rs)
<1>1. N \subseteq Rows /\ rs \in Seq(N)
  <2>1. N \subseteq Rows
    BY RangeType
  <2>2. rs \in Seq(N)
    <3>1. rs \in [1 .. Len(rs) -> N] /\ Len(rs) \in Nat
      BY DEF Range
    <3> HIDE DEF N
    <3> QED BY <3>1
  <2> QED BY <2>1, <2>2
<1>2. PICK f : SortsBy(f, N, how, desc) /\ SortResults(rs, how, desc) = f[rs]
  BY <1>1, SortedIs
<1> HIDE DEF N
<1>3. f[rs] \in Seq(N)
  BY <1>1, <1>2 DEF SortsBy
<1>4. f[rs] \in Seq(Rows)
  BY <1>1, <1>3
<1>5. \E sigma : InOrder(sigma, f[rs], rs, how, desc)
  BY <1>1, <1>2, AllInOrder
<1> QED BY <1>2, <1>4, <1>5

-----------------------------------------------------------------------------
(* The rows are sorted, and as many returned as were asked for.            *)

LEMMA LimitedIs ==
  ASSUME NEW rs \in Seq(Rows), NEW limit \in Int
  PROVE  LET n == IF limit \in 1 .. Len(rs) THEN limit ELSE Len(rs)
         IN  Len(Limited(rs, limit)) = n /\ \A k \in 1 .. n : k \in 1 .. Len(rs) /\ Limited(rs, limit)[k] = rs[k]
<1> DEFINE n == IF limit \in 1 .. Len(rs) THEN limit ELSE Len(rs)
           some == Limited(rs, limit)
<1>1. Len(rs) \in Nat
  BY LenProperties
<1>2. CASE limit > 0 /\ Len(rs) > limit
  <2>1. some = SubSeq(rs, 1, limit) /\ n = limit
    BY <1>1, <1>2 DEF Limited
  <2>2. \A i \in 1 .. limit : rs[i] \in Rows /\ i \in 1 .. Len(rs)
    BY <1>1, <1>2
  <2>3. Len(SubSeq(rs, 1, limit)) = limit /\ \A k \in 1 .. limit : SubSeq(rs, 1, limit)[k] = rs[k]
    BY <1>1, <1>2
  <2> HIDE DEF some, n
  <2>4. Len(some) = n /\ \A k \in 1 .. n : k \in 1 .. Len(rs) /\ some[k] = rs[k]
    BY <2>1, <2>2, <2>3
  <2> QED BY <2>4 DEF some, n
<1>3. CASE ~(limit > 0 /\ Len(rs) > limit)
  <2>1. some = rs
    BY <1>3 DEF Limited
  <2>2. n = Len(rs)
    BY <1>1, <1>3
  <2> HIDE DEF some, n
  <2>3. Len(some) = n /\ \A k \in 1 .. n : k \in 1 .. Len(rs) /\ some[k] = rs[k]
    BY <2>1, <2>2
  <2> QED BY <2>3 DEF some, n
<1> QED BY <1>2, <1>3

(* What Arranged says of an answer.                                        *)
FirstOf(out, a, rs) ==
  LET n == Len(out)
      cmp(i, j) == CompareByKey(a.how, rs[i], rs[j])
      alike(i, j) == HasValue(a.how, rs[i]) = HasValue(a.how, rs[j])
      precedes(i, j) ==
        IF cmp(i, j) = 0 THEN i < j ELSE IF Descends(a) THEN cmp(i, j) > 0 ELSE cmp(i, j) < 0
  IN  /\ n = IF a.limit \in 1 .. Len(rs) THEN a.limit ELSE Len(rs)
      /\ \A k, l \in 1 .. n : out[k] = out[l] => k = l
      /\ \A k \in 1 .. n : \E i \in 1 .. Len(rs) :
           /\ out[k] = rs[i]
           /\ \A j \in 1 .. Len(rs) :
                alike(i, j) /\ precedes(j, i) => \E l \in 1 .. k - 1 : out[l] = rs[j]
BestFirst(ret, rs) == FirstOf(ret.rows, CHOOSE a \in ret.asked : TRUE, rs)

(* The first rows of a list in order come after all those before them.     *)
AfterThose(sigma, list, rs, how, desc) ==
  \A k \in 1 .. Len(rs) :
    /\ \A j \in 1 .. Len(rs) :
         Precedes(rs, how, desc, j, sigma[k]) => \E l \in 1 .. k - 1 : list[l] = rs[j]
    /\ \A l \in 1 .. Len(rs) : sigma[k] = sigma[l] => k = l

LEMMA FirstInOrder ==
  ASSUME NEW rs \in Seq(Rows), NEW how, NEW desc \in BOOLEAN, NEW sigma, NEW list,
         InOrder(sigma, list, rs, how, desc)
  PROVE  AfterThose(sigma, list, rs, how, desc)
<1> DEFINE R == Order(rs, how, desc)
           n == Len(rs)
<1> SUFFICES ASSUME NEW k \in 1 .. n
             PROVE  /\ \A j \in 1 .. n :
                         Precedes(rs, how, desc, j, sigma[k]) => \E l \in 1 .. k - 1 : list[l] = rs[j]
                    /\ \A l \in 1 .. n : sigma[k] = sigma[l] => k = l
  BY DEF AfterThose
<1>0. n \in Nat /\ k \in 1 .. n
  BY LenProperties
<1>1. /\ sigma \in [1 .. n -> 1 .. n] /\ \A i \in 1 .. n : list[i] = rs[sigma[i]]
      /\ \A i, j \in 1 .. n : i < j => <<sigma[i], sigma[j]>> \in R
      /\ \A y \in 1 .. n : \E i \in 1 .. n : sigma[i] = y
  BY DEF InOrder
<1>2. /\ \A i, j \in 1 .. n : <<i, j>> \in R <=> Precedes(rs, how, desc, i, j)
      /\ \A i \in 1 .. n : <<i, i>> \notin R
      /\ \A x, y, z \in 1 .. n : <<x, y>> \in R /\ <<y, z>> \in R => <<x, z>> \in R
  BY OrderIs DEF Orders
<1> HIDE DEF R, n
<1>3. ASSUME NEW j \in 1 .. n, Precedes(rs, how, desc, j, sigma[k])
      PROVE  \E l \in 1 .. k - 1 : list[l] = rs[j]
  <2>1. PICK l \in 1 .. n : sigma[l] = j
    BY <1>1
  <2>2. <<sigma[l], sigma[k]>> \in R
    BY <1>0, <1>1, <1>2, <1>3, <2>1
  <2>3. ~(k < l)
    BY <1>0, <1>1, <1>2, <2>2
  <2>4. l # k
    BY <1>0, <1>1, <1>2, <2>2
  <2>5. l \in 1 .. k - 1
    BY <1>0, <2>3, <2>4
  <2>6. list[l] = rs[j]
    BY <1>1, <2>1
  <2> QED BY <2>5, <2>6
<1>4. ASSUME NEW l \in 1 .. n, sigma[k] = sigma[l] PROVE k = l
  <2>1. ~(k < l) /\ ~(l < k)
    BY <1>0, <1>1, <1>2, <1>4
  <2> QED BY <1>0, <2>1
<1> QED BY <1>3, <1>4 DEF n

LEMMA SortStep ==
  ASSUME SelectionInv, SortAndLimit
  PROVE  SelectionInv'
<1>1. Given /\ phase = "scored" /\ \E a \in Arrangements : returned = [rows |-> <<>>, asked |-> {a}]
  BY DEF SelectionInv, SortAndLimit
<1>2. PICK a \in Arrangements : returned = [rows |-> <<>>, asked |-> {a}]
  BY <1>1
<1> DEFINE desc == Descends(a)
           how == a.how
           limit == a.limit
           rs == rows
           list == SortResults(rs, how, desc)
           some == Limited(list, limit)
           n == IF limit \in 1 .. Len(rs) THEN limit ELSE Len(rs)
<1>3. /\ phase' = "arranged" /\ disk' = disk /\ option' = option /\ firstDisk' = firstDisk /\ rows' = rs
      /\ returned' = [returned EXCEPT !.rows = some]
  <2>1. returned.asked = {a}
    BY <1>2
  <2> QED BY <2>1 DEF SortAndLimit
<1>4. returned' = [rows |-> some, asked |-> {a}]
  <2> HIDE DEF some
  <2> QED BY <1>2, <1>3
<1>5. rs \in Seq(Rows) /\ desc \in BOOLEAN /\ limit \in Int /\ Len(rs) \in Nat
  <2>1. rows \in Seq(Rows)
    BY <1>1 DEF Given
  <2>2. Descends(a) \in BOOLEAN
    BY DEF Descends
  <2>3. a.limit \in Int
    BY SelectionAssumption
  <2> QED BY <2>1, <2>2, <2>3, LenProperties
<1>6. list \in Seq(Rows) /\ \E sigma : InOrder(sigma, list, rs, how, desc)
  <2> HIDE DEF desc, how, rs
  <2> QED BY <1>5, ResultsInOrder DEF list
<1>7. PICK sigma : InOrder(sigma, list, rs, how, desc)
  BY <1>6
<1>8. /\ Len(list) = Len(rs) /\ sigma \in [1 .. Len(rs) -> 1 .. Len(rs)]
      /\ \A k \in 1 .. Len(rs) : list[k] = rs[sigma[k]]
  BY <1>7 DEF InOrder
<1>9. Len(some) = n /\ n <= Len(rs) /\ \A k \in 1 .. n : k \in 1 .. Len(rs) /\ some[k] = rs[sigma[k]]
  <2> HIDE DEF list, limit, rs
  <2>1. Len(some) = n /\ \A k \in 1 .. n : k \in 1 .. Len(list) /\ some[k] = list[k]
    BY <1>5, <1>6, <1>8, LimitedIs
  <2>2. n <= Len(rs) /\ n \in Nat
    BY <1>5
  <2> QED BY <1>8, <2>1, <2>2
<1>14. \A x, y \in 1 .. Len(rs) : rs[x] = rs[y] => x = y
  BY <1>1 DEF SelectionInv, RowsOnce, Same
<1>16. AfterThose(sigma, list, rs, how, desc)
  <2> HIDE DEF list, rs, n, how, desc
  <2> QED BY <1>5, <1>7, FirstInOrder
<1>10. \A k, l \in 1 .. n : some[k] = some[l] => k = l
  <2> SUFFICES ASSUME NEW k \in 1 .. n, NEW l \in 1 .. n, some[k] = some[l] PROVE k = l
    OBVIOUS
  <2> HIDE DEF some, list, rs, n, how, desc
  <2>1. k \in 1 .. Len(rs) /\ l \in 1 .. Len(rs) /\ sigma[k] = sigma[l]
    BY <1>8, <1>9, <1>14
  <2> QED BY <1>16, <2>1 DEF AfterThose
<1>15. ASSUME NEW k \in 1 .. n
       PROVE  \E i \in 1 .. Len(rs) :
                /\ some[k] = rs[i]
                /\ \A j \in 1 .. Len(rs) :
                     Precedes(rs, how, desc, j, i) => \E l \in 1 .. k - 1 : some[l] = rs[j]
  <2>2. n \in Nat /\ k \in 1 .. n
    BY <1>5, <1>15
  <2> HIDE DEF some, list, rs, n, how, desc
  <2>1. k \in 1 .. Len(rs) /\ sigma[k] \in 1 .. Len(rs) /\ some[k] = rs[sigma[k]]
    BY <1>8, <1>9, <2>2
  <2>3. \A j \in 1 .. Len(rs) :
          Precedes(rs, how, desc, j, sigma[k]) => \E l \in 1 .. k - 1 : list[l] = rs[j]
    BY <1>16, <2>1 DEF AfterThose
  <2>4. \A l \in 1 .. k - 1 : some[l] = list[l]
    BY <1>8, <1>9, <2>2
  <2> QED BY <2>1, <2>3, <2>4
<1>11. Arranged'
  <2>1. (CHOOSE b \in returned'.asked : TRUE) = a
    BY <1>4
  <2>2. returned'.rows = some
    BY <1>4
  <2>3. \A i, j : Precedes(rs, how, desc, j, i) =
          IF CompareByKey(how, rs[j], rs[i]) = 0 THEN j < i
          ELSE IF desc THEN CompareByKey(how, rs[j], rs[i]) > 0 ELSE CompareByKey(how, rs[j], rs[i]) < 0
    BY DEF Precedes
  <2> HIDE DEF some, rs, desc
  <2> DEFINE cmp(i, j) == CompareByKey(how, rs[i], rs[j])
             alike(i, j) == HasValue(how, rs[i]) = HasValue(how, rs[j])
             precedes(i, j) == IF cmp(i, j) = 0 THEN i < j ELSE IF desc THEN cmp(i, j) > 0 ELSE cmp(i, j) < 0
  <2>4. \A i, j : precedes(j, i) = Precedes(rs, how, desc, j, i)
    BY <2>3
  <2>5. \A k \in 1 .. Len(some) : \E i \in 1 .. Len(rs) :
          /\ some[k] = rs[i]
          /\ \A j \in 1 .. Len(rs) : alike(i, j) /\ precedes(j, i) => \E l \in 1 .. k - 1 : some[l] = rs[j]
    <3> HIDE DEF precedes, alike, n, how
    <3> QED BY <1>9, <1>15, <2>4
  <2>7. Len(some) = n /\ \A k, l \in 1 .. Len(some) : some[k] = some[l] => k = l
    <3> HIDE DEF n
    <3> QED BY <1>9, <1>10
  <2>6. FirstOf(some, a, rs)
    BY <2>5, <2>7 DEF FirstOf, desc
  <2>8. BestFirst(returned', rs)
    BY <2>1, <2>2, <2>6 DEF BestFirst
  <2>9. Arranged' = (phase' = "arranged" => BestFirst(returned', rows'))
    BY DEF Arranged, BestFirst, FirstOf
  <2> QED BY <1>3, <2>8, <2>9
<1>12. Given'
  <2>1. IsTree(disk)' /\ IsTree(firstDisk)'
    BY <1>1, <1>3 DEF Given, IsTree, IsSpot
  <2> QED BY <1>1, <1>3, <2>1 DEF Given
<1>13. HungOnlyBy' /\ ~Going' /\ (phase # "scored")'
  BY <1>3 DEF HungOnlyBy, Going
<1> QED BY <1>11, <1>12, <1>13 DEF SelectionInv

LEMMA NothingMoves ==
  ASSUME SelectionInv, UNCHANGED selectionVars
  PROVE  SelectionInv'
<1>1. /\ disk' = disk /\ option' = option /\ specs' = specs /\ frames' = frames /\ queued' = queued
      /\ rows' = rows /\ phase' = phase /\ returned' = returned /\ firstDisk' = firstDisk
  BY DEF selectionVars
<1>2. /\ CurrentRoot' = CurrentRoot /\ FirstSpecs' = FirstSpecs /\ RootCount' = RootCount
      /\ \A i : RootAt(i)' = RootAt(i)
  BY <1>1 DEF CurrentRoot, FirstSpecs, RootCount, RootAt
<1>3. RootAt(CurrentRoot)' = RootAt(CurrentRoot)
  BY <1>1, <1>2 DEF RootAt
<1>4. \A i : WaysOf(disk, i)' = WaysOf(disk, i) /\ WaysOf(firstDisk, i)' = WaysOf(firstDisk, i)
  BY <1>1, <1>2 DEF WaysOf
<1>5. Given'
  <2>1. Given
    BY DEF SelectionInv
  <2>2. IsTree(disk)' /\ IsTree(firstDisk)'
    BY <1>1, <2>1 DEF Given, IsTree, IsSpot
  <2> QED BY <1>1, <2>1, <2>2 DEF Given
<1>6. Going' => Walking'
  <2> SUFFICES ASSUME Going PROVE Walking'
    BY <1>1 DEF Going
  <2>1. Walking
    BY DEF SelectionInv
  <2>2. WalkShape'
    BY <1>1, <1>2, <1>3, <2>1 DEF Walking, WalkShape
  <2>5. RowsOnce' /\ JobsOnce'
    BY <1>1, <2>1 DEF Walking, RowsOnce, JobsOnce
  <2>6. AheadOnce'
    BY <1>1, <1>2, <1>3, <2>1 DEF Walking, AheadOnce, Untaken
  <2>3. WalkComplete'
    <3>1. \A i, w : Covered(i, w)' <=> Covered(i, w)
      BY <1>1, <1>2 DEF Covered, HasRow, HasJob
    <3>2. WalkComplete
      BY <2>1 DEF Walking
    <3> QED BY <1>1, <1>2, <1>4, <3>1, <3>2 DEF WalkComplete
  <2>4. WalkSound'
    BY <1>1, <1>2, <1>4, <2>1 DEF Walking, WalkSound
  <2> QED BY <2>2, <2>3, <2>4, <2>5, <2>6 DEF Walking
<1>7. HungOnlyBy'
  BY <1>1 DEF SelectionInv, HungOnlyBy
<1>8. Arranged'
  <2>1. Arranged
    BY DEF SelectionInv
  <2>2. Arranged = (phase = "arranged" => BestFirst(returned, rows))
    BY DEF Arranged, BestFirst, FirstOf
  <2>3. Arranged' = (phase' = "arranged" => BestFirst(returned', rows'))
    BY DEF Arranged, BestFirst, FirstOf
  <2> QED BY <1>1, <2>1, <2>2, <2>3
<1>9. phase' = "scored" =>
        RowsOnce' /\ \E a \in Arrangements : returned' = [rows |-> <<>>, asked |-> {a}]
  BY <1>1 DEF SelectionInv, RowsOnce
<1> QED BY <1>5, <1>6, <1>7, <1>8, <1>9 DEF SelectionInv

(* When the walk is done, every way of every root has its row.             *)
LEMMA AllSelected ==
  ASSUME SelectionInv
  PROVE  Selected
<1> SUFFICES ASSUME WalkDone PROVE Selected
  BY DEF Selected
<1>1. phase = "walking" /\ frames = <<>> /\ Len(specs) <= 1 /\ queued = <<>>
  BY DEF WalkDone
<1>2. Given /\ Walking
  BY <1>1 DEF SelectionInv, Going
<1>3. /\ CurrentRoot \in 1 .. RootCount /\ specs = SubSeq(FirstSpecs, CurrentRoot, RootCount)
      /\ option \in WalkOptions /\ RootCount \in Nat /\ rows \in Seq(Rows)
  BY <1>2, OptionType DEF Walking, WalkShape, Given
<1>4. CurrentRoot = RootCount
  <2>1. Len(specs) = RootCount - CurrentRoot + 1
    BY <1>3, HeadSpec
  <2> QED BY <1>1, <1>3, <2>1
<1>5. AheadOf(frames) = {} /\ Len(queued) = 0
  BY <1>1, RangeEmpty DEF AheadOf
<1> SUFFICES ASSUME NEW i \in 1 .. RootCount
             PROVE  /\ \A m, n \in RowsOf(i) : rows[m].shown = rows[n].shown => m = n
                    /\ {RootAt(i) \o w.rel : w \in WaysOf(firstDisk, i) \cap WaysOf(disk, i)}
                         \subseteq {rows[n].shown : n \in RowsOf(i)}
                    /\ disk = firstDisk => {rows[n].shown : n \in RowsOf(i)} = {RootAt(i) \o w.rel : w \in WaysOf(disk, i)}
  BY DEF Selected, RootCount, RootAt, WaysOf
<1>6. \A m, n \in RowsOf(i) : rows[m].shown = rows[n].shown => m = n
  BY <1>2 DEF Walking, RowsOnce, Same, RowsOf
<1>7. ASSUME NEW w \in WaysOf(firstDisk, i) \cap WaysOf(disk, i)
      PROVE  \E n \in RowsOf(i) : rows[n].shown = RootAt(i) \o w.rel
  <2>1. Covered(i, w)
    BY <1>1, <1>2, <1>4 DEF Walking, WalkComplete
  <2>2. HasRow(i, RootAt(i) \o w.rel)
    BY <1>5, <2>1 DEF Covered, HasJob
  <2> QED BY <2>2 DEF HasRow, RowsOf
<1>8. ASSUME disk = firstDisk, NEW n \in RowsOf(i)
      PROVE  \E w \in WaysOf(disk, i) : rows[n].shown = RootAt(i) \o w.rel
  <2>1. n \in 1 .. Len(rows) /\ rows[n].root = i
    BY DEF RowsOf
  <2> QED BY <1>2, <1>8, <2>1 DEF Walking, WalkSound
<1>9. ASSUME disk = firstDisk
      PROVE  {rows[n].shown : n \in RowsOf(i)} = {RootAt(i) \o w.rel : w \in WaysOf(disk, i)}
  <2>1. \A n \in RowsOf(i) : \E w \in WaysOf(disk, i) : rows[n].shown = RootAt(i) \o w.rel
    BY <1>8, <1>9
  <2>2. \A w \in WaysOf(disk, i) : \E n \in RowsOf(i) : rows[n].shown = RootAt(i) \o w.rel
    BY <1>7, <1>9
  <2> QED BY <2>1, <2>2
<1> QED BY <1>6, <1>7, <1>9

(* Whatever the disk, the roots and the options, however the workers and   *)
(* another program's change interleave: a finished walk has a row for every*)
(* way of every root, once, and for nothing else unless the disk changed;  *)
(* it hangs only on a special file it could not see; and what is returned  *)
(* are rows in the order asked for, each after all that belong before it,  *)
(* as far as they have a value to be ordered by (walker.go, sort.go).      *)
THEOREM SelectionIsExact == SelectionSpec => []SelectionExact
<1>1. SelectionInit => SelectionInv
  BY SelectionStarts
<1>2. SelectionInv /\ [SelectionNext]_selectionVars => SelectionInv'
  <2> SUFFICES ASSUME SelectionInv, [SelectionNext]_selectionVars PROVE SelectionInv'
    OBVIOUS
  <2>1. CASE OpenRoot
    BY <2>1, OpenStep
  <2>2. CASE VisitEntry
    BY <2>2, VisitStep
  <2>3. ASSUME NEW i \in 1 .. Len(queued), ProcessJob(i) PROVE SelectionInv'
    BY <2>3, JobStep
  <2>4. ASSUME NEW a \in Arrangements, ScoreRows(a) PROVE SelectionInv'
    BY <2>4, ScoreStep
  <2>5. CASE SortAndLimit
    BY <2>5, SortStep
  <2>6. ASSUME NEW c \in DiskChanges, ChangeDisk(c) PROVE SelectionInv'
    BY <2>6, ChangeStep
  <2>7. CASE UNCHANGED selectionVars
    BY <2>7, NothingMoves
  <2> QED BY <2>1, <2>2, <2>3, <2>4, <2>5, <2>6, <2>7 DEF SelectionNext
<1>3. SelectionInv => SelectionExact
  BY AllSelected DEF SelectionExact, SelectionInv
<1> QED BY <1>1, <1>2, <1>3, PTL DEF SelectionSpec
=============================================================================
