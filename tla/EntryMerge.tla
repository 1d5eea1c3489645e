----------------------------- MODULE EntryMerge -----------------------------
(***************************************************************************)
(* One attribute entry and everything that writes it: the build of a file  *)
(* with its enrichments (internal/celexpr), the hashes of find_duplicates, *)
(* the fingerprints of find_near_duplicates and the member lists of        *)
(* list_archive_contents (internal/search).  Each of them looks the entry  *)
(* up, adds its own fields to a copy and puts the whole entry back.        *)
(*                                                                         *)
(* Entries of different paths never meet, so there is one file.  Its       *)
(* content is a version number, identified by (size, mtime).  A field is   *)
(* the version it was computed from, 0 when it is missing, and Unread when *)
(* it was made of a file that could not be read: then it is empty.  The    *)
(* index is the bbolt one: its channel and its writer's batch are one      *)
(* queue.                                                                  *)
(***************************************************************************)
EXTENDS Integers, Sequences

CONSTANTS
  Tools,       \* goroutines: walk workers and the passes that follow a walk
  None,        \* "no entry"
  QueueCap,    \* putBufferSize
  MaxVersion,  \* bound: writes to the file
  MaxCalls     \* bound: builds and listings begun, and parses that fail unnoticed

Fields == {"base", "hash", "md5", "vector", "print", "members"}
Versions == 1 .. MaxVersion
Unread == -1
Entry == [at : Versions, of : [Fields -> Unread .. MaxVersion]]

ASSUME EntryMergeAssumption ==
  /\ QueueCap \in Nat \ {0}
  /\ MaxVersion \in Nat
  /\ MaxCalls \in Nat
  /\ None \notin Entry

VARIABLES
  file,     \* version on disk, 0 when the file is gone
  written,  \* last version ever written
  attrs,    \* the entry in attrs_v1
  puts,     \* entries on their way there
  work,     \* what each tool is doing
  calls     \* how many of those MaxCalls bounds

vars == <<file, written, attrs, puts, work, calls>>

BuildSteps == {"statted", "missed", "parsed", "hashed", "built"}
PassSteps == {"hashing", "printing", "opening", "listing", "listed", "served"}
Work == [step : BuildSteps \cup PassSteps \cup {"idle"},
         at : 0 .. MaxVersion, seen : 0 .. MaxVersion, ent : Entry \cup {None}]

Idle == [step |-> "idle", at |-> 0, seen |-> 0, ent |-> None]
Doing(step, v, e) == [step |-> step, at |-> v, seen |-> 0, ent |-> e]
Become(t, w) == work' = [work EXCEPT ![t] = w]

Init ==
  /\ file = 0 /\ written = 0
  /\ attrs = None
  /\ puts = <<>>
  /\ work = [t \in Tools |-> Idle]
  /\ calls = 0

-----------------------------------------------------------------------------
(* Entries.                                                                *)

Blank(v) == [at |-> v, of |-> [f \in Fields |-> 0]]

Stamp(e, fs, v) ==
  [at |-> e.at, of |-> [f \in Fields |-> IF f \in fs THEN v ELSE e.of[f]]]

Keep(e, fs) ==
  [at |-> e.at, of |-> [f \in Fields |-> IF f \in fs THEN e.of[f] ELSE 0]]

OrBlank(e, v) == IF e = None THEN Blank(v) ELSE e

(* (size, mtime) validation of Lookup.                                     *)
Matches_AnyMtime(v) == attrs # None
Matches(v) == attrs # None /\ attrs.at = v

(* What Lookup may answer: a read may also fail (decode overload, timeout),*)
(* which is a miss.                                                        *)
Answers(v) == {None} \cup (IF Matches(v) THEN {attrs} ELSE {})

(* Put never waits: a full channel, or an entry too large, drops it.       *)
HasRoom_OffByOne == Len(puts) <= QueueCap
HasRoom == Len(puts) < QueueCap

Put(e) == \/ HasRoom /\ puts' = Append(puts, e)
          \/ puts' = puts

-----------------------------------------------------------------------------
(* BuildAttributesWith.                                                    *)

Stat(t, step) ==
  /\ work[t].step = "idle" /\ file # 0
  /\ calls < MaxCalls
  /\ calls' = calls + 1
  /\ Become(t, Doing(step, file, None))
  /\ UNCHANGED <<file, written, attrs, puts>>

Lookup(t) ==
  /\ work[t].step = "statted"
  /\ \E e \in Answers(work[t].at) :
       Become(t, Doing(IF e = None THEN "missed" ELSE "parsed", work[t].at, e))
  /\ UNCHANGED <<file, written, attrs, puts, calls>>

(* The miss path stores the parse at once.  A type the profile skips, and  *)
(* a parse that ends in an error, clears the cache key, and nothing of it  *)
(* is stored; but of an undetected type, and where a parser has no error   *)
(* for a file it cannot read, the parse is empty and stored like any other.*)
Store(t, of) ==
  LET e == Stamp(Blank(work[t].at), {"base"}, of)
  IN  Put(e) /\ Become(t, Doing("parsed", work[t].at, e))

Parse(t) ==
  /\ work[t].step = "missed"
  /\ \/ file # 0 /\ Store(t, file) /\ UNCHANGED calls
     \/ calls < MaxCalls /\ calls' = calls + 1 /\ Store(t, Unread)
     \/ Become(t, Doing("built", work[t].at, None)) /\ UNCHANGED <<puts, calls>>
  /\ UNCHANGED <<file, written, attrs>>

(* An enrichment stamps its fields on the entry the build holds and puts   *)
(* that entry again.                                                       *)
Enriched_Alone(e, fs) == Stamp(Blank(e.at), fs, file)
Enriched(e, fs) == Stamp(e, fs, file)

Enrich(t, fs, next) ==
  /\ file # 0
  /\ LET e == Enriched(work[t].ent, fs)
     IN  Put(e) /\ Become(t, Doing(next, work[t].at, e))
  /\ UNCHANGED <<file, written, attrs, calls>>

(* Not asked for, already there, or failed.                                *)
Skip(t, next) ==
  /\ Become(t, Doing(next, work[t].at, work[t].ent))
  /\ UNCHANGED <<file, written, attrs, puts, calls>>

Hashes(t) ==
  /\ work[t].step = "parsed"
  /\ \/ /\ work[t].ent.of["hash"] = 0 \/ work[t].ent.of["md5"] = 0
        /\ Enrich(t, {"hash", "md5"}, "hashed")
     \/ Skip(t, "hashed")

(* populatePHash and populateSimilarity; vectors of another model are      *)
(* replaced.                                                               *)
Vectors(t) ==
  /\ work[t].step = "hashed"
  /\ Enrich(t, {"vector"}, "built") \/ Skip(t, "built")

-----------------------------------------------------------------------------
(* The pass of find_duplicates over the results of its walk: size and      *)
(* mtime are those the walk saw.                                           *)

FindHash(t) ==
  /\ work[t].step = "built"
  /\ \E e \in Answers(work[t].at) :
       Become(t, Doing(IF e # None /\ e.of["hash"] # 0 THEN "served" ELSE "hashing",
                       work[t].at, e))
  /\ UNCHANGED <<file, written, attrs, puts, calls>>

StoreHash(t) ==
  /\ work[t].step = "hashing"
  /\ \/ file # 0 /\ Put(Stamp(OrBlank(work[t].ent, work[t].at), {"hash", "md5"}, file))
     \/ file = 0 /\ UNCHANGED puts
  /\ Become(t, Idle)
  /\ UNCHANGED <<file, written, attrs, calls>>

(* The pass of find_near_duplicates.  The fingerprint is of the body its   *)
(* walk read, some time after the stat; a new entry takes over only the    *)
(* parse and the sha256 of the one found.                                  *)
FindPrint(t) ==
  /\ work[t].step = "built"
  /\ \E e \in Answers(work[t].at) :
       Become(t, Doing(IF e # None /\ e.of["print"] # 0 THEN "served" ELSE "printing",
                       work[t].at, e))
  /\ UNCHANGED <<file, written, attrs, puts, calls>>

TakenOver(e, v) == Keep(OrBlank(e, v), {"base", "hash"})

StorePrint(t) ==
  /\ work[t].step = "printing"
  /\ \E v \in work[t].at .. written :
       Put(Stamp(TakenOver(work[t].ent, work[t].at), {"print"}, v))
  /\ Become(t, Idle)
  /\ UNCHANGED <<file, written, attrs, calls>>

-----------------------------------------------------------------------------
(* WalkArchiveEntries.                                                     *)

FindMembers(t) ==
  /\ work[t].step = "opening"
  /\ \E e \in Answers(work[t].at) :
       IF e # None /\ e.of["members"] # 0
       THEN Become(t, Doing("served", work[t].at, e))
       ELSE Become(t, Doing("listing", work[t].at, None))
  /\ UNCHANGED <<file, written, attrs, puts, calls>>

(* The archive is read as it is now; a read error ends the call.           *)
Iterate(t) ==
  /\ work[t].step = "listing"
  /\ \/ file # 0 /\ Become(t, [Doing("listed", work[t].at, None) EXCEPT !.seen = file])
     \/ Become(t, Idle)
  /\ UNCHANGED <<file, written, attrs, puts, calls>>

(* The entry found only now gives the parse and the sha256.                *)
Listed_Restat(w, e) == [Stamp(TakenOver(e, w.at), {"members"}, w.seen) EXCEPT !.at = written]
Listed(w, e) == Stamp(TakenOver(e, w.at), {"members"}, w.seen)

StoreMembers(t) ==
  /\ work[t].step = "listed"
  /\ \E e \in Answers(work[t].at) : Put(Listed(work[t], e))
  /\ Become(t, Idle)
  /\ UNCHANGED <<file, written, attrs, calls>>

(* The caller has its record, hash, fingerprint or list.                   *)
Return(t) ==
  /\ work[t].step \in {"built", "served"}
  /\ Become(t, Idle)
  /\ UNCHANGED <<file, written, attrs, puts, calls>>

-----------------------------------------------------------------------------
(* The writer, Delete or Clear, and the file.                              *)

Write ==
  /\ puts # <<>>
  /\ attrs' \in {Head(puts), attrs}
  /\ puts' = Tail(puts)
  /\ UNCHANGED <<file, written, work, calls>>

Forget ==
  /\ attrs' = None
  /\ UNCHANGED <<file, written, puts, work, calls>>

Edit ==
  /\ written < MaxVersion
  /\ written' = written + 1 /\ file' = written'
  /\ UNCHANGED <<attrs, puts, work, calls>>

Remove ==
  /\ file # 0
  /\ file' = 0
  /\ UNCHANGED <<written, attrs, puts, work, calls>>

-----------------------------------------------------------------------------
Build(t) == Stat(t, "statted") \/ Lookup(t) \/ Parse(t) \/ Hashes(t) \/ Vectors(t)
Pass(t) == FindHash(t) \/ StoreHash(t) \/ FindPrint(t) \/ StorePrint(t)
Listing(t) == Stat(t, "opening") \/ FindMembers(t) \/ Iterate(t) \/ StoreMembers(t)

Next ==
  \/ \E t \in Tools : Build(t) \/ Pass(t) \/ Listing(t) \/ Return(t)
  \/ Write \/ Forget \/ Edit \/ Remove

Spec == Init /\ [][Next]_vars

-----------------------------------------------------------------------------
(* Type invariant.                                                         *)
TypeOK ==
  /\ file \in 0 .. MaxVersion
  /\ written \in 0 .. MaxVersion
  /\ attrs \in Entry \cup {None}
  /\ puts \in Seq(Entry) /\ Len(puts) <= QueueCap
  /\ work \in [Tools -> Work]
  /\ calls \in 0 .. MaxCalls

(* However the copies of several writers are merged and overtake each      *)
(* other, no field of an entry was computed from an older version than the *)
(* (size, mtime) it is filed under.                                        *)
Honest(e) == \A f \in Fields : e.of[f] > 0 => e.at <= e.of[f] /\ e.of[f] <= written

FieldsHonest ==
  /\ attrs # None => Honest(attrs)
  /\ \A i \in 1 .. Len(puts) : Honest(puts[i])
  /\ \A t \in Tools : work[t].ent # None => Honest(work[t].ent)

(* What a hit gives its caller is, where it is not empty, of the very      *)
(* version its stat saw, field by field, if the file is still that version,*)
(* and never of an older one.                                              *)
ServedExact ==
  \A t \in Tools : work[t].ent # None =>
    \A f \in Fields : work[t].ent.of[f] > 0 =>
      /\ work[t].ent.of[f] >= work[t].at
      /\ file = work[t].at => work[t].ent.of[f] = work[t].at

(* No merge of copies mixes versions, in the index or in an answer.        *)
MergeHonest == FieldsHonest /\ ServedExact

(* A build does not lose, by a later Put, what it parsed, found or put     *)
(* before: its enrichments merge into one entry instead of clobbering one  *)
(* another.                                                                *)
Covers(e, d) == \A f \in Fields : d.of[f] # 0 => e.of[f] # 0

BuildsOnlyAdd ==
  [][\A t \in Tools :
       (work[t].step \in {"parsed", "hashed"} /\ work'[t] # work[t] /\ puts' # puts)
         => Covers(puts'[Len(puts')], work[t].ent)]_vars

(* BuildAttributesWith goes around the cache when it does not parse,       *)
(* because "an entry with no parsed Extra would poison later calls that do *)
(* want them": no entry without a parse would be in the index.             *)
NoBlankEntry == attrs # None => attrs.of["base"] # 0
=============================================================================
