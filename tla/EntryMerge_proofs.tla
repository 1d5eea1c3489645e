------------------------- MODULE EntryMerge_proofs --------------------------
(***************************************************************************)
(* What holds of EntryMerge for every set of tools, every queue and every  *)
(* bound; of the record made of an entry (Attributes), for any number of   *)
(* calls that make it at the same time; and of the readers of film and     *)
(* sound (MediaTracks), for every file, whatever its boxes say.            *)
(***************************************************************************)
EXTENDS EntryMerge, Attributes, MediaTracks, DataLemmas, FiniteSetTheorems

-----------------------------------------------------------------------------
(* The inductive invariant: a tool holds nothing but honest entries filed  *)
(* under the version its stat saw, and knows what its step relies on.      *)

WellFormed(w) ==
  /\ w.step # "idle" => w.at \in Versions /\ w.at <= written
  /\ w.step \in {"parsed", "hashed"} => w.ent # None
  /\ w.ent # None => w.ent.at = w.at /\ Honest(w.ent)
  /\ w.step = "listed" => w.seen \in Versions /\ w.at <= w.seen /\ w.seen <= written

FileLatest == file \in {0, written}

QueueHonest == \A i \in 1 .. Len(puts) : Honest(puts[i])

MergeInv ==
  /\ TypeOK
  /\ FileLatest
  /\ attrs # None => Honest(attrs)
  /\ QueueHonest
  /\ \A t \in Tools : WellFormed(work[t])

-----------------------------------------------------------------------------
(* Entries.                                                                *)

LEMMA EntryParts ==
  /\ None \notin Entry
  /\ \A e \in Entry : e.at \in Versions /\ e.of \in [Fields -> Unread .. MaxVersion]
BY EntryMergeAssumption DEF Entry

LEMMA BlankEntry ==
  ASSUME NEW v \in Versions
  PROVE  Blank(v) \in Entry /\ Blank(v).at = v /\ Honest(Blank(v))
<1>1. 0 \in Unread .. MaxVersion
  BY EntryMergeAssumption DEF Unread
<1>2. QED
  BY <1>1 DEF Blank, Entry, Honest

(* Fields computed no earlier than the entry's stat keep it honest, and so *)
(* do empty ones.                                                          *)
LEMMA StampEntry ==
  ASSUME TypeOK, NEW e \in Entry, Honest(e), NEW fs, NEW v \in Versions \cup {Unread},
         v = Unread \/ (e.at <= v /\ v <= written)
  PROVE  /\ Stamp(e, fs, v) \in Entry /\ Stamp(e, fs, v).at = e.at
         /\ Honest(Stamp(e, fs, v)) /\ Covers(Stamp(e, fs, v), e)
<1>1. v \in Unread .. MaxVersion /\ v # 0 /\ (v > 0 => v # Unread)
  BY EntryMergeAssumption DEF Versions, Unread
<1>2. Stamp(e, fs, v) \in Entry
  BY <1>1, EntryParts DEF Stamp, Entry
<1>3. Stamp(e, fs, v).at = e.at
  BY DEF Stamp
<1>4. \A f \in Fields : Stamp(e, fs, v).of[f] = IF f \in fs THEN v ELSE e.of[f]
  BY DEF Stamp
<1>5. QED
  BY <1>1, <1>2, <1>3, <1>4 DEF Honest, Covers

LEMMA KeepEntry ==
  ASSUME NEW e \in Entry, Honest(e), NEW fs
  PROVE  Keep(e, fs) \in Entry /\ Keep(e, fs).at = e.at /\ Honest(Keep(e, fs))
<1>1. 0 \in Unread .. MaxVersion
  BY EntryMergeAssumption DEF Unread
<1>2. Keep(e, fs) \in Entry
  BY <1>1, EntryParts DEF Keep, Entry
<1>3. Keep(e, fs).at = e.at
  BY DEF Keep
<1>4. \A f \in Fields : Keep(e, fs).of[f] = IF f \in fs THEN e.of[f] ELSE 0
  BY DEF Keep
<1>5. QED
  BY <1>2, <1>3, <1>4 DEF Honest

(* An entry found for version v, or a new one.                             *)
LEMMA TakenEntry ==
  ASSUME NEW v \in Versions, NEW e \in Entry \cup {None},
         e # None => e.at = v /\ Honest(e)
  PROVE  /\ OrBlank(e, v) \in Entry /\ OrBlank(e, v).at = v /\ Honest(OrBlank(e, v))
         /\ TakenOver(e, v) \in Entry /\ TakenOver(e, v).at = v /\ Honest(TakenOver(e, v))
<1>1. OrBlank(e, v) \in Entry /\ OrBlank(e, v).at = v /\ Honest(OrBlank(e, v))
  BY BlankEntry DEF OrBlank
<1>2. QED
  BY <1>1, KeepEntry DEF TakenOver

(* What Lookup answers was filed under the version asked for.              *)
LEMMA AnswersMatch ==
  ASSUME MergeInv, NEW v, NEW e \in Answers(v)
  PROVE  e \in Entry \cup {None} /\ (e # None => e.at = v /\ Honest(e))
BY DEF MergeInv, TypeOK, Answers, Matches

(* Put appends its entry or nothing.                                       *)
LEMMA PutQueue ==
  ASSUME MergeInv, NEW e \in Entry, Honest(e), Put(e), written' = written
  PROVE  /\ puts' \in Seq(Entry) /\ Len(puts') <= QueueCap
         /\ QueueHonest'
         /\ puts' # puts => puts'[Len(puts')] = e
<1>1. puts \in Seq(Entry) /\ Len(puts) \in Nat /\ Len(puts) <= QueueCap
  BY DEF MergeInv, TypeOK
<1>2. \A i \in 1 .. Len(puts) : Honest(puts[i])
  BY DEF MergeInv, QueueHonest
<1>3. CASE puts' = puts
  BY <1>1, <1>2, <1>3 DEF QueueHonest, Honest
<1>4. CASE HasRoom /\ puts' = Append(puts, e)
  <2>1. puts' \in Seq(Entry) /\ Len(puts') = Len(puts) + 1
    BY <1>1, <1>4
  <2>2. \A i \in 1 .. Len(puts') : puts'[i] = IF i <= Len(puts) THEN puts[i] ELSE e
    BY <1>1, <1>4
  <2>3. Len(puts') <= QueueCap
    BY <1>1, <1>4, <2>1, EntryMergeAssumption DEF HasRoom
  <2>4. \A i \in 1 .. Len(puts') : Honest(puts'[i])
    BY <1>1, <1>2, <2>1, <2>2
  <2>5. QED
    BY <1>1, <2>1, <2>2, <2>3, <2>4 DEF QueueHonest, Honest
<1>5. QED
  BY <1>3, <1>4 DEF Put

-----------------------------------------------------------------------------
(* The record a step leaves behind.                                        *)
LEMMA DoingWell ==
  ASSUME NEW s \in (BuildSteps \cup PassSteps) \ {"listed"},
         NEW v \in Versions, v <= written,
         NEW e \in Entry \cup {None}, e # None => e.at = v /\ Honest(e),
         s \in {"parsed", "hashed"} => e # None
  PROVE  /\ Doing(s, v, e) \in Work /\ WellFormed(Doing(s, v, e))
         /\ Doing(s, v, e).ent = e
<1>1. v \in 0 .. MaxVersion /\ 0 \in 0 .. MaxVersion
  BY EntryMergeAssumption DEF Versions
<1>2. Doing(s, v, e) \in Work
  BY <1>1 DEF Doing, Work
<1>3. Doing(s, v, e).step = s /\ Doing(s, v, e).at = v /\ Doing(s, v, e).ent = e
  BY DEF Doing
<1>4. QED
  BY <1>2, <1>3 DEF WellFormed

LEMMA IdleWell == Idle \in Work /\ WellFormed(Idle) /\ Idle.ent = None
<1>1. 0 \in 0 .. MaxVersion
  BY EntryMergeAssumption
<1>2. QED
  BY <1>1 DEF Idle, Work, WellFormed

(* A step of one tool, over a queue that stayed honest.                    *)
LEMMA ToolStep ==
  ASSUME MergeInv, NEW t \in Tools, NEW w \in Work, Become(t, w), WellFormed(w),
         UNCHANGED <<file, written, attrs>>, calls' \in 0 .. MaxCalls,
         puts' \in Seq(Entry), Len(puts') <= QueueCap, QueueHonest'
  PROVE  MergeInv'
<1>1. /\ work' \in [Tools -> Work]
      /\ \A u \in Tools : work'[u] = IF u = t THEN w ELSE work[u]
  BY DEF MergeInv, TypeOK, Become
<1>2. TypeOK'
  BY <1>1 DEF MergeInv, TypeOK
<1>3. \A u \in Tools : WellFormed(work[u])'
  BY <1>1 DEF MergeInv, WellFormed, Honest
<1>4. FileLatest' /\ (attrs # None => Honest(attrs))'
  BY DEF MergeInv, FileLatest, Honest
<1>5. QED
  BY <1>2, <1>3, <1>4 DEF MergeInv

(* ... that did not touch the queue.                                       *)
LEMMA QuietStep ==
  ASSUME MergeInv, NEW t \in Tools, NEW w \in Work, Become(t, w), WellFormed(w),
         UNCHANGED <<file, written, attrs, puts>>, calls' \in 0 .. MaxCalls
  PROVE  MergeInv'
<1>1. puts' \in Seq(Entry) /\ Len(puts') <= QueueCap
  BY DEF MergeInv, TypeOK
<1>2. QueueHonest'
  BY DEF MergeInv, QueueHonest, Honest
<1>3. QED
  BY <1>1, <1>2, ToolStep

(* A step that put an honest entry.                                        *)
LEMMA CountedPut ==
  ASSUME MergeInv, NEW t \in Tools, NEW w \in Work, Become(t, w), WellFormed(w),
         NEW e \in Entry, Honest(e), Put(e),
         UNCHANGED <<file, written, attrs>>, calls' \in 0 .. MaxCalls
  PROVE  MergeInv'
BY PutQueue, ToolStep

LEMMA PutStep ==
  ASSUME MergeInv, NEW t \in Tools, NEW w \in Work, Become(t, w), WellFormed(w),
         NEW e \in Entry, Honest(e), Put(e),
         UNCHANGED <<file, written, attrs, calls>>
  PROVE  MergeInv'
<1>1. calls' \in 0 .. MaxCalls
  BY DEF MergeInv, TypeOK
<1>2. QED
  BY <1>1, CountedPut

-----------------------------------------------------------------------------
(* A tool that is at work.                                                 *)
LEMMA AtWork ==
  ASSUME MergeInv, NEW t \in Tools, work[t].step # "idle"
  PROVE  /\ work[t] \in Work /\ WellFormed(work[t])
         /\ work[t].at \in Versions /\ work[t].at <= written
         /\ work[t].ent \in Entry \cup {None}
         /\ work[t].ent # None => work[t].ent.at = work[t].at /\ Honest(work[t].ent)
         /\ calls \in 0 .. MaxCalls
BY DEF MergeInv, TypeOK, Work, WellFormed

(* The file, when there, is the newest version.                            *)
LEMMA FileThere ==
  ASSUME MergeInv, file # 0
  PROVE  /\ file \in Versions /\ file = written
         /\ \A v \in Versions : v <= written => v <= file
BY DEF MergeInv, TypeOK, FileLatest, Versions

(* A version between one and the newest.                                   *)
LEMMA BetweenVersions ==
  ASSUME MergeInv, NEW at \in Versions, NEW v \in at .. written
  PROVE  v \in Versions /\ at <= v /\ v <= written
<1>1. written \in Int /\ written <= MaxVersion /\ MaxVersion \in Int
  BY EntryMergeAssumption DEF MergeInv, TypeOK
<1>2. QED
  BY <1>1 DEF Versions

(* The count of calls stays within its bound.                              *)
LEMMA CallCounted ==
  ASSUME MergeInv, NEW t \in Tools, NEW s, Stat(t, s)
  PROVE  calls' \in 0 .. MaxCalls
<1>1. calls \in 0 .. MaxCalls /\ calls < MaxCalls /\ calls' = calls + 1
  BY DEF Stat, MergeInv, TypeOK
<1>2. QED
  BY <1>1, EntryMergeAssumption

-----------------------------------------------------------------------------
(* Every step keeps the invariant.                                         *)

LEMMA BuildKeeps ==
  ASSUME MergeInv, NEW t \in Tools, Build(t) PROVE MergeInv'
<1>1. ASSUME Stat(t, "statted") PROVE MergeInv'
  <2>1. file \in Versions /\ file <= written
    BY <1>1, FileThere DEF Stat, MergeInv, TypeOK
  <2>2. Doing("statted", file, None) \in Work /\ WellFormed(Doing("statted", file, None))
    BY <2>1, DoingWell DEF BuildSteps
  <2>3. QED
    BY <1>1, <2>2, CallCounted, QuietStep DEF Stat
<1>2. ASSUME Lookup(t) PROVE MergeInv'
  <2> DEFINE at == work[t].at
  <2>1. at \in Versions /\ at <= written /\ calls' \in 0 .. MaxCalls
    BY <1>2, AtWork DEF Lookup
  <2>2. PICK e \in Answers(at) : Become(t, Doing(IF e = None THEN "missed" ELSE "parsed", at, e))
    BY <1>2 DEF Lookup
  <2>3. e \in Entry \cup {None} /\ (e # None => e.at = at /\ Honest(e))
    BY AnswersMatch
  <2>4. CASE e = None
    BY <1>2, <2>1, <2>2, <2>3, <2>4, DoingWell, QuietStep DEF Lookup, BuildSteps
  <2>5. CASE e # None
    BY <1>2, <2>1, <2>2, <2>3, <2>5, DoingWell, QuietStep DEF Lookup, BuildSteps
  <2>6. QED
    BY <2>4, <2>5
<1>3. ASSUME Parse(t) PROVE MergeInv'
  <2> DEFINE at == work[t].at
  <2>1. at \in Versions /\ at <= written /\ calls \in 0 .. MaxCalls
    BY <1>3, AtWork DEF Parse
  <2>2. CASE Become(t, Doing("built", at, None)) /\ UNCHANGED <<puts, calls>>
    BY <1>3, <2>1, <2>2, DoingWell, QuietStep DEF Parse, BuildSteps
  <2>3. ASSUME NEW of \in Versions \cup {Unread}, of = Unread \/ (at <= of /\ of <= written),
               Store(t, of), calls' \in 0 .. MaxCalls
        PROVE  MergeInv'
    <3> DEFINE e == Stamp(Blank(at), {"base"}, of)
    <3>1. Blank(at) \in Entry /\ Blank(at).at = at /\ Honest(Blank(at))
      BY <2>1, BlankEntry
    <3>2. e \in Entry /\ e.at = at /\ Honest(e)
      BY <2>3, <3>1, StampEntry DEF MergeInv
    <3>3. Doing("parsed", at, e) \in Work /\ WellFormed(Doing("parsed", at, e))
      BY <2>1, <3>2, EntryParts, DoingWell DEF BuildSteps
    <3>4. Put(e) /\ Become(t, Doing("parsed", at, e))
      BY <2>3 DEF Store
    <3>5. QED
      BY <1>3, <2>3, <3>2, <3>3, <3>4, CountedPut DEF Parse
  <2>4. CASE file # 0 /\ Store(t, file) /\ UNCHANGED calls
    <3>1. file \in Versions /\ at <= file /\ file <= written
      BY <2>1, <2>4, FileThere DEF MergeInv, TypeOK
    <3>2. QED
      BY <2>1, <2>3, <2>4, <3>1
  <2>5. CASE calls < MaxCalls /\ calls' = calls + 1 /\ Store(t, Unread)
    <3>1. calls' \in 0 .. MaxCalls
      BY <2>1, <2>5, EntryMergeAssumption
    <3>2. QED
      BY <2>3, <2>5, <3>1
  <2>6. QED
    BY <1>3, <2>1, <2>2, <2>4, <2>5 DEF Parse
<1>4. ASSUME NEW fs, NEW next \in BuildSteps \ {"parsed"},
             work[t].step \in {"parsed", "hashed"}, Enrich(t, fs, next)
      PROVE  MergeInv'
  <2> DEFINE at == work[t].at
             d == work[t].ent
             e == Enriched(d, fs)
  <2>1. /\ at \in Versions /\ at <= written
        /\ d \in Entry /\ d.at = at /\ Honest(d)
    BY <1>4, AtWork DEF WellFormed
  <2>2. file \in Versions /\ at <= file /\ file <= written
    BY <1>4, <2>1, FileThere DEF Enrich, MergeInv, TypeOK
  <2>3. e \in Entry /\ e.at = at /\ Honest(e)
    BY <2>1, <2>2, StampEntry DEF Enriched, MergeInv
  <2>4. Doing(next, at, e) \in Work /\ WellFormed(Doing(next, at, e))
    BY <1>4, <2>1, <2>3, EntryParts, DoingWell DEF BuildSteps, PassSteps
  <2>5. QED
    BY <1>4, <2>3, <2>4, PutStep DEF Enrich
<1>5. ASSUME NEW next \in BuildSteps \ {"parsed"},
             work[t].step \in {"parsed", "hashed"}, Skip(t, next)
      PROVE  MergeInv'
  <2> DEFINE at == work[t].at
             d == work[t].ent
  <2>1. /\ at \in Versions /\ at <= written /\ calls \in 0 .. MaxCalls
        /\ d \in Entry \cup {None} /\ d # None /\ d.at = at /\ Honest(d)
    BY <1>5, AtWork DEF WellFormed
  <2>2. Doing(next, at, d) \in Work /\ WellFormed(Doing(next, at, d))
    BY <1>5, <2>1, DoingWell DEF BuildSteps, PassSteps
  <2>3. QED
    BY <1>5, <2>1, <2>2, QuietStep DEF Skip
<1>6. ASSUME Hashes(t) PROVE MergeInv'
  BY <1>4, <1>5, <1>6 DEF Hashes, BuildSteps
<1>7. ASSUME Vectors(t) PROVE MergeInv'
  BY <1>4, <1>5, <1>7 DEF Vectors, BuildSteps
<1>8. QED
  BY <1>1, <1>2, <1>3, <1>6, <1>7 DEF Build

LEMMA PassKeeps ==
  ASSUME MergeInv, NEW t \in Tools, Pass(t) PROVE MergeInv'
<1> DEFINE at == work[t].at
           d == work[t].ent
<1>1. /\ at \in Versions /\ at <= written /\ calls \in 0 .. MaxCalls
      /\ d \in Entry \cup {None} /\ (d # None => d.at = at /\ Honest(d))
  BY AtWork DEF Pass, FindHash, StoreHash, FindPrint, StorePrint
<1>2. ASSUME NEW e \in Answers(at), NEW s \in PassSteps \ {"listed"}, Become(t, Doing(s, at, e)),
             UNCHANGED <<file, written, attrs, puts, calls>>
      PROVE  MergeInv'
  <2>1. e \in Entry \cup {None} /\ (e # None => e.at = at /\ Honest(e))
    BY AnswersMatch
  <2>2. Doing(s, at, e) \in Work /\ WellFormed(Doing(s, at, e))
    BY <1>1, <2>1, DoingWell DEF PassSteps, BuildSteps
  <2>3. QED
    BY <1>1, <1>2, <2>2, QuietStep
<1>3. ASSUME FindHash(t) PROVE MergeInv'
  BY <1>2, <1>3 DEF FindHash, PassSteps
<1>4. ASSUME FindPrint(t) PROVE MergeInv'
  BY <1>2, <1>4 DEF FindPrint, PassSteps
<1>5. /\ OrBlank(d, at) \in Entry /\ OrBlank(d, at).at = at /\ Honest(OrBlank(d, at))
      /\ TakenOver(d, at) \in Entry /\ TakenOver(d, at).at = at /\ Honest(TakenOver(d, at))
  BY <1>1, TakenEntry
<1>6. ASSUME StoreHash(t) PROVE MergeInv'
  <2>1. CASE file = 0 /\ UNCHANGED puts
    BY <1>1, <1>6, <2>1, IdleWell, QuietStep DEF StoreHash
  <2>2. CASE file # 0 /\ Put(Stamp(OrBlank(d, at), {"hash", "md5"}, file))
    <3>1. file \in Versions /\ at <= file /\ file <= written
      BY <1>1, <2>2, FileThere DEF MergeInv, TypeOK
    <3>2. /\ Stamp(OrBlank(d, at), {"hash", "md5"}, file) \in Entry
          /\ Honest(Stamp(OrBlank(d, at), {"hash", "md5"}, file))
      BY <1>5, <3>1, StampEntry DEF MergeInv
    <3>3. QED
      BY <1>6, <2>2, <3>2, IdleWell, PutStep DEF StoreHash
  <2>3. QED
    BY <1>6, <2>1, <2>2 DEF StoreHash
<1>7. ASSUME StorePrint(t) PROVE MergeInv'
  <2>1. PICK v \in at .. written : Put(Stamp(TakenOver(d, at), {"print"}, v))
    BY <1>7 DEF StorePrint
  <2>2. v \in Versions /\ at <= v /\ v <= written
    BY <1>1, <2>1, BetweenVersions
  <2>3. /\ Stamp(TakenOver(d, at), {"print"}, v) \in Entry
        /\ Honest(Stamp(TakenOver(d, at), {"print"}, v))
    BY <1>5, <2>2, StampEntry DEF MergeInv
  <2>4. QED
    BY <1>7, <2>1, <2>3, IdleWell, PutStep DEF StorePrint
<1>8. QED
  BY <1>3, <1>4, <1>6, <1>7 DEF Pass

(* The record of a listing that has read the archive.                      *)
LEMMA ListedWell ==
  ASSUME MergeInv, NEW at \in Versions, at <= written, file # 0
  PROVE  LET w == [Doing("listed", at, None) EXCEPT !.seen = file]
         IN  w \in Work /\ WellFormed(w)
<1> DEFINE w == [Doing("listed", at, None) EXCEPT !.seen = file]
<1>1. file \in Versions /\ at <= file /\ file <= written
  BY FileThere DEF MergeInv, TypeOK
<1>2. w = [step |-> "listed", at |-> at, seen |-> file, ent |-> None]
  BY DEF Doing
<1>3. at \in 0 .. MaxVersion /\ file \in 0 .. MaxVersion
  BY <1>1 DEF Versions
<1>4. w \in Work
  BY <1>2, <1>3 DEF Work, PassSteps
<1>5. w.step = "listed" /\ w.at = at /\ w.seen = file /\ w.ent = None
  BY <1>2
<1>6. WellFormed(w)
  BY <1>1, <1>5 DEF WellFormed
<1>7. QED
  BY <1>4, <1>6

LEMMA ListingKeeps ==
  ASSUME MergeInv, NEW t \in Tools, Listing(t) PROVE MergeInv'
<1> DEFINE at == work[t].at
<1>1. ASSUME Stat(t, "opening") PROVE MergeInv'
  <2>1. file \in Versions /\ file <= written
    BY <1>1, FileThere DEF Stat, MergeInv, TypeOK
  <2>2. Doing("opening", file, None) \in Work /\ WellFormed(Doing("opening", file, None))
    BY <2>1, DoingWell DEF PassSteps
  <2>3. QED
    BY <1>1, <2>2, CallCounted, QuietStep DEF Stat
<1>2. ASSUME FindMembers(t) PROVE MergeInv'
  <2>1. at \in Versions /\ at <= written /\ calls \in 0 .. MaxCalls
    BY <1>2, AtWork DEF FindMembers
  <2>2. PICK e \in Answers(at) :
          \/ e # None /\ Become(t, Doing("served", at, e))
          \/ Become(t, Doing("listing", at, None))
    BY <1>2 DEF FindMembers
  <2>3. e \in Entry \cup {None} /\ (e # None => e.at = at /\ Honest(e))
    BY AnswersMatch
  <2>4. Doing("served", at, e) \in Work /\ WellFormed(Doing("served", at, e))
    BY <2>1, <2>3, DoingWell DEF PassSteps
  <2>5. Doing("listing", at, None) \in Work /\ WellFormed(Doing("listing", at, None))
    BY <2>1, DoingWell DEF PassSteps
  <2>6. QED
    BY <1>2, <2>1, <2>2, <2>4, <2>5, QuietStep DEF FindMembers
<1>3. ASSUME Iterate(t) PROVE MergeInv'
  <2>1. at \in Versions /\ at <= written /\ calls \in 0 .. MaxCalls
    BY <1>3, AtWork DEF Iterate
  <2>2. CASE Become(t, Idle)
    BY <1>3, <2>1, <2>2, IdleWell, QuietStep DEF Iterate
  <2>3. CASE file # 0 /\ Become(t, [Doing("listed", at, None) EXCEPT !.seen = file])
    BY <1>3, <2>1, <2>3, ListedWell, QuietStep DEF Iterate
  <2>4. QED
    BY <1>3, <2>2, <2>3 DEF Iterate
<1>4. ASSUME StoreMembers(t) PROVE MergeInv'
  <2> DEFINE seen == work[t].seen
  <2>1. /\ at \in Versions /\ at <= written
        /\ seen \in Versions /\ at <= seen /\ seen <= written
    BY <1>4, AtWork DEF StoreMembers, WellFormed
  <2>2. PICK e \in Answers(at) : Put(Listed(work[t], e))
    BY <1>4 DEF StoreMembers
  <2>3. TakenOver(e, at) \in Entry /\ TakenOver(e, at).at = at /\ Honest(TakenOver(e, at))
    BY <2>1, AnswersMatch, TakenEntry
  <2>4. Listed(work[t], e) \in Entry /\ Honest(Listed(work[t], e))
    BY <2>1, <2>3, StampEntry DEF Listed, MergeInv
  <2>5. QED
    BY <1>4, <2>2, <2>4, IdleWell, PutStep DEF StoreMembers
<1>5. QED
  BY <1>1, <1>2, <1>3, <1>4 DEF Listing

LEMMA ReturnKeeps ==
  ASSUME MergeInv, NEW t \in Tools, Return(t) PROVE MergeInv'
BY AtWork, IdleWell, QuietStep DEF Return

(* Honesty only asks that the file's versions went on.                     *)
LEMMA HonestLater ==
  ASSUME written \in Int, written' \in Int, written <= written', NEW e \in Entry, Honest(e)
  PROVE  Honest(e)'
<1>1. \A f \in Fields : e.of[f] \in Int
  BY EntryParts, EntryMergeAssumption DEF Unread
<1>2. QED
  BY <1>1 DEF Honest

LEMMA WriteKeeps ==
  ASSUME MergeInv, Write PROVE MergeInv'
<1>1. /\ puts \in Seq(Entry) /\ puts # <<>> /\ Len(puts) \in Nat /\ Len(puts) <= QueueCap
      /\ \A i \in 1 .. Len(puts) : Honest(puts[i])
  BY LenProperties DEF MergeInv, TypeOK, QueueHonest, Write
<1>2. /\ Tail(puts) \in Seq(Entry) /\ Len(Tail(puts)) = Len(puts) - 1 /\ Len(puts) >= 1
      /\ Head(puts) = puts[1] /\ Head(puts) \in Entry
      /\ \A i \in 1 .. Len(puts) - 1 : Tail(puts)[i] = puts[i + 1]
  BY <1>1, HeadTailProperties, EmptySeq
<1>3. Honest(Head(puts)) /\ \A i \in 1 .. Len(puts) - 1 : Honest(Tail(puts)[i])
  BY <1>1, <1>2
<1>4. puts' = Tail(puts) /\ attrs' \in {Head(puts), attrs}
      /\ UNCHANGED <<file, written, work, calls>>
  BY DEF Write
<1>5. puts' \in Seq(Entry) /\ Len(puts') <= QueueCap /\ attrs' \in Entry \cup {None}
  BY <1>1, <1>2, <1>4, EntryMergeAssumption DEF MergeInv, TypeOK
<1>6. TypeOK'
  BY <1>4, <1>5 DEF MergeInv, TypeOK
<1>7. QueueHonest' /\ (attrs # None => Honest(attrs))'
  BY <1>2, <1>3, <1>4 DEF MergeInv, QueueHonest, Honest
<1>8. FileLatest' /\ \A t \in Tools : WellFormed(work[t])'
  BY <1>4 DEF MergeInv, FileLatest, WellFormed, Honest
<1>9. QED
  BY <1>6, <1>7, <1>8 DEF MergeInv

LEMMA ForgetKeeps ==
  ASSUME MergeInv, Forget PROVE MergeInv'
<1>1. TypeOK' /\ FileLatest'
  BY DEF Forget, MergeInv, TypeOK, FileLatest
<1>2. QueueHonest' /\ (attrs # None => Honest(attrs))'
  BY DEF Forget, MergeInv, QueueHonest, Honest
<1>3. \A t \in Tools : WellFormed(work[t])'
  BY DEF Forget, MergeInv, WellFormed, Honest
<1>4. QED
  BY <1>1, <1>2, <1>3 DEF MergeInv

LEMMA FileKeeps ==
  ASSUME MergeInv, Edit \/ Remove PROVE MergeInv'
<1>1. /\ written \in Int /\ written' \in 0 .. MaxVersion /\ written <= written'
      /\ file' \in 0 .. MaxVersion /\ FileLatest'
  BY EntryMergeAssumption DEF Edit, Remove, MergeInv, TypeOK, FileLatest
<1>2. UNCHANGED <<attrs, puts, work, calls>>
  BY DEF Edit, Remove
<1>3. TypeOK'
  BY <1>1, <1>2 DEF MergeInv, TypeOK
<1>4. ASSUME NEW e \in Entry, Honest(e) PROVE Honest(e)'
  BY <1>1, <1>4, HonestLater
<1>5. (attrs # None => Honest(attrs))'
  BY <1>2, <1>4 DEF MergeInv, TypeOK, Honest
<1>6. QueueHonest'
  <2>1. /\ Len(puts) \in Nat
        /\ \A i \in 1 .. Len(puts) : puts[i] \in Entry /\ Honest(puts[i])
    BY LenProperties, ElementOfSeq DEF MergeInv, TypeOK, QueueHonest
  <2>2. QED
    BY <1>2, <1>4, <2>1 DEF QueueHonest, Honest
<1>7. ASSUME NEW t \in Tools PROVE WellFormed(work[t])'
  <2>1. work[t] \in Work /\ WellFormed(work[t])
    BY DEF MergeInv, TypeOK
  <2>2. work[t].ent # None => Honest(work[t].ent)'
    <3>1. work[t].ent # None => work[t].ent \in Entry /\ Honest(work[t].ent)
      BY <2>1 DEF Work, WellFormed
    <3>2. QED
      BY <1>2, <1>4, <3>1 DEF Honest
  <2>3. /\ work[t].step # "idle" => work[t].at <= written'
        /\ work[t].step = "listed" => work[t].seen <= written'
    BY <1>1, <2>1 DEF WellFormed, Work
  <2>4. QED
    BY <1>2, <2>1, <2>2, <2>3 DEF WellFormed, Honest
<1>8. QED
  BY <1>1, <1>3, <1>5, <1>6, <1>7 DEF MergeInv

-----------------------------------------------------------------------------
LEMMA InitMerge == Init => MergeInv
<1> SUFFICES ASSUME Init PROVE MergeInv
  OBVIOUS
<1>1. 0 \in 0 .. MaxVersion /\ 0 \in 0 .. MaxCalls
  BY EntryMergeAssumption
<1>2. puts \in Seq(Entry) /\ Len(puts) = 0 /\ Len(puts) <= QueueCap
  BY EntryMergeAssumption, EmptyBatch DEF Init
<1>3. TypeOK
  BY <1>1, <1>2, IdleWell DEF Init, TypeOK
<1>4. FileLatest /\ (attrs # None => Honest(attrs)) /\ QueueHonest
  BY <1>2 DEF Init, FileLatest, QueueHonest
<1>5. \A t \in Tools : WellFormed(work[t])
  BY IdleWell DEF Init
<1>6. QED
  BY <1>3, <1>4, <1>5 DEF MergeInv

LEMMA NextMerge == MergeInv /\ [Next]_vars => MergeInv'
<1> SUFFICES ASSUME MergeInv, [Next]_vars PROVE MergeInv'
  OBVIOUS
<1>1. CASE \E t \in Tools : Build(t) \/ Pass(t) \/ Listing(t) \/ Return(t)
  BY <1>1, BuildKeeps, PassKeeps, ListingKeeps, ReturnKeeps
<1>2. CASE Write \/ Forget \/ Edit \/ Remove
  BY <1>2, WriteKeeps, ForgetKeeps, FileKeeps
<1>3. CASE UNCHANGED vars
  BY <1>3 DEF vars, MergeInv, TypeOK, FileLatest, QueueHonest, WellFormed, Honest
<1>4. QED
  BY <1>1, <1>2, <1>3 DEF Next

LEMMA MergeInvariant == Spec => []MergeInv
BY InitMerge, NextMerge, PTL DEF Spec

(* The type invariant: in particular the queue stays within putBufferSize, *)
(* whatever the builds, passes and listings put.                           *)
THEOREM TypeCorrect == Spec => []TypeOK
<1>1. MergeInv => TypeOK
  BY DEF MergeInv
<1>2. QED
  BY <1>1, MergeInvariant, PTL

(* No field of an entry, stored, queued or in a tool's hands, is older     *)
(* than the (size, mtime) the entry is filed under: the copies that        *)
(* populateHashes, readOrComputeHash, fingerprintFromCacheOrCompute and    *)
(* WalkArchiveEntries extend and put back never mix in an older content.   *)
THEOREM FieldsStayHonest == Spec => []FieldsHonest
<1>1. MergeInv => FieldsHonest
  BY DEF MergeInv, FieldsHonest, QueueHonest, WellFormed
<1>2. QED
  BY <1>1, MergeInvariant, PTL

(* What BuildAttributesWith and the passes give their caller is of the     *)
(* version their stat saw, if the file still is, and never older.          *)
THEOREM ServesExactly == Spec => []ServedExact
<1>1. ASSUME MergeInv, NEW t \in Tools, work[t].ent # None,
             NEW f \in Fields, work[t].ent.of[f] > 0
      PROVE  /\ work[t].ent.of[f] >= work[t].at
             /\ file = work[t].at => work[t].ent.of[f] = work[t].at
  <2>1. /\ work[t].ent \in Entry /\ work[t].ent.at = work[t].at
        /\ work[t].at <= work[t].ent.of[f] /\ work[t].ent.of[f] <= written
    BY <1>1 DEF MergeInv, TypeOK, Work, WellFormed, Honest
  <2>2. work[t].at \in Int /\ work[t].at # 0 /\ work[t].ent.of[f] \in Int /\ written \in Int
    BY <1>1, <2>1, EntryParts, EntryMergeAssumption DEF Versions, Unread, MergeInv, TypeOK
  <2>3. file = work[t].at => file = written
    BY <1>1, <2>2 DEF MergeInv, FileLatest
  <2>4. QED
    BY <2>1, <2>2, <2>3
<1>2. MergeInv => ServedExact
  BY <1>1 DEF ServedExact
<1>3. QED
  BY <1>2, MergeInvariant, PTL

(* Together: no merge mixes versions, stored, on the way or served.        *)
THEOREM MergeIsHonest == Spec => []MergeHonest
BY FieldsStayHonest, ServesExactly, PTL DEF MergeHonest

-----------------------------------------------------------------------------
(* Who moves a tool that is in the middle of its build.                    *)
LEMMA BuildMoves ==
  ASSUME MergeInv, [Next]_vars, NEW t \in Tools, work[t].step \in {"parsed", "hashed"},
         work'[t] # work[t], puts' # puts
  PROVE  \E fs, next : Enrich(t, fs, next)
<1>1. ASSUME NEW u \in Tools, u # t, NEW w, Become(u, w) PROVE FALSE
  BY <1>1 DEF Become, MergeInv, TypeOK
<1>2. PICK u \in Tools : Build(u) \/ Pass(u) \/ Listing(u) \/ Return(u)
  BY DEF Next, vars, Write, Forget, Edit, Remove
<1>3. u = t
  <2>1. Build(u) => \E w : Become(u, w)
    BY DEF Build, Stat, Lookup, Parse, Store, Hashes, Vectors, Enrich, Skip
  <2>2. Pass(u) => \E w : Become(u, w)
    BY DEF Pass, FindHash, StoreHash, FindPrint, StorePrint
  <2>3. Listing(u) \/ Return(u) => \E w : Become(u, w)
    BY DEF Listing, Return, Stat, FindMembers, Iterate, StoreMembers
  <2>4. QED
    BY <1>1, <1>2, <2>1, <2>2, <2>3
<1>4. Hashes(t) \/ Vectors(t)
  BY <1>2, <1>3 DEF Build, Pass, Listing, Return, Stat, Lookup, Parse, FindHash, StoreHash,
     FindPrint, StorePrint, FindMembers, Iterate, StoreMembers
<1>5. QED
  BY <1>4 DEF Hashes, Vectors, Skip

(* The fix of issue 306: what an enrichment puts has every field of the    *)
(* entry its build holds, so that populateHashes and populateSimilarity do *)
(* not clobber one another.                                                *)
THEOREM BuildsAddOnly == Spec => BuildsOnlyAdd
<1>1. ASSUME MergeInv, [Next]_vars, NEW t \in Tools, work[t].step \in {"parsed", "hashed"},
             work'[t] # work[t], puts' # puts
      PROVE  Covers(puts'[Len(puts')], work[t].ent)
  <2> DEFINE d == work[t].ent
  <2>1. PICK fs, next : Enrich(t, fs, next)
    BY <1>1, BuildMoves
  <2>2. d \in Entry /\ Honest(d) /\ d.at \in Versions /\ d.at <= written
    BY <1>1, AtWork DEF WellFormed
  <2>3. file \in Versions /\ d.at <= file /\ file <= written
    BY <1>1, <2>1, <2>2, FileThere DEF Enrich, MergeInv, TypeOK
  <2>4. /\ Enriched(d, fs) \in Entry /\ Honest(Enriched(d, fs))
        /\ Covers(Enriched(d, fs), d)
    BY <1>1, <2>2, <2>3, StampEntry DEF Enriched, MergeInv
  <2>5. Put(Enriched(d, fs)) /\ written' = written
    BY <2>1 DEF Enrich
  <2>6. puts'[Len(puts')] = Enriched(d, fs)
    BY <1>1, <2>4, <2>5, PutQueue
  <2>7. QED
    BY <2>4, <2>6
<1>2. MergeInv /\ [Next]_vars =>
        [\A t \in Tools :
          (work[t].step \in {"parsed", "hashed"} /\ work'[t] # work[t] /\ puts' # puts)
            => Covers(puts'[Len(puts')], work[t].ent)]_vars
  BY <1>1
<1>3. QED
  BY <1>2, MergeInvariant, PTL DEF Spec, BuildsOnlyAdd

-----------------------------------------------------------------------------
(* The record of one file.  Names are of one place: the fields of the      *)
(* record or its map.                                                      *)
LEMMA NamesApart ==
  /\ FamilyAttrs \subseteq Declared /\ FamilyAttrs \cap TypedNames = {}
  /\ TypedNames \subseteq Declared /\ AlwaysOn \subseteq IdentityNames
  /\ ProbedNames \cap (IdentityNames \cup FlagNames) = {}
  /\ "is_quarantined" \in FlagNames
BY DEF FamilyAttrs, Declared, TypedNames, IdentityNames, FlagNames, ProbedNames, DocumentKeys,
       FormatKeys, OptInKeys, CommonAttrs, ImageAttrs, MediaAttrs, ArchiveBinaryAttrs,
       EmailSourceAttrs, FrontmatterAttrs, DiskImageAttrs, InstallPackageAttrs, MiscAttrs,
       CodesignAttrs, PlistAttrs, BytecodeAttrs, ScienceAttrs, DatabaseAttrs, BookmarkAttrs,
       ChatAttrs, FontAttrs, XattrAttrs, MeshAttrs, AlwaysOn

LEMMA FlagsAre ==
  ASSUME NEW k
  PROVE  FlagsOf(k) \subseteq FlagNames \ {"is_quarantined"}
BY DEF FlagsOf, ExactFlags, FamilyFlags, FlagNames

Surroundings == {"none", "old", "new"}
Stamps == [ver : Nat \ {0}, around : Surroundings]
Clones == Cardinality(Builds)

BuildFields ==
  {"state", "ask", "at", "hit", "keyed", "map", "keeps", "todo", "typed", "saw", "row", "since"}
World ==
  /\ DOMAIN build = Builds /\ \A b \in Builds : DOMAIN build[b] = BuildFields
  /\ backend \in {"memory", "bbolt"} /\ link \in {"no", "file", "broken"}
  /\ fileVer \in Nat \ {0} /\ around \in Surroundings

(* The maps: what is in them can be there, ...                             *)
Fits(n) == (n = "c2pa_valid" => kind \in Images) /\ (n = "target_path" => link # "no")
HeapOK ==
  /\ DOMAIN heap = 0 .. 2 * Clones
  /\ \A i \in 0 .. 2 * Clones : \A n \in DOMAIN heap[i] : heap[i][n] \in Stamps /\ Fits(n)

(* ... and those the index keeps are no build's own.                       *)
Past(b) == build[b].state \in {"enriching", "seen", "shown"}
Kept == {0} \cup {Cloned(c) : c \in {c \in Builds : Past(c)}}
Fresh(i, v) == \A n \in DOMAIN heap[i] : heap[i][n].ver >= v
Of(i, names) == DOMAIN heap[i] \subseteq names

StoredOK ==
  /\ stored # NoStored =>
       /\ stored \in [ver : Nat, map : Nat]
       /\ stored.map \in (IF backend = "memory" THEN Kept ELSE {0})
       /\ stored.ver <= fileVer /\ Fresh(stored.map, stored.ver)
  /\ backend = "bbolt" => Of(0, Extracted(kind) \cup LeftBehind)

(* A build knows the present, ...                                          *)
Begun(b) ==
  /\ build[b].state # "idle" =>
       build[b].at \in Nat /\ build[b].at <= fileVer /\ around \in build[b].since
  /\ ~Past(b) => Of(b, {}) /\ build[b].hit = FALSE /\ build[b].keyed \in BOOLEAN
  /\ build[b].state = "statted" => build[b].map = b

(* ... works in a map of its own or in the one the index keeps, ...        *)
InPlace(b) ==
  /\ build[b].hit \in BOOLEAN /\ build[b].keyed \in BOOLEAN
  /\ IF build[b].hit /\ backend = "memory"
     THEN build[b].map \in Kept /\ build[b].keeps = build[b].map
     ELSE /\ build[b].map = b
          /\ build[b].keyed => build[b].keeps = (IF build[b].hit THEN b ELSE Cloned(b))
  /\ Fresh(build[b].map, build[b].at)
  /\ build[b].keyed => Fresh(build[b].keeps, build[b].at)

(* ... with fields of its own, ...                                         *)
OwnFields(b) ==
  /\ \A n \in DOMAIN build[b].typed :
       /\ build[b].typed[n] \in Stamps
       /\ build[b].typed[n].ver >= build[b].at /\ build[b].typed[n].around \in build[b].since
  /\ DOMAIN build[b].typed \subseteq
       IdentityNames \cup (FlagNames \ {"is_quarantined"}) \cup AskedProbes(build[b].ask.do)
       \cup (IF "xattrs" \in build[b].ask.do THEN {"is_quarantined"} ELSE {})

(* ... with what was asked for in its map, ...                             *)
Own(b) ==
  ~build[b].hit =>
    /\ \A n \in DOMAIN heap[b] : heap[b][n].around \in build[b].since
    /\ Of(b, Extracted(kind) \cup AskedKeys(build[b].ask.do))
    /\ build[b].keyed /\ backend = "bbolt" => Of(Cloned(b), Extracted(kind))
Decoded(b) ==
  build[b].hit /\ backend = "bbolt" =>
    /\ Of(b, Extracted(kind) \cup AskedKeys(build[b].ask.do) \cup LeftBehind)
    /\ (\E s \in build[b].todo : Stores(s)) => Of(b, Extracted(kind) \cup LeftBehind)

(* ... and brought up to date as far as it has got.                        *)
About(s) ==
  CASE s = "verify" -> {"c2pa_valid"}
    [] s = "project" -> {"project_type"}
    [] s = "xattrs" -> {"xattr_keys"}
    [] s = "probes" -> {"target_path"}
    [] OTHER -> {}
InTime(b, v) == v.around \in build[b].since \/ "none" \in build[b].since
Updated(b) ==
  /\ build[b].todo \subseteq StepsAsked(build[b].ask.do)
  /\ build[b].hit =>
       \A s \in StepsAsked(build[b].ask.do) \ build[b].todo : \A n \in About(s) :
         n \in DOMAIN heap[build[b].map] => InTime(b, heap[build[b].map][n])

(* What the expression has seen is what there still is.                    *)
Sees(b) ==
  build[b].state = "seen" =>
    /\ \A n \in DOMAIN build[b].saw :
         /\ n \in Declared
         /\ n \in TypedNames => n \in DOMAIN build[b].typed /\ build[b].saw[n] = build[b].typed[n]
         /\ n \notin TypedNames => n \in DOMAIN heap[build[b].map]
    /\ \A n \in DOMAIN build[b].typed : n \in TypedNames => n \in DOMAIN build[b].saw
    /\ Private(b) =>
         \A n \in DOMAIN heap[b] \cap (Declared \ TypedNames) :
           n \in DOMAIN build[b].saw /\ build[b].saw[n] = heap[b][n]

Working(b) == Past(b) => InPlace(b) /\ OwnFields(b) /\ Own(b) /\ Decoded(b) /\ Updated(b) /\ Sees(b)
RecHonest(b) == HasSeen(b) => OfThisVersion(b) /\ OnlyAsked(b) /\ RowAgrees(b) /\ AskedFresh(b)

RecInv ==
  /\ World /\ HeapOK /\ StoredOK
  /\ \A b \in Builds : Begun(b) /\ Working(b) /\ RecHonest(b)

-----------------------------------------------------------------------------
LEMMA BuildsAre ==
  /\ Clones \in Nat /\ Builds = 1 .. Clones /\ Builds \subseteq Nat \ {0}
  /\ \A b \in Builds : Cloned(b) = b + Clones /\ b \in 0 .. 2 * Clones /\ Cloned(b) \in 0 .. 2 * Clones
<1>1. Clones \in Nat /\ Builds = 1 .. Clones
  BY AttributesAssumption, FS_CardinalityType DEF Clones
<1> QED
  BY <1>1 DEF Clones, Cloned

LEMMA RecordStarts ==
  ASSUME AttributesInit
  PROVE  RecInv
<1>1. PICK m \in {"memory", "bbolt"}, k \in DOMAIN Requests, l \in {"no", "file", "broken"},
           a \in {"none", "old", "new"}, there \in BOOLEAN : AttributesStart(m, k, l, a, there)
  BY DEF AttributesInit
<1>2. World
  BY <1>1 DEF World, AttributesStart, Surroundings, NotBegun, BuildFields
<1>3. \A b \in Builds : build[b].state = "idle"
  BY <1>1 DEF AttributesStart, NotBegun
<1>5. DOMAIN heap = 0 .. 2 * Clones
  BY <1>1 DEF AttributesStart, Clones
<1>6. ASSUME NEW i \in 0 .. 2 * Clones
      PROVE  /\ heap[i] = IF there /\ i = 0 THEN [n \in Parsed(k) |-> [ver |-> 1, around |-> a]] ELSE Empty
  BY <1>1 DEF AttributesStart, Clones
<1>4. ASSUME NEW b \in Builds PROVE Begun(b) /\ Working(b) /\ RecHonest(b)
  <2>1. Of(b, {})
    BY <1>6, BuildsAre DEF Of, Empty
  <2>2. build[b].hit = FALSE /\ build[b].keyed = FALSE
    BY <1>1 DEF AttributesStart, NotBegun
  <2> QED
    BY <1>3, <2>1, <2>2 DEF Begun, Working, RecHonest, Past, HasSeen
<1>7. \A n \in Parsed(k) : n # "c2pa_valid" /\ n # "target_path"
  BY DEF Parsed
<1>8. HeapOK
  <2>1. ASSUME NEW i \in 0 .. 2 * Clones, NEW n \in DOMAIN heap[i]
        PROVE  heap[i][n] \in Stamps /\ Fits(n)
    <3>1. there /\ i = 0
      BY <1>6 DEF Empty
    <3>2. n \in Parsed(k) /\ heap[i][n] = [ver |-> 1, around |-> a]
      BY <1>6, <3>1
    <3> QED
      BY <1>1, <1>7, <3>2 DEF Stamps, Surroundings, Fits
  <2> QED
    BY <1>5, <2>1 DEF HeapOK
<1>9. StoredOK
  <2>1. 0 \in 0 .. 2 * Clones
    BY BuildsAre
  <2>2. stored # NoStored => there /\ stored = [ver |-> 1, map |-> 0]
    BY <1>1 DEF AttributesStart
  <2>3. Of(0, Extracted(kind))
    BY <1>1, <1>6, <2>1 DEF Of, Extracted, AttributesStart, Empty
  <2>4. Fresh(0, 1)
    BY <1>6, <2>1 DEF Fresh, Empty
  <2>5. fileVer = 1
    BY <1>1 DEF AttributesStart
  <2> QED
    BY <2>2, <2>3, <2>4, <2>5 DEF StoredOK, Kept, Of
<1> QED
  BY <1>2, <1>4, <1>8, <1>9 DEF RecInv

-----------------------------------------------------------------------------
(* What a step leaves a build that does not take it: its own map as it is, *)
(* the map the index keeps with some values of now.                        *)
Grows(i) ==
  /\ DOMAIN heap[i] \subseteq DOMAIN heap'[i]
  /\ \A n \in DOMAIN heap'[i] :
       \/ n \in DOMAIN heap[i] /\ heap'[i][n] = heap[i][n]
       \/ heap'[i][n] = Now

LEMMA FreshGrows ==
  ASSUME RecInv, NEW i, NEW v \in Nat, v <= fileVer, Fresh(i, v), Grows(i)
  PROVE  Fresh(i, v)'
BY DEF RecInv, World, Fresh, Grows, Now

LEMMA Steady ==
  ASSUME RecInv, UNCHANGED worldVars, NEW b \in Builds, build'[b] = build[b],
         \A c \in Builds : Past(c) => Past(c)',
         heap'[b] = heap[b],
         backend = "bbolt" => heap'[Cloned(b)] = heap[Cloned(b)],
         backend = "memory" => \A i \in Kept : Grows(i)
  PROVE  Begun(b)' /\ Working(b)' /\ RecHonest(b)'
<1>1. /\ backend' = backend /\ kind' = kind /\ link' = link /\ fileVer' = fileVer /\ around' = around
      /\ (Past(b)' <=> Past(b)) /\ (HasSeen(b)' <=> HasSeen(b)) /\ Extracted(kind)' = Extracted(kind)
      /\ \A i : (Of(i, {}) /\ heap'[i] = heap[i]) => Of(i, {})'
  BY DEF worldVars, Past, HasSeen, Of, Extracted, Parsed, Beside
<1>2. Kept \subseteq Kept'
  BY DEF Kept, Cloned
<1>3. Begun(b)'
  BY <1>1 DEF RecInv, Begun
<1>4. RecHonest(b)'
  BY <1>1 DEF RecInv, RecHonest, OfThisVersion, OnlyAsked, RowAgrees, AskedFresh, Private, Unsaid
<1>5. ASSUME Past(b) PROVE Working(b)'
  <2>1. InPlace(b) /\ OwnFields(b) /\ Own(b) /\ Decoded(b) /\ Updated(b) /\ Sees(b)
    BY <1>5 DEF RecInv, Working
  <2>2. build[b].at \in Nat /\ build[b].at <= fileVer /\ around \in build[b].since
    BY <1>5 DEF RecInv, Begun, Past
  <2>3. Cloned(b) \in Kept
    BY <1>5 DEF Kept
  <2>4. Grows(build[b].map)
    <3>1. CASE build[b].hit /\ backend = "memory"
      BY <2>1, <3>1 DEF InPlace
    <3>2. CASE ~(build[b].hit /\ backend = "memory")
      BY <2>1, <3>2 DEF InPlace, Grows
    <3> QED
      BY <3>1, <3>2
  <2>5. ASSUME build[b].keyed PROVE Grows(build[b].keeps)
    <3>1. CASE build[b].hit /\ backend = "memory"
      BY <2>1, <3>1 DEF InPlace
    <3>2. CASE build[b].hit /\ backend # "memory"
      BY <2>1, <2>5, <3>2 DEF InPlace, Grows
    <3>3. CASE ~build[b].hit
      <4>1. build[b].keeps = Cloned(b)
        BY <2>1, <2>5, <3>3 DEF InPlace
      <4> QED
        BY <2>3, <4>1 DEF RecInv, World, Grows
    <3> QED
      BY <3>1, <3>2, <3>3
  <2>6. InPlace(b)'
    <3>1. Fresh(build[b].map, build[b].at)' /\ (build[b].keyed => Fresh(build[b].keeps, build[b].at)')
      BY <2>1, <2>2, <2>4, <2>5, FreshGrows DEF InPlace, Fresh
    <3>2. Fresh(build[b].map, build[b].at)' /\ (build'[b].keyed => Fresh(build[b].keeps, build[b].at)')
      BY <3>1
    <3> QED
      BY <1>1, <1>2, <2>1, <3>2 DEF InPlace, Cloned
  <2>7. OwnFields(b)'
    BY <2>1 DEF OwnFields
  <2>8. Own(b)'
    BY <1>1, <2>1 DEF Own, Of, Cloned
  <2>9. Decoded(b)'
    BY <1>1, <2>1 DEF Decoded, Of, Stores
  <2>10. Updated(b)'
    <3>1. ASSUME NEW n \in DOMAIN heap'[build[b].map],
                 n \in DOMAIN heap[build[b].map] => InTime(b, heap[build[b].map][n])
          PROVE  InTime(b, heap'[build[b].map][n])
      BY <2>2, <2>4, <3>1 DEF Grows, InTime, Now
    <3> QED
      BY <1>1, <2>1, <3>1 DEF Updated, InTime
  <2>11. Sees(b)'
    BY <1>1, <2>1, <2>4 DEF Sees, Grows, Private
  <2> QED
    BY <2>6, <2>7, <2>8, <2>9, <2>10, <2>11 DEF Working
<1> QED
  BY <1>1, <1>3, <1>4, <1>5 DEF Working

LEMMA StepKeeps ==
  ASSUME RecInv, UNCHANGED worldVars, NEW b \in Builds, NEW r, BuildIs(b, r), DOMAIN r = BuildFields,
         Past(b) => Past(b)',
         HeapOK', StoredOK', Begun(b)', Working(b)', RecHonest(b)',
         \A c \in Builds \ {b} :
           heap'[c] = heap[c] /\ (backend = "bbolt" => heap'[Cloned(c)] = heap[Cloned(c)]),
         backend = "memory" => \A i \in Kept : Grows(i)
  PROVE  RecInv'
<1>1. /\ DOMAIN build = Builds /\ build'[b] = r /\ DOMAIN build' = Builds
      /\ \A c \in Builds \ {b} : build'[c] = build[c]
  BY DEF RecInv, World, BuildIs
<1>2. World'
  BY <1>1 DEF RecInv, World, worldVars
<1>3. \A c \in Builds : Past(c) => Past(c)'
  BY <1>1 DEF Past
<1>4. \A c \in Builds \ {b} : Begun(c)' /\ Working(c)' /\ RecHonest(c)'
  BY <1>1, <1>3, Steady
<1> QED
  BY <1>2, <1>4 DEF RecInv

LEMMA NowFits ==
  ASSUME RecInv
  PROVE  Now \in Stamps /\ Now.ver = fileVer /\ Now.around = around
BY DEF RecInv, World, Now, Stamps

LEMMA BeginKeeps ==
  ASSUME RecInv, NEW b \in Builds, NEW ask, BuildAttributes(b, ask)
  PROVE  RecInv'
<1> DEFINE begun == [NotBegun EXCEPT !.ask = ask, !.at = fileVer, !.since = {around}, !.map = b]
           r == IF link = "broken"
                THEN [begun EXCEPT !.state = "enriching", !.todo = LinkSteps(ask.do)]
                ELSE [begun EXCEPT !.state = "statted", !.keyed = "bare" \notin ask.do]
<1>1. BuildIs(b, r) /\ build[b].state = "idle" /\ UNCHANGED <<worldVars, heap, stored, dead>>
  BY DEF BuildAttributes
<1>2. /\ DOMAIN r = BuildFields /\ r.ask = ask /\ r.at = fileVer /\ r.since = {around} /\ r.map = b
      /\ r.hit = FALSE /\ r.typed = Empty /\ r.keyed \in BOOLEAN /\ r.state \in {"enriching", "statted"}
  BY DEF NotBegun, BuildFields
<1>3. r.state = "enriching" => r.todo = LinkSteps(ask.do) /\ r.keyed = FALSE
  BY DEF NotBegun
<1> HIDE DEF r
<1>4. build'[b] = r /\ \A c \in Builds \ {b} : build'[c] = build[c]
  BY <1>1 DEF RecInv, World, BuildIs
<1>5. /\ backend' = backend /\ kind' = kind /\ link' = link /\ fileVer' = fileVer /\ around' = around
      /\ heap' = heap /\ stored' = stored
  BY <1>1 DEF worldVars
<1>6. ~Past(b) /\ Of(b, {})
  BY <1>1 DEF Past, RecInv, Begun
<1>7. \A c \in Builds : Past(c) => Past(c)'
  BY <1>4, <1>6 DEF Past
<1>8. Kept \subseteq Kept'
  BY <1>7 DEF Kept, Cloned
<1>9. HeapOK'
  BY <1>5 DEF RecInv, HeapOK, Fits
<1>10. StoredOK'
  BY <1>5, <1>8 DEF RecInv, StoredOK, Fresh, Of, Extracted, Parsed, Beside
<1>11. Begun(b)'
  BY <1>2, <1>4, <1>5, <1>6 DEF Begun, RecInv, World, Of
<1>12. RecHonest(b)'
  BY <1>2, <1>4 DEF RecHonest, HasSeen
<1>13. ASSUME r.state = "enriching" PROVE Working(b)'
  <2>1. DOMAIN heap[b] = {}
    BY <1>6 DEF Of
  <2>2. InPlace(b)'
    BY <1>2, <1>3, <1>4, <1>5, <1>13, <2>1 DEF InPlace, Fresh
  <2>3. OwnFields(b)'
    BY <1>2, <1>4 DEF OwnFields, Empty
  <2>4. Own(b)' /\ Decoded(b)'
    BY <1>2, <1>3, <1>4, <1>5, <1>13, <2>1 DEF Own, Decoded, Of
  <2>5. Updated(b)'
    BY <1>2, <1>3, <1>4, <1>13 DEF Updated, LinkSteps, StepsAsked
  <2>6. Sees(b)'
    BY <1>4, <1>13 DEF Sees
  <2> QED
    BY <2>2, <2>3, <2>4, <2>5, <2>6 DEF Working
<1>14. Working(b)'
  BY <1>2, <1>4, <1>13 DEF Working, Past
<1>15. \A i : Grows(i)
  BY <1>5 DEF Grows
<1> QED
  BY <1>1, <1>2, <1>5, <1>7, <1>9, <1>10, <1>11, <1>12, <1>14, <1>15, StepKeeps

LEMMA DropKeeps ==
  ASSUME RecInv, NEW b \in Builds, DropBuild(b)
  PROVE  RecInv'
<1> DEFINE r == [build[b] EXCEPT !.state = "dropped"]
<1>1. BuildIs(b, r) /\ build[b].state = "statted" /\ UNCHANGED <<worldVars, heap, stored, dead>>
  BY DEF DropBuild
<1>2. /\ DOMAIN r = BuildFields /\ r.state = "dropped" /\ r.at = build[b].at /\ r.since = build[b].since
      /\ r.hit = build[b].hit /\ r.keyed = build[b].keyed
  BY DEF RecInv, World, BuildFields
<1> HIDE DEF r
<1>4. build'[b] = r /\ \A c \in Builds \ {b} : build'[c] = build[c]
  BY <1>1 DEF RecInv, World, BuildIs
<1>5. /\ backend' = backend /\ kind' = kind /\ link' = link /\ fileVer' = fileVer /\ around' = around
      /\ heap' = heap /\ stored' = stored
  BY <1>1 DEF worldVars
<1>6. ~Past(b)
  BY <1>1 DEF Past
<1>7. \A c \in Builds : Past(c) => Past(c)'
  BY <1>4, <1>6 DEF Past
<1>8. Kept \subseteq Kept'
  BY <1>7 DEF Kept, Cloned
<1>9. HeapOK'
  BY <1>5 DEF RecInv, HeapOK, Fits
<1>10. StoredOK'
  BY <1>5, <1>8 DEF RecInv, StoredOK, Fresh, Of, Extracted, Parsed, Beside
<1>11. Begun(b)'
  BY <1>1, <1>2, <1>4, <1>5, <1>6 DEF Begun, RecInv, Of, Past
<1>12. RecHonest(b)' /\ Working(b)'
  BY <1>2, <1>4 DEF RecHonest, HasSeen, Working, Past
<1>15. \A i : Grows(i)
  BY <1>5 DEF Grows
<1> QED
  BY <1>1, <1>2, <1>5, <1>7, <1>9, <1>10, <1>11, <1>12, <1>15, StepKeeps

LEMMA HitKeeps ==
  ASSUME RecInv, NEW b \in Builds, LookupHit(b)
  PROVE  RecInv'
<1> DEFINE own == IF backend = "memory" THEN stored.map ELSE b
           r == [build[b] EXCEPT !.state = "enriching", !.hit = TRUE, !.map = own,
                                 !.keeps = own, !.typed = AllNow(TypedAtOnce),
                                 !.todo = StepsAsked(build[b].ask.do)]
<1>1. /\ BuildIs(b, r) /\ build[b].state = "statted" /\ UNCHANGED worldVars /\ stored' = stored
      /\ stored # NoStored /\ stored.ver = build[b].at
      /\ heap' = IF backend = "memory" THEN heap ELSE [heap EXCEPT ![b] = heap[0]]
  BY DEF LookupHit, EntryFound
<1>2. /\ DOMAIN r = BuildFields /\ r.state = "enriching" /\ r.at = build[b].at /\ r.since = build[b].since
      /\ r.hit = TRUE /\ r.keyed = build[b].keyed /\ r.map = own /\ r.keeps = own /\ r.ask = build[b].ask
      /\ r.typed = AllNow(TypedAtOnce) /\ r.todo = StepsAsked(build[b].ask.do)
  BY DEF RecInv, World, BuildFields
<1> HIDE DEF r
<1>4. build'[b] = r /\ \A c \in Builds \ {b} : build'[c] = build[c]
  BY <1>1 DEF RecInv, World, BuildIs
<1>5. /\ backend' = backend /\ kind' = kind /\ link' = link /\ fileVer' = fileVer /\ around' = around
      /\ backend \in {"memory", "bbolt"}
  BY <1>1 DEF worldVars, RecInv, World
<1>6. /\ ~Past(b) /\ build[b].at \in Nat /\ build[b].at <= fileVer /\ around \in build[b].since
      /\ build[b].keyed \in BOOLEAN
  BY <1>1 DEF Past, RecInv, Begun
<1>7. \A c \in Builds : Past(c) => Past(c)'
  BY <1>4, <1>6 DEF Past
<1>8. Kept \subseteq Kept'
  BY <1>7 DEF Kept, Cloned
<1>h. /\ 0 \in 0 .. 2 * Clones /\ b \in 0 .. 2 * Clones /\ b # 0 /\ DOMAIN heap = 0 .. 2 * Clones
      /\ \A c \in Builds : Cloned(c) # b /\ Cloned(c) # 0 /\ Cloned(c) \in 0 .. 2 * Clones /\ c \in 0 .. 2 * Clones
  BY BuildsAre DEF RecInv, HeapOK
<1>i. /\ \A i \in 0 .. 2 * Clones : i # b => heap'[i] = heap[i]
      /\ backend = "memory" => heap'[b] = heap[b]
      /\ backend = "bbolt" => heap'[b] = heap[0]
      /\ DOMAIN heap' = 0 .. 2 * Clones
  BY <1>1, <1>5, <1>h
<1>9. HeapOK'
  BY <1>5, <1>h, <1>i DEF RecInv, HeapOK, Fits
<1>j. StoredOK
  BY DEF RecInv
<1>k. /\ stored.map \in (IF backend = "memory" THEN Kept ELSE {0}) /\ stored.ver \in Nat
      /\ Fresh(stored.map, stored.ver)
  BY <1>1, <1>j DEF StoredOK
<1>l. Kept \subseteq 0 .. 2 * Clones /\ b \notin Kept
  BY <1>h DEF Kept
<1>10. StoredOK'
  <2>1. stored.map # b /\ stored.map \in 0 .. 2 * Clones
    BY <1>h, <1>k, <1>l
  <2>2. Fresh(stored.map, stored.ver)'
    BY <1>1, <1>i, <1>k, <2>1 DEF Fresh
  <2>3. (backend = "bbolt" => Of(0, Extracted(kind) \cup LeftBehind))'
    BY <1>5, <1>h, <1>i, <1>j DEF StoredOK, Of, Extracted, Parsed, Beside
  <2> QED
    BY <1>1, <1>5, <1>8, <1>j, <1>k, <2>2, <2>3 DEF StoredOK
<1>11. Begun(b)'
  BY <1>2, <1>4, <1>5, <1>6 DEF Begun, Past
<1>12. RecHonest(b)'
  BY <1>2, <1>4 DEF RecHonest, HasSeen
<1>13. \A n \in DOMAIN heap'[r.map] : heap'[r.map][n].ver >= r.at
  <2>1. CASE backend = "memory"
    BY <1>1, <1>2, <1>k, <2>1 DEF Fresh
  <2>2. CASE backend = "bbolt"
    <3>1. r.map = b /\ r.at = stored.ver /\ stored.map = 0
      BY <1>1, <1>2, <1>k, <2>2
    <3> QED
      BY <1>i, <1>k, <2>2, <3>1 DEF Fresh
  <2> QED
    BY <1>5, <2>1, <2>2
<1>14. Working(b)'
  <2>1. InPlace(b)'
    BY <1>2, <1>4, <1>5, <1>6, <1>8, <1>13, <1>k DEF InPlace, Fresh
  <2>2. OwnFields(b)'
    <3>1. TypedAtOnce \subseteq IdentityNames \cup (FlagNames \ {"is_quarantined"})
      BY FlagsAre DEF TypedAtOnce
    <3> QED
      BY <1>2, <1>4, <1>6, <3>1, NowFits DEF OwnFields, AllNow
  <2>3. Own(b)' /\ Sees(b)'
    BY <1>2, <1>4 DEF Own, Sees
  <2>4. Decoded(b)'
    BY <1>2, <1>4, <1>5, <1>i, <1>j DEF Decoded, Of, StoredOK, Extracted, Parsed, Beside
  <2>5. Updated(b)'
    BY <1>2, <1>4 DEF Updated
  <2> QED
    BY <2>1, <2>2, <2>3, <2>4, <2>5 DEF Working
<1>15. backend = "memory" => \A i \in Kept : Grows(i)
  BY <1>1 DEF Grows
<1>16. \A c \in Builds \ {b} : heap'[c] = heap[c] /\ heap'[Cloned(c)] = heap[Cloned(c)]
  BY <1>h, <1>i
<1> QED
  BY <1>1, <1>2, <1>7, <1>9, <1>10, <1>11, <1>12, <1>14, <1>15, <1>16, StepKeeps

LEMMA MissKeeps ==
  ASSUME RecInv, NEW b \in Builds, LookupMiss(b)
  PROVE  RecInv'
<1> DEFINE missed == [build[b] EXCEPT !.state = "enriching", !.typed = AllNow(TypedAtOnce),
                                      !.todo = StepsAsked(build[b].ask.do)]
           unkeyed == [missed EXCEPT !.keyed = FALSE]
           keeping == [missed EXCEPT !.keeps = Cloned(b)]
           beside == AllNow(PathBased(kind))
           whole == AllNow(Parsed(kind) \cup PathBased(kind))
<1>t. PICK parsed \in {whole, beside} :
         \/ BuildIs(b, unkeyed) /\ UNCHANGED <<stored, heap>>
         \/ BuildIs(b, unkeyed) /\ heap' = [heap EXCEPT ![b] = beside] /\ UNCHANGED stored
         \/ /\ BuildIs(b, keeping)
            /\ PutEntry(build[b].at, Cloned(b), [heap EXCEPT ![b] = parsed, ![Cloned(b)] = parsed])
  BY DEF LookupMiss, KeptMap
<1> DEFINE maps == [heap EXCEPT ![b] = parsed, ![Cloned(b)] = parsed]
<1>1. /\ build[b].state = "statted" /\ UNCHANGED worldVars
      /\ \/ BuildIs(b, unkeyed) /\ UNCHANGED <<stored, heap>>
         \/ BuildIs(b, unkeyed) /\ heap' = [heap EXCEPT ![b] = beside] /\ UNCHANGED stored
         \/ BuildIs(b, keeping) /\ PutEntry(build[b].at, Cloned(b), maps)
  BY <1>t DEF LookupMiss
<1>2. PICK r \in {unkeyed, keeping} : BuildIs(b, r)
  BY <1>1
<1>3. /\ DOMAIN r = BuildFields /\ r.state = "enriching" /\ r.at = build[b].at /\ r.since = build[b].since
      /\ r.hit = build[b].hit /\ r.map = build[b].map /\ r.ask = build[b].ask
      /\ r.typed = AllNow(TypedAtOnce) /\ r.todo = StepsAsked(build[b].ask.do)
  <2>1. DOMAIN build[b] = BuildFields
    BY DEF RecInv, World
  <2>2. CASE r = unkeyed
    BY <2>1, <2>2 DEF BuildFields
  <2>3. CASE r = keeping
    BY <2>1, <2>3 DEF BuildFields
  <2> QED
    BY <1>2, <2>2, <2>3
<1>4. build'[b] = r /\ \A c \in Builds \ {b} : build'[c] = build[c]
  BY <1>2 DEF RecInv, World, BuildIs
<1>5. /\ backend' = backend /\ kind' = kind /\ link' = link /\ fileVer' = fileVer /\ around' = around
      /\ backend \in {"memory", "bbolt"} /\ (Extracted(kind) = Extracted(kind'))
  BY <1>1 DEF worldVars, RecInv, World
<1>6. /\ ~Past(b) /\ build[b].at \in Nat /\ build[b].at <= fileVer /\ around \in build[b].since
      /\ build[b].keyed \in BOOLEAN /\ build[b].hit = FALSE /\ build[b].map = b /\ DOMAIN heap[b] = {}
  BY <1>1 DEF Past, RecInv, Begun, Of
<1>7. \A c \in Builds : Past(c) => Past(c)'
  BY <1>4, <1>6 DEF Past
<1>8. Kept \subseteq Kept' /\ Cloned(b) \in Kept'
  <2>1. Past(b)'
    BY <1>3, <1>4 DEF Past
  <2> QED
    BY <1>7, <2>1 DEF Kept, Cloned
<1>h. /\ 0 \in 0 .. 2 * Clones /\ b \in 0 .. 2 * Clones /\ b # 0 /\ DOMAIN heap = 0 .. 2 * Clones
      /\ \A c \in Builds : Cloned(c) # b /\ Cloned(c) # 0 /\ Cloned(c) \in 0 .. 2 * Clones /\ c \in 0 .. 2 * Clones
      /\ \A c \in Builds \ {b} : Cloned(c) # Cloned(b) /\ c # Cloned(b) /\ c # 0
      /\ Cloned(b) \in Nat
  BY BuildsAre DEF RecInv, HeapOK
<1>l. Kept \subseteq 0 .. 2 * Clones /\ b \notin Kept /\ Cloned(b) \notin Kept
  BY <1>6, <1>h DEF Kept
<1>j. StoredOK /\ HeapOK
  BY DEF RecInv
<1>p. /\ PathBased(kind) \subseteq Beside(kind)
      /\ \A n \in Parsed(kind) \cup Beside(kind) : Fits(n)
  <2>1. \A n \in Parsed(kind) : n # "c2pa_valid" /\ n # "target_path"
    BY DEF Parsed
  <2>2. \A n \in Beside(kind) : n # "c2pa_valid" /\ n # "target_path"
    BY DEF Beside
  <2> QED
    BY <2>1, <2>2 DEF PathBased, Fits
(* Whatever the branch: its own two maps hold values of now, found in the  *)
(* file; the kept ones stay, but for what a put leaves under 0 in bbolt.   *)
<1> DEFINE Current(m) == /\ DOMAIN m \subseteq Extracted(kind)
                      /\ \A n \in DOMAIN m : m[n] = Now /\ Fits(n)
<1>q. Current(parsed) /\ Current(beside) /\ Current(heap[b])
  <2>1. Current(whole) /\ Current(beside) /\ Current(heap[b])
    BY <1>6, <1>p DEF AllNow, Extracted
  <2> HIDE DEF whole, beside
  <2> QED BY <1>t, <2>1
<1> HIDE DEF beside, unkeyed, keeping, missed
<1>r. /\ DOMAIN heap' = 0 .. 2 * Clones /\ Current(heap'[b])
      /\ \A i \in 1 .. 2 * Clones : i # b /\ i # Cloned(b) => heap'[i] = heap[i]
      /\ heap'[Cloned(b)] = heap[Cloned(b)] \/ Current(heap'[Cloned(b)])
      /\ \/ heap'[0] = heap[0] /\ stored' = stored
         \/ /\ backend = "memory" /\ stored' = [ver |-> build[b].at, map |-> Cloned(b)]
            /\ heap'[0] = heap[0] /\ Current(heap'[Cloned(b)])
         \/ /\ backend = "bbolt" /\ stored' = [ver |-> build[b].at, map |-> 0]
            /\ Current(heap'[0])
      /\ \/ r = keeping /\ heap'[Cloned(b)] = parsed
         \/ r = unkeyed
  <2>1. CASE BuildIs(b, unkeyed) /\ UNCHANGED <<stored, heap>>
    <3>1. build'[b] = unkeyed
      BY <2>1 DEF RecInv, World, BuildIs
    <3> QED
      BY <1>4, <1>h, <1>q, <2>1, <3>1
  <2>2. CASE BuildIs(b, unkeyed) /\ heap' = [heap EXCEPT ![b] = beside] /\ UNCHANGED stored
    <3>1. build'[b] = unkeyed
      BY <2>2 DEF RecInv, World, BuildIs
    <3>2. heap'[b] = beside /\ DOMAIN heap' = 0 .. 2 * Clones /\ \A i \in 0 .. 2 * Clones : i # b => heap'[i] = heap[i]
      BY <1>h, <2>2
    <3> QED
      BY <1>4, <1>h, <1>q, <2>2, <3>1, <3>2
  <2>3. CASE BuildIs(b, keeping) /\ PutEntry(build[b].at, Cloned(b), maps)
    <3>1. build'[b] = keeping
      BY <2>3 DEF RecInv, World, BuildIs
    <3>2. /\ maps[b] = parsed /\ maps[Cloned(b)] = parsed /\ DOMAIN maps = 0 .. 2 * Clones
          /\ \A i \in 0 .. 2 * Clones : i # b /\ i # Cloned(b) => maps[i] = heap[i]
      BY <1>h
    <3> HIDE DEF maps
    <3>3. CASE backend = "memory"
      <4>1. stored' = [ver |-> build[b].at, map |-> Cloned(b)] /\ heap' = maps
        BY <2>3, <3>3 DEF PutEntry
      <4> QED
        BY <1>4, <1>h, <1>q, <3>1, <3>2, <3>3, <4>1
    <3>4. CASE backend = "bbolt" /\ stored' = [ver |-> build[b].at, map |-> 0] /\ heap' = [maps EXCEPT ![0] = maps[Cloned(b)]]
      <4>1. /\ heap'[0] = parsed /\ heap'[b] = parsed /\ heap'[Cloned(b)] = parsed /\ DOMAIN heap' = 0 .. 2 * Clones
            /\ \A i \in 1 .. 2 * Clones : i # b /\ i # Cloned(b) => heap'[i] = heap[i]
        BY <1>h, <3>2, <3>4
      <4> QED
        BY <1>4, <1>q, <3>1, <3>4, <4>1
    <3>5. CASE backend = "bbolt" /\ stored' = stored /\ heap' = maps
      BY <1>4, <1>h, <1>q, <3>1, <3>2, <3>5
    <3>6. backend = "memory" \/ (backend = "bbolt" /\ stored' = [ver |-> build[b].at, map |-> 0] /\ heap' = [maps EXCEPT ![0] = maps[Cloned(b)]])
          \/ (backend = "bbolt" /\ stored' = stored /\ heap' = maps)
      BY <1>5, <2>3 DEF PutEntry
    <3> QED
      BY <3>3, <3>4, <3>5, <3>6
  <2> QED
    BY <1>1, <2>1, <2>2, <2>3
<1>s. \/ r.keyed = build[b].keyed /\ r.keeps = Cloned(b) /\ Current(heap'[Cloned(b)])
      \/ r.keyed = FALSE
  <2>1. CASE r = keeping /\ heap'[Cloned(b)] = parsed
    BY <1>q, <2>1 DEF keeping, missed, RecInv, World, BuildFields
  <2>2. CASE r = unkeyed
    BY <2>2 DEF unkeyed, missed, RecInv, World, BuildFields
  <2> QED
    BY <1>r, <2>1, <2>2
<1>9. HeapOK'
  <2>1. ASSUME NEW i \in 0 .. 2 * Clones, NEW n \in DOMAIN heap'[i]
        PROVE  heap'[i][n] \in Stamps /\ Fits(n)
    <3>1. CASE heap'[i] = heap[i]
      BY <1>j, <2>1, <3>1 DEF HeapOK
    <3>2. CASE Current(heap'[i])
      BY <2>1, <3>2, NowFits
    <3>3. heap'[i] = heap[i] \/ Current(heap'[i])
      <4>1. CASE i = 0
        BY <1>r, <4>1
      <4>2. CASE i # 0
        <5>1. i \in 1 .. 2 * Clones
          BY <4>2, BuildsAre
        <5> QED
          BY <1>r, <5>1
      <4> QED
        BY <4>1, <4>2
    <3> QED
      BY <3>1, <3>2, <3>3
  <2>2. \A n : Fits(n)' <=> Fits(n)
    BY <1>5 DEF Fits
  <2> QED
    BY <1>r, <2>1, <2>2 DEF HeapOK
<1>10. StoredOK'
  <2>1. CASE heap'[0] = heap[0] /\ stored' = stored
    <3>1. \A i \in Kept : heap'[i] = heap[i]
      <4>1. ASSUME NEW i \in Kept PROVE heap'[i] = heap[i]
        <5>1. i = 0 \/ i \in 1 .. 2 * Clones
          BY <1>l, BuildsAre
        <5> QED
          BY <1>l, <1>r, <2>1, <5>1
      <4> QED
        BY <4>1
    <3>2. 0 \in Kept
      BY DEF Kept
    <3>3. (backend = "bbolt" => Of(0, Extracted(kind) \cup LeftBehind))'
      BY <1>5, <1>j, <2>1 DEF StoredOK, Of
    <3>4. stored # NoStored => stored.map \in Kept /\ Fresh(stored.map, stored.ver)
      BY <1>j, <3>2 DEF StoredOK
    <3>5. stored # NoStored => Fresh(stored.map, stored.ver)'
      BY <2>1, <3>1, <3>4 DEF Fresh
    <3> QED
      BY <1>5, <1>8, <1>j, <2>1, <3>3, <3>5 DEF StoredOK
  <2>2. CASE /\ backend = "memory" /\ stored' = [ver |-> build[b].at, map |-> Cloned(b)]
             /\ heap'[0] = heap[0] /\ Current(heap'[Cloned(b)])
    <3>1. stored'.map = Cloned(b) /\ stored'.ver = build[b].at /\ stored' \in [ver : Nat, map : Nat]
      BY <1>6, <1>h, <2>2
    <3>2. Fresh(stored.map, stored.ver)'
      BY <1>6, <2>2, <3>1, NowFits DEF Fresh, RecInv, World
    <3> QED
      BY <1>5, <1>6, <1>8, <2>2, <3>1, <3>2 DEF StoredOK
  <2>3. CASE /\ backend = "bbolt" /\ stored' = [ver |-> build[b].at, map |-> 0]
             /\ Current(heap'[0])
    <3>1. stored'.map = 0 /\ stored'.ver = build[b].at /\ stored' \in [ver : Nat, map : Nat]
      BY <1>6, <2>3
    <3>2. Fresh(stored.map, stored.ver)'
      BY <1>6, <2>3, <3>1, NowFits DEF Fresh, RecInv, World
    <3>3. Of(0, Extracted(kind) \cup LeftBehind)'
      BY <1>5, <2>3 DEF Of
    <3> QED
      BY <1>5, <1>6, <2>3, <3>1, <3>2, <3>3 DEF StoredOK
  <2> QED
    BY <1>r, <2>1, <2>2, <2>3
<1>11. Begun(b)'
  BY <1>3, <1>4, <1>5, <1>6 DEF Begun, Past
<1>12. RecHonest(b)'
  BY <1>3, <1>4 DEF RecHonest, HasSeen
<1>14. Working(b)'
  <2>0. \A m : Current(m) => \A n \in DOMAIN m : m[n].ver >= build[b].at /\ m[n].around \in build[b].since
    BY <1>6, NowFits DEF RecInv, World
  <2>1. InPlace(b)'
    <3>1. Fresh(b, build[b].at)'
      BY <1>3, <1>4, <1>r, <2>0 DEF Fresh
    <3>2. r.keyed => r.keeps = Cloned(b) /\ Current(heap'[r.keeps]) /\ r.keyed = build[b].keyed
      BY <1>s
    <3>3. r.keyed => Fresh(build[b].keeps, build[b].at)'
      BY <1>3, <1>4, <2>0, <3>2 DEF Fresh
    <3>4. r.keyed \in BOOLEAN
      BY <1>6, <1>s
    <3>5. Fresh(build[b].map, build[b].at)'
      BY <1>3, <1>4, <1>6, <3>1 DEF Fresh
    <3> QED
      BY <1>3, <1>4, <1>6, <3>2, <3>3, <3>4, <3>5 DEF InPlace, Cloned
  <2>2. OwnFields(b)'
    <3>1. TypedAtOnce \subseteq IdentityNames \cup (FlagNames \ {"is_quarantined"})
      BY FlagsAre DEF TypedAtOnce
    <3> QED
      BY <1>3, <1>4, <1>6, <3>1, NowFits DEF OwnFields, AllNow
  <2>3. Decoded(b)' /\ Sees(b)'
    BY <1>3, <1>4, <1>6 DEF Decoded, Sees
  <2>4. Own(b)'
    <3>1. \A n \in DOMAIN heap'[b] : heap'[b][n].around \in build[b].since
      BY <1>r, <2>0
    <3>2. DOMAIN heap'[b] \subseteq Extracted(kind) \cup AskedKeys(build[b].ask.do)
      BY <1>r
    <3>3. r.keyed => DOMAIN heap'[Cloned(b)] \subseteq Extracted(kind)
      BY <1>s
    <3> QED
      BY <1>3, <1>4, <1>5, <3>1, <3>2, <3>3 DEF Own, Of, Cloned
  <2>5. Updated(b)'
    BY <1>3, <1>4 DEF Updated
  <2> QED
    BY <2>1, <2>2, <2>3, <2>4, <2>5 DEF Working
<1>15. backend = "memory" => \A i \in Kept : Grows(i)
  <2>1. ASSUME backend = "memory", NEW i \in Kept PROVE heap'[i] = heap[i]
    <3>1. i = 0 \/ i \in 1 .. 2 * Clones
      BY <1>l, BuildsAre
    <3> QED
      BY <1>l, <1>r, <2>1, <3>1
  <2> QED
    BY <2>1 DEF Grows
<1>16. \A c \in Builds \ {b} : heap'[c] = heap[c] /\ heap'[Cloned(c)] = heap[Cloned(c)]
  <2>1. ASSUME NEW c \in Builds \ {b} PROVE c \in 1 .. 2 * Clones /\ Cloned(c) \in 1 .. 2 * Clones
    BY BuildsAre
  <2> QED
    BY <1>h, <1>r, <2>1
<1> QED
  BY <1>1, <1>2, <1>3, <1>7, <1>9, <1>10, <1>11, <1>12, <1>14, <1>15, <1>16, StepKeeps

LEMMA NextStepIs ==
  ASSUME NEW left, left \subseteq DOMAIN Order, left # {}
  PROVE  /\ NextStep(left) \in left
         /\ \A t \in left : Order[NextStep(left)] <= Order[t]
<1> DEFINE Nums == {Order[t] : t \in left}
<1>1. \A t \in DOMAIN Order : Order[t] \in Nat
  BY DEF Order
<1>2. Nums \subseteq Nat /\ Nums # {}
  BY <1>1
<1> HIDE DEF Nums
<1>3. PICK m \in Nums : \A n \in Nums : m <= n
  BY <1>2, LeastNat
<1>4. \E s \in left : \A t \in left : Order[s] <= Order[t]
  BY <1>3 DEF Nums
<1> QED
  BY <1>4 DEF NextStep

(* What one step writes.                                                   *)
LEMMA StepWrites ==
  ASSUME NEW s, NEW do, s \in StepsAsked(do), NEW names \in Outcomes(s)
  PROVE  /\ \A n \in names : Fits(n)
         /\ names \subseteq AskedKeys(do)
         /\ Stores(s) => names \subseteq LeftBehind
         /\ s \notin {"xattrs", "git", "probes"} => names \subseteq LeftBehind
<1>1. s \in do \/ s = "probes"
  BY DEF StepsAsked, Always
<1>2. names = ExtraOf(s) \/ names = {} \/ (s = "ocr" /\ kind \in Images /\ names = {"body"})
  BY DEF Outcomes
<1>3. CASE s = "body"
  BY <1>1, <1>2, <1>3 DEF ExtraOf, Fits, AskedKeys, LeftBehind
<1>4. CASE s = "ocr"
  BY <1>1, <1>2, <1>4 DEF ExtraOf, Fits, AskedKeys, LeftBehind
<1>5. CASE s = "verify"
  BY <1>1, <1>2, <1>5 DEF ExtraOf, Fits, AskedKeys, LeftBehind
<1>6. CASE s = "project"
  BY <1>1, <1>2, <1>6 DEF ExtraOf, Fits, AskedKeys, LeftBehind, ProjectContext
<1>7. CASE s = "phash"
  BY <1>1, <1>2, <1>7 DEF ExtraOf, Fits, AskedKeys, LeftBehind
<1>8. CASE s = "xattrs"
  BY <1>1, <1>2, <1>8 DEF ExtraOf, Fits, AskedKeys, LeftBehind, Stores
<1>9. CASE s = "probes"
  BY <1>1, <1>2, <1>9 DEF ExtraOf, Fits, AskedKeys, LeftBehind, Stores
<1>10. CASE s \notin {"body", "ocr", "verify", "project", "phash", "xattrs", "probes"}
  BY <1>2, <1>10 DEF ExtraOf
<1> QED
  BY <1>3, <1>4, <1>5, <1>6, <1>7, <1>8, <1>9, <1>10

LEMMA StepTypes ==
  ASSUME NEW s, NEW do, s \in StepsAsked(do), NEW typed
  PROVE  TypedOf(s, typed) \subseteq AskedProbes(do) \cup (IF "xattrs" \in do THEN {"is_quarantined"} ELSE {})
<1>1. s \in do \/ s = "probes"
  BY DEF StepsAsked, Always
<1> QED
  BY <1>1 DEF TypedOf, AskedProbes

(* A stale value of what the step is about stays only when there is none.  *)
LEMMA StepUpdates ==
  ASSUME RecInv, NEW s, s \in DOMAIN Order, NEW names \in Outcomes(s), NEW n \in About(s), Fits(n)
  PROVE  n \in names \/ around = "none"
<1>1. CASE s = "verify"
  BY <1>1 DEF About, Outcomes, ExtraOf, Fits
<1>2. CASE s = "project"
  BY <1>2 DEF About, Outcomes, ExtraOf, Fits, ProjectContext
<1>3. CASE s = "xattrs"
  BY <1>3 DEF About, Outcomes, ExtraOf, Fits
<1>4. CASE s = "probes"
  BY <1>4 DEF About, Outcomes, ExtraOf, Fits
<1> QED
  BY <1>1, <1>2, <1>3, <1>4 DEF About

LEMMA OrderOfStores ==
  ASSUME NEW s \in DOMAIN Order, NEW t \in DOMAIN Order, Order[s] <= Order[t], Stores(t)
  PROVE  s \notin {"xattrs", "git", "probes"}
<1>1. Order[t] <= 10
  BY DEF Order, Stores
<1>2. Order["xattrs"] = 11 /\ Order["git"] = 12 /\ Order["probes"] = 13
  BY DEF Order
<1>3. Order[s] \in Nat /\ Order[t] \in Nat
  BY DEF Order
<1> QED
  BY <1>1, <1>2, <1>3

LEMMA EnrichKeeps ==
  ASSUME RecInv, NEW b \in Builds, EnrichNext(b)
  PROVE  RecInv'
<1> DEFINE s == NextStep(build[b].todo)
           do == build[b].ask.do
           m == build[b].map
           k == build[b].keeps
           r == [build[b] EXCEPT !.todo = build[b].todo \ {s},
                                 !.typed = Laid(AllNow(TypedOf(s, build[b].typed)), @)]
<1>1. /\ BuildIs(b, r) /\ build[b].state = "enriching" /\ build[b].todo # {} /\ UNCHANGED worldVars
  BY DEF EnrichNext
<1>2. PICK names \in Outcomes(s) :
        \/ heap' = Written(b, names) /\ UNCHANGED stored
        \/ MayStore(b, s) /\ PutEntry(build[b].at, build[b].keeps, Written(b, names))
  BY DEF EnrichNext
<1>3. /\ DOMAIN r = BuildFields /\ r.state = "enriching" /\ r.at = build[b].at /\ r.since = build[b].since
      /\ r.hit = build[b].hit /\ r.map = m /\ r.ask = build[b].ask /\ r.keeps = k
      /\ r.keyed = build[b].keyed
      /\ r.typed = Laid(AllNow(TypedOf(s, build[b].typed)), build[b].typed) /\ r.todo = build[b].todo \ {s}
  BY <1>1 DEF RecInv, World, BuildFields
<1> HIDE DEF r
<1>4. build'[b] = r /\ \A c \in Builds \ {b} : build'[c] = build[c]
  BY <1>1 DEF RecInv, World, BuildIs
<1>5. /\ backend' = backend /\ kind' = kind /\ link' = link /\ fileVer' = fileVer /\ around' = around
      /\ backend \in {"memory", "bbolt"} /\ (Extracted(kind) = Extracted(kind'))
      /\ \A t : Stores(t)' <=> Stores(t)
  BY <1>1 DEF worldVars, RecInv, World, Stores
<1>6. InPlace(b) /\ OwnFields(b) /\ Own(b) /\ Decoded(b) /\ Updated(b)
  BY <1>1 DEF RecInv, Working, Past
<1>7. build[b].at \in Nat /\ build[b].at <= fileVer /\ around \in build[b].since
  BY <1>1 DEF RecInv, Begun
<1>8. s \in build[b].todo /\ (\A t \in build[b].todo : Order[s] <= Order[t]) /\ s \in StepsAsked(do)
      /\ build[b].todo \subseteq DOMAIN Order
  <2>1. build[b].todo \subseteq StepsAsked(do)
    BY <1>6 DEF Updated
  <2>2. build[b].todo \subseteq DOMAIN Order
    BY <2>1 DEF StepsAsked
  <2> QED
    BY <1>1, <2>1, <2>2, NextStepIs
<1> HIDE DEF s
<1>h. /\ 0 \in 0 .. 2 * Clones /\ b \in 0 .. 2 * Clones /\ b # 0 /\ DOMAIN heap = 0 .. 2 * Clones
      /\ \A c \in Builds : Cloned(c) # b /\ Cloned(c) # 0 /\ Cloned(c) \in 0 .. 2 * Clones /\ c \in 0 .. 2 * Clones
      /\ \A c \in Builds : \A d \in Builds : Cloned(c) # d /\ (c # d => Cloned(c) # Cloned(d))
      /\ 0 \notin Builds
  BY BuildsAre DEF RecInv, HeapOK
<1>l. Kept \subseteq 0 .. 2 * Clones /\ Kept \cap Builds = {} /\ Cloned(b) \in Kept
  BY <1>1, <1>h DEF Kept, Past
<1>j. StoredOK /\ HeapOK
  BY DEF RecInv
<1>p. \A c \in Builds : Past(c) => Past(c)'
  BY <1>1, <1>3, <1>4 DEF Past
<1>q. Kept \subseteq Kept'
  BY <1>p DEF Kept, Cloned
(* Where the map and the kept map are.                                     *)
<1>m. /\ m = b \/ (backend = "memory" /\ m \in Kept)
      /\ m \in 0 .. 2 * Clones
      /\ build[b].keyed =>
           \/ k = m /\ (backend = "memory" => k \in Kept) /\ build[b].hit
           \/ k = Cloned(b) /\ m = b /\ build[b].hit = FALSE
      /\ build[b].keyed \in BOOLEAN /\ build[b].hit \in BOOLEAN
  BY <1>h, <1>l, <1>6 DEF InPlace
<1> DEFINE W == Written(b, names)
<1>w. /\ DOMAIN W = 0 .. 2 * Clones /\ \A i \in 0 .. 2 * Clones : i # m => W[i] = heap[i]
      /\ W[m] = Laid(AllNow(names), heap[m])
  BY <1>h, <1>m DEF Written
<1>x. /\ DOMAIN W[m] = names \cup DOMAIN heap[m]
      /\ \A n \in names : W[m][n] = Now
      /\ \A n \in DOMAIN heap[m] : n \notin names => W[m][n] = heap[m][n]
  BY <1>w DEF Laid, AllNow
<1>y. \/ heap' = W /\ stored' = stored
      \/ /\ build[b].keyed /\ backend = "memory" /\ heap' = W
         /\ stored' = [ver |-> build[b].at, map |-> k]
      \/ /\ build[b].keyed /\ Stores(s) /\ backend = "bbolt" /\ heap' = [W EXCEPT ![0] = W[k]]
         /\ stored' = [ver |-> build[b].at, map |-> 0]
  BY <1>2, <1>5 DEF MayStore, PutEntry
<1> HIDE DEF W
<1>z. /\ DOMAIN heap' = 0 .. 2 * Clones /\ heap'[m] = W[m]
      /\ \A i \in 0 .. 2 * Clones : i # m /\ i # 0 => heap'[i] = heap[i]
      /\ backend = "memory" => heap' = W
  <2>1. CASE heap' = W
    BY <1>w, <2>1
  <2>2. CASE backend = "bbolt" /\ heap' = [W EXCEPT ![0] = W[k]]
    <3>1. m = b /\ m # 0
      BY <1>h, <1>m, <2>2
    <3> QED
      BY <1>h, <1>m, <1>w, <2>2, <3>1
  <2> QED
    BY <1>y, <2>1, <2>2
<1>g. \A i \in 0 .. 2 * Clones : (i # 0 \/ backend = "memory") => Grows(i)
  <2>1. Grows(m)
    BY <1>x, <1>z DEF Grows
  <2> QED
    BY <1>w, <1>z, <2>1 DEF Grows
<1>f. \A n \in names : Fits(n)
  BY <1>8, StepWrites
<1>v. \A i \in 0 .. 2 * Clones : \A n \in DOMAIN W[i] : W[i][n] \in Stamps /\ Fits(n)
  <2>1. ASSUME NEW i \in 0 .. 2 * Clones, i # m, NEW n \in DOMAIN W[i] PROVE W[i][n] \in Stamps /\ Fits(n)
    BY <1>j, <1>w, <2>1 DEF HeapOK
  <2>2. ASSUME NEW n \in DOMAIN W[m] PROVE W[m][n] \in Stamps /\ Fits(n)
    BY <1>f, <1>j, <1>m, <1>x, <2>2, NowFits DEF HeapOK
  <2> QED
    BY <2>1, <2>2
<1>9. HeapOK'
  <2>1. \A n : Fits(n)' <=> Fits(n)
    BY <1>5 DEF Fits
  <2>2. \A i \in 0 .. 2 * Clones : \A n \in DOMAIN heap'[i] : heap'[i][n] \in Stamps /\ Fits(n)
    <3>1. CASE heap' = W
      BY <1>v, <3>1
    <3>2. CASE build[b].keyed /\ heap' = [W EXCEPT ![0] = W[k]]
      <4>1. k \in 0 .. 2 * Clones
        BY <1>h, <1>m, <3>2
      <4>2. \A i \in 0 .. 2 * Clones : heap'[i] = W[i] \/ heap'[i] = W[k]
        BY <1>w, <3>2
      <4> QED
        BY <1>v, <4>1, <4>2
    <3> QED
      BY <1>y, <3>1, <3>2
  <2> QED
    BY <1>z, <2>1, <2>2 DEF HeapOK
<1>e. build[b].keyed => \A n \in DOMAIN W[k] : W[k][n].ver >= build[b].at
  <2>1. build[b].keyed => Fresh(k, build[b].at) /\ k \in 0 .. 2 * Clones
    BY <1>h, <1>m, <1>6 DEF InPlace
  <2>2. CASE k = m
    BY <1>7, <1>x, <2>1, <2>2, NowFits DEF Fresh
  <2>3. CASE k # m
    BY <1>w, <2>1, <2>3 DEF Fresh
  <2> QED
    BY <2>2, <2>3
<1>10. StoredOK'
  <2>1. CASE heap' = W /\ stored' = stored
    <3>1. stored # NoStored => Fresh(stored.map, stored.ver)'
      <4>1. CASE backend = "memory"
        <5>1. ASSUME stored # NoStored PROVE Fresh(stored.map, stored.ver)'
          <6>1. stored.map \in Kept /\ stored.ver \in Nat /\ Fresh(stored.map, stored.ver)
            BY <1>j, <4>1, <5>1 DEF StoredOK
          <6>2. Grows(stored.map)
            BY <1>g, <1>l, <4>1, <6>1
          <6>3. stored.ver <= fileVer
            BY <1>j, <5>1 DEF StoredOK
          <6> QED
            BY <2>1, <6>1, <6>2, <6>3, FreshGrows DEF Fresh
        <5> QED
          BY <5>1
      <4>2. CASE backend = "bbolt"
        <5>1. heap'[0] = heap[0]
          BY <1>h, <1>m, <1>w, <2>1, <4>2
        <5> QED
          BY <1>j, <2>1, <4>2, <5>1 DEF StoredOK, Fresh
      <4> QED
        BY <1>5, <4>1, <4>2
    <3>2. (backend = "bbolt" => Of(0, Extracted(kind) \cup LeftBehind))'
      BY <1>5, <1>h, <1>j, <1>m, <1>w, <2>1 DEF StoredOK, Of
    <3> QED
      BY <1>5, <1>j, <1>q, <2>1, <3>1, <3>2 DEF StoredOK
  <2>2. CASE /\ build[b].keyed /\ backend = "memory" /\ heap' = W
             /\ stored' = [ver |-> build[b].at, map |-> k]
    <3>1. k \in Kept /\ k \in Nat
      BY <1>h, <1>l, <1>m, <2>2
    <3>2. stored'.map = k /\ stored'.ver = build[b].at /\ stored' \in [ver : Nat, map : Nat]
      BY <1>7, <2>2, <3>1
    <3>3. Fresh(stored.map, stored.ver)'
      BY <1>e, <2>2, <3>2 DEF Fresh
    <3> QED
      BY <1>5, <1>7, <1>q, <2>2, <3>1, <3>2, <3>3 DEF StoredOK
  <2>3. CASE /\ build[b].keyed /\ Stores(s) /\ backend = "bbolt" /\ heap' = [W EXCEPT ![0] = W[k]]
             /\ stored' = [ver |-> build[b].at, map |-> 0]
    <3>1. stored'.map = 0 /\ stored'.ver = build[b].at /\ stored' \in [ver : Nat, map : Nat]
      BY <1>7, <2>3
    <3>2. heap'[0] = W[k]
      BY <1>h, <1>w, <2>3
    <3>3. Fresh(stored.map, stored.ver)'
      BY <1>e, <2>3, <3>1, <3>2 DEF Fresh
    <3>4. DOMAIN W[k] \subseteq Extracted(kind) \cup LeftBehind
      <4>1. CASE k = m /\ build[b].hit
        <5>1. names \subseteq LeftBehind
          BY <1>8, <2>3, StepWrites
        <5>2. Of(b, Extracted(kind) \cup LeftBehind) /\ m = b
          BY <1>6, <1>8, <1>m, <2>3, <4>1 DEF Decoded
        <5> QED
          BY <1>x, <4>1, <5>1, <5>2 DEF Of
      <4>2. CASE k = Cloned(b) /\ m = b /\ build[b].hit = FALSE
        <5>1. Of(Cloned(b), Extracted(kind))
          BY <1>6, <2>3, <4>2 DEF Own
        <5>2. W[k] = heap[k]
          BY <1>h, <1>w, <4>2
        <5> QED
          BY <4>2, <5>1, <5>2 DEF Of
      <4> QED
        BY <1>m, <2>3, <4>1, <4>2
    <3>5. Of(0, Extracted(kind) \cup LeftBehind)'
      BY <1>5, <3>2, <3>4 DEF Of
    <3> QED
      BY <1>5, <1>7, <2>3, <3>1, <3>3, <3>5 DEF StoredOK
  <2> QED
    BY <1>y, <2>1, <2>2, <2>3
<1>11. Begun(b)'
  BY <1>1, <1>3, <1>4, <1>5, <1>7 DEF Begun, Past
<1>12. RecHonest(b)'
  BY <1>3, <1>4 DEF RecHonest, HasSeen
<1>13. Working(b)'
  <2>1. InPlace(b)'
    <3>1. \A n \in DOMAIN heap'[m] : heap'[m][n].ver >= build[b].at
      <4>1. Fresh(m, build[b].at)
        BY <1>6 DEF InPlace
      <4> QED
        BY <1>7, <1>x, <1>z, <4>1, NowFits DEF Fresh
    <3>2. build[b].keyed => heap'[k] = W[k]
      <4>1. CASE backend = "memory"
        BY <1>z, <4>1
      <4>2. CASE backend = "bbolt"
        <5>1. build[b].keyed => k \in 0 .. 2 * Clones /\ k # 0
          BY <1>h, <1>m, <4>2
        <5> QED
          BY <1>w, <1>z, <5>1
      <4> QED
        BY <1>5, <4>1, <4>2
    <3>3. Fresh(build[b].map, build[b].at)' /\ (build'[b].keyed => Fresh(build[b].keeps, build[b].at)')
      BY <1>3, <1>4, <1>e, <3>1, <3>2 DEF Fresh
    <3> QED
      BY <1>3, <1>4, <1>5, <1>6, <1>q, <3>3 DEF InPlace, Cloned
  <2>2. OwnFields(b)'
    <3> DEFINE T == TypedOf(s, build[b].typed)
    <3>1. T \subseteq AskedProbes(do) \cup (IF "xattrs" \in do THEN {"is_quarantined"} ELSE {})
      BY <1>8, StepTypes
    <3> HIDE DEF T
    <3>2. /\ DOMAIN r.typed = T \cup DOMAIN build[b].typed
          /\ \A n \in DOMAIN r.typed : r.typed[n] = Now \/ (n \in DOMAIN build[b].typed /\ r.typed[n] = build[b].typed[n])
      BY <1>3 DEF T, Laid, AllNow
    <3>3. ASSUME NEW n \in DOMAIN r.typed
          PROVE  r.typed[n] \in Stamps /\ r.typed[n].ver >= build[b].at /\ r.typed[n].around \in build[b].since
      BY <1>6, <1>7, <3>2, <3>3, NowFits DEF OwnFields
    <3>4. DOMAIN r.typed \subseteq
            IdentityNames \cup (FlagNames \ {"is_quarantined"}) \cup AskedProbes(do)
            \cup (IF "xattrs" \in do THEN {"is_quarantined"} ELSE {})
      BY <1>6, <3>1, <3>2 DEF OwnFields
    <3> QED
      BY <1>3, <1>4, <3>3, <3>4 DEF OwnFields
  <2>3. Own(b)'
    <3>1. ASSUME ~build[b].hit
          PROVE  /\ \A n \in DOMAIN heap'[b] : heap'[b][n].around \in build[b].since
                 /\ DOMAIN heap'[b] \subseteq Extracted(kind) \cup AskedKeys(do)
                 /\ build[b].keyed /\ backend = "bbolt" => DOMAIN heap'[Cloned(b)] \subseteq Extracted(kind)
      <4>1. m = b
        BY <1>6, <3>1 DEF InPlace
      <4>2. names \subseteq AskedKeys(do)
        BY <1>8, StepWrites
      <4>3. \A n \in DOMAIN heap'[b] : heap'[b][n].around \in build[b].since
        BY <1>6, <1>7, <1>x, <1>z, <3>1, <4>1, NowFits DEF Own
      <4>4. DOMAIN heap'[b] \subseteq Extracted(kind) \cup AskedKeys(do)
        BY <1>6, <1>x, <1>z, <3>1, <4>1, <4>2 DEF Own, Of
      <4>5. heap'[Cloned(b)] = heap[Cloned(b)]
        BY <1>h, <1>z, <4>1
      <4> QED
        BY <1>6, <3>1, <4>3, <4>4, <4>5 DEF Own, Of
    <3> QED
      BY <1>3, <1>4, <1>5, <3>1 DEF Own, Of, Cloned
  <2>4. Decoded(b)'
    <3>1. ASSUME build[b].hit, backend = "bbolt"
          PROVE  /\ DOMAIN heap'[b] \subseteq Extracted(kind) \cup AskedKeys(do) \cup LeftBehind
                 /\ (\E t \in r.todo : Stores(t)) => DOMAIN heap'[b] \subseteq Extracted(kind) \cup LeftBehind
      <4>1. m = b
        BY <1>6, <3>1 DEF InPlace
      <4>2. names \subseteq AskedKeys(do)
        BY <1>8, StepWrites
      <4>3. DOMAIN heap'[b] \subseteq Extracted(kind) \cup AskedKeys(do) \cup LeftBehind
        BY <1>6, <1>x, <1>z, <3>1, <4>1, <4>2 DEF Decoded, Of
      <4>4. ASSUME NEW t \in r.todo, Stores(t) PROVE DOMAIN heap'[b] \subseteq Extracted(kind) \cup LeftBehind
        <5>1. t \in build[b].todo /\ Order[s] <= Order[t] /\ s \in DOMAIN Order /\ t \in DOMAIN Order
          BY <1>3, <1>8, <4>4
        <5>2. s \notin {"xattrs", "git", "probes"}
          BY <4>4, <5>1, OrderOfStores
        <5>3. names \subseteq LeftBehind
          BY <1>8, <5>2, StepWrites
        <5>4. Of(b, Extracted(kind) \cup LeftBehind)
          BY <1>6, <3>1, <4>4, <5>1 DEF Decoded
        <5> QED
          BY <1>x, <1>z, <4>1, <5>3, <5>4 DEF Of
      <4> QED
        BY <4>3, <4>4
    <3> QED
      BY <1>3, <1>4, <1>5, <3>1 DEF Decoded, Of
  <2>5. Updated(b)'
    <3>1. r.todo \subseteq StepsAsked(do)
      BY <1>3, <1>6 DEF Updated
    <3>2. ASSUME build[b].hit, NEW u \in StepsAsked(do) \ r.todo, NEW n \in About(u), n \in DOMAIN heap'[m]
          PROVE  InTime(b, heap'[m][n])
      <4>1. CASE n \in names
        BY <1>7, <1>x, <1>z, <4>1, NowFits DEF InTime
      <4>2. CASE n \notin names
        <5>1. n \in DOMAIN heap[m] /\ heap'[m][n] = heap[m][n]
          BY <1>x, <1>z, <3>2, <4>2
        <5>2. CASE u = s
          <6>1. Fits(n)
            BY <1>j, <1>m, <5>1 DEF HeapOK
          <6>2. around = "none"
            BY <1>8, <3>2, <4>2, <5>2, <6>1, StepUpdates
          <6> QED
            BY <1>7, <6>2 DEF InTime
        <5>3. CASE u # s
          <6>1. u \in StepsAsked(do) \ build[b].todo
            BY <1>3, <3>2, <5>3
          <6> QED
            BY <1>6, <3>2, <5>1, <6>1 DEF Updated
        <5> QED
          BY <5>2, <5>3
      <4> QED
        BY <4>1, <4>2
    <3>3. ASSUME build[b].hit PROVE \A u \in StepsAsked(do) \ r.todo : \A n \in About(u) :
             n \in DOMAIN heap'[m] => heap'[m][n].around \in build[b].since \/ "none" \in build[b].since
      BY <3>2, <3>3 DEF InTime
    <3> QED
      BY <1>3, <1>4, <3>1, <3>3 DEF Updated, InTime
  <2>6. Sees(b)'
    BY <1>3, <1>4 DEF Sees
  <2> QED
    BY <2>1, <2>2, <2>3, <2>4, <2>5, <2>6 DEF Working
<1>14. backend = "memory" => \A i \in Kept : Grows(i)
  BY <1>g, <1>l
<1>15. \A c \in Builds \ {b} : heap'[c] = heap[c]
  BY <1>h, <1>l, <1>m, <1>z
<1>16. backend = "bbolt" => \A c \in Builds : heap'[Cloned(c)] = heap[Cloned(c)]
  BY <1>h, <1>m, <1>z
<1> QED
  BY <1>1, <1>3, <1>p, <1>9, <1>10, <1>11, <1>12, <1>13, <1>14, <1>15, <1>16, StepKeeps

(* What changes neither the builds nor the maps leaves all of it.          *)
LEMMA SameWorld ==
  ASSUME RecInv, UNCHANGED <<worldVars, heap, stored, build>>
  PROVE  RecInv'
<1>1. \A i : Grows(i)
  BY DEF Grows
<1>2. \A c \in Builds : Past(c) => Past(c)'
  BY DEF Past
<1>3. ASSUME NEW b \in Builds PROVE Begun(b)' /\ Working(b)' /\ RecHonest(b)'
  BY <1>1, <1>2, Steady
<1>4. World' /\ HeapOK'
  BY DEF RecInv, World, HeapOK, Fits, worldVars
<1>5. StoredOK'
  BY DEF RecInv, StoredOK, Kept, Past, Cloned, Fresh, Of, Extracted, Parsed, Beside, worldVars
<1> QED
  BY <1>3, <1>4, <1>5 DEF RecInv

LEMMA KeysOfPlaces ==
  /\ \A do : AskedProbes(do) \subseteq ProbedNames
  /\ "is_quarantined" \notin ProbedNames \cup IdentityNames
  /\ Declared \ TypedNames \subseteq DocumentKeys \cup FormatKeys \cup OptInKeys
  /\ {"c2pa_valid", "project_type", "is_static_site", "xattr_keys", "target_path"} \cap TypedNames = {}
<1>1. \A do : AskedProbes(do) \subseteq ProbedNames
  BY DEF AskedProbes, ProbedNames
<1>2. "is_quarantined" \notin ProbedNames \cup IdentityNames
  BY DEF ProbedNames, IdentityNames
<1>3. Declared \ TypedNames \subseteq DocumentKeys \cup FormatKeys \cup OptInKeys
  BY DEF Declared
<1>4. {"c2pa_valid", "project_type", "is_static_site", "xattr_keys", "target_path"} \cap TypedNames = {}
  BY DEF TypedNames, ProbedNames, FlagNames, IdentityNames
<1> QED
  BY <1>1, <1>2, <1>3, <1>4

LEMMA EvaluateKeeps ==
  ASSUME RecInv, NEW b \in Builds, Evaluate(b)
  PROVE  RecInv'
<1> DEFINE typed == build[b].typed
           extra == heap[build[b].map]
           do == build[b].ask.do
           value(n) == ResolveName(typed, extra, n)
           saw == [n \in {n \in Declared : value(n) # Zero} |-> value(n)]
           r == [build[b] EXCEPT !.state = "seen", !.saw = saw]
<1>1. /\ BuildIs(b, r) /\ build[b].state = "enriching" /\ build[b].todo = {}
      /\ UNCHANGED <<worldVars, heap, stored, dead>>
  BY DEF Evaluate
<1>2. /\ DOMAIN r = BuildFields /\ r.state = "seen" /\ r.at = build[b].at /\ r.since = build[b].since
      /\ r.hit = build[b].hit /\ r.map = build[b].map /\ r.ask = build[b].ask /\ r.keeps = build[b].keeps
      /\ r.keyed = build[b].keyed /\ r.typed = typed /\ r.todo = build[b].todo /\ r.saw = saw
  BY DEF RecInv, World, BuildFields
<1> HIDE DEF r
<1>3. build'[b] = r
  BY <1>1 DEF RecInv, World, BuildIs
<1>4. /\ backend' = backend /\ kind' = kind /\ link' = link /\ fileVer' = fileVer /\ around' = around
      /\ backend \in {"memory", "bbolt"} /\ (Extracted(kind) = Extracted(kind')) /\ heap' = heap /\ stored' = stored
  BY <1>1 DEF worldVars, RecInv, World
<1>5. InPlace(b) /\ OwnFields(b) /\ Own(b) /\ Decoded(b) /\ Updated(b)
  BY <1>1 DEF RecInv, Working, Past
<1>6. build[b].at \in Nat /\ build[b].at <= fileVer /\ around \in build[b].since
  BY <1>1 DEF RecInv, Begun
<1>7. (\A c \in Builds : Past(c) => Past(c)') /\ Past(b)' /\ Past(b)
  BY <1>1, <1>2, <1>3 DEF Past, RecInv, World, BuildIs
<1>8. Kept \subseteq Kept'
  BY <1>7 DEF Kept, Cloned
<1>9. build[b].map \in 0 .. 2 * Clones
  <2>1. 0 \in 0 .. 2 * Clones /\ \A c \in Builds : Cloned(c) \in 0 .. 2 * Clones /\ c \in 0 .. 2 * Clones
    BY BuildsAre
  <2>2. Kept \subseteq 0 .. 2 * Clones
    BY <2>1 DEF Kept
  <2> QED
    BY <1>5, <2>1, <2>2 DEF InPlace
<1>10. \A n \in DOMAIN extra : extra[n] \in Stamps
  BY <1>9 DEF RecInv, HeapOK
<1>11. \A n \in DOMAIN typed : typed[n] \in Stamps
  BY <1>5 DEF OwnFields
<1>12. Zero \notin Stamps
  BY DEF Zero, Stamps
(* What is seen.                                                           *)
<1>13. \A n \in DOMAIN saw :
         /\ n \in Declared
         /\ n \in TypedNames => n \in DOMAIN typed /\ saw[n] = typed[n]
         /\ n \notin TypedNames => n \in DOMAIN extra /\ saw[n] = extra[n]
  BY DEF ResolveName
<1>14. \A n \in DOMAIN typed : n \in TypedNames => n \in DOMAIN saw
  BY <1>11, <1>12, NamesApart DEF ResolveName
<1>15. \A n \in DOMAIN extra \cap (Declared \ TypedNames) : n \in DOMAIN saw /\ saw[n] = extra[n]
  BY <1>10, <1>12 DEF ResolveName
<1> HIDE DEF saw, value
<1>16. Private(b) => build[b].map = b
  BY <1>4, <1>5 DEF Private, InPlace
<1>17. Working(b)'
  <2>1. InPlace(b)'
    BY <1>2, <1>3, <1>4, <1>5, <1>8 DEF InPlace, Cloned, Fresh
  <2>2. OwnFields(b)'
    BY <1>2, <1>3, <1>5 DEF OwnFields
  <2>3. Own(b)'
    BY <1>2, <1>3, <1>4, <1>5 DEF Own, Of, Cloned
  <2>4. Decoded(b)'
    BY <1>1, <1>2, <1>3, <1>4, <1>5 DEF Decoded, Of
  <2>5. Updated(b)'
    BY <1>2, <1>3, <1>4, <1>5 DEF Updated, InTime
  <2>6. Sees(b)'
    BY <1>2, <1>3, <1>4, <1>13, <1>14, <1>15, <1>16 DEF Sees, Private
  <2> QED
    BY <2>1, <2>2, <2>3, <2>4, <2>5, <2>6 DEF Working
<1>18. \A n \in DOMAIN saw : saw[n].ver >= build[b].at
  BY <1>5, <1>13 DEF OwnFields, InPlace, Fresh
<1>19. DOMAIN saw \cap ProbedNames \subseteq AskedProbes(do)
  BY <1>5, <1>13, NamesApart DEF OwnFields, TypedNames
<1>20. "is_quarantined" \in DOMAIN saw => "xattrs" \in do
  BY <1>5, <1>13, NamesApart, KeysOfPlaces DEF OwnFields, TypedNames
<1>21. DOMAIN saw \ TypedNames \subseteq Extracted(kind) \cup AskedKeys(do) \cup Unsaid(b)
  <2>1. CASE ~build[b].hit
    BY <1>5, <1>13, <2>1 DEF Own, Of, InPlace
  <2>2. CASE build[b].hit /\ backend = "memory"
    BY <1>13, <2>2, KeysOfPlaces DEF Unsaid
  <2>3. CASE build[b].hit /\ backend = "bbolt"
    BY <1>5, <1>13, <2>3 DEF Decoded, Of, InPlace, Unsaid
  <2> QED
    BY <1>4, <2>1, <2>2, <2>3
<1>22. ASSUME NEW n \in DOMAIN saw \cap (AskedKeys(do) \ FromContent)
       PROVE  \/ saw[n].around \in build[b].since
              \/ build[b].hit /\ ("none" \in build[b].since \/ n = "is_static_site")
  <2>1. CASE n \in TypedNames
    BY <1>5, <1>13, <1>22, <2>1 DEF OwnFields
  <2>2. CASE n \notin TypedNames /\ ~build[b].hit
    BY <1>5, <1>13, <1>22, <2>2 DEF Own, InPlace
  <2>3. CASE n \notin TypedNames /\ build[b].hit
    <3>1. n \in DOMAIN extra /\ saw[n] = extra[n]
      BY <1>13, <1>22, <2>3
    <3>2. \A s \in StepsAsked(do) : n \in About(s) => InTime(b, extra[n])
      BY <1>1, <1>5, <2>3, <3>1 DEF Updated
    <3>3. \/ n = "is_static_site" \/ n = "is_quarantined"
          \/ \E s \in StepsAsked(do) : n \in About(s)
      <4>1. CASE n = "target_path"
        BY <4>1 DEF StepsAsked, Always, Order, About
      <4>2. CASE n = "c2pa_valid" /\ "verify" \in do
        BY <4>2 DEF StepsAsked, Order, About
      <4>3. CASE n = "project_type" /\ "project" \in do
        BY <4>3 DEF StepsAsked, Order, About
      <4>4. CASE n = "xattr_keys" /\ "xattrs" \in do
        BY <4>4 DEF StepsAsked, Order, About
      <4> QED
        BY <1>22, <4>1, <4>2, <4>3, <4>4 DEF AskedKeys, FromContent
    <3>4. n # "is_quarantined"
      BY <2>3, NamesApart DEF TypedNames
    <3> QED
      BY <2>3, <3>1, <3>2, <3>3, <3>4 DEF InTime
  <2> QED
    BY <1>5, <2>1, <2>2, <2>3 DEF InPlace
<1>23. RecHonest(b)'
  <2>1. OfThisVersion(b)'
    BY <1>2, <1>3, <1>18 DEF OfThisVersion
  <2>2. Unsaid(b)' = Unsaid(b)
    BY <1>2, <1>3, <1>4 DEF Unsaid
  <2>3. OnlyAsked(b)'
    BY <1>2, <1>3, <1>4, <1>19, <1>20, <1>21, <2>2 DEF OnlyAsked
  <2>4. RowAgrees(b)'
    BY <1>2, <1>3 DEF RowAgrees
  <2>5. AskedFresh(b)'
    BY <1>2, <1>3, <1>22 DEF AskedFresh
  <2> QED
    BY <2>1, <2>3, <2>4, <2>5 DEF RecHonest
<1>24. HeapOK'
  BY <1>4 DEF RecInv, HeapOK, Fits
<1>25. StoredOK'
  BY <1>4, <1>8 DEF RecInv, StoredOK, Fresh, Of
<1>26. Begun(b)'
  BY <1>2, <1>3, <1>4, <1>6, <1>7 DEF Begun
<1>27. \A i : Grows(i)
  BY <1>4 DEF Grows
<1> QED
  BY <1>1, <1>2, <1>4, <1>7, <1>17, <1>23, <1>24, <1>25, <1>26, <1>27, StepKeeps

LEMMA ShowKeeps ==
  ASSUME RecInv, NEW b \in Builds, ShowRow(b)
  PROVE  RecInv'
<1> DEFINE typed == build[b].typed
           extra == heap[build[b].map]
           fields == build[b].ask.fields
           saw == build[b].saw
           row == ProjectMatch(MatchFrom(typed, extra), fields)
           r == [build[b] EXCEPT !.state = "shown", !.row = row]
<1>1. /\ BuildIs(b, r) /\ build[b].state = "seen"
      /\ UNCHANGED <<worldVars, heap, stored, dead>>
  BY DEF ShowRow
<1>2. /\ DOMAIN r = BuildFields /\ r.state = "shown" /\ r.at = build[b].at /\ r.since = build[b].since
      /\ r.hit = build[b].hit /\ r.map = build[b].map /\ r.ask = build[b].ask /\ r.keeps = build[b].keeps
      /\ r.keyed = build[b].keyed /\ r.typed = typed /\ r.todo = build[b].todo /\ r.saw = saw /\ r.row = row
  BY DEF RecInv, World, BuildFields
<1> HIDE DEF r
<1>3. build'[b] = r
  BY <1>1 DEF RecInv, World, BuildIs
<1>4. /\ backend' = backend /\ kind' = kind /\ link' = link /\ fileVer' = fileVer /\ around' = around
      /\ backend \in {"memory", "bbolt"} /\ (Extracted(kind) = Extracted(kind')) /\ heap' = heap /\ stored' = stored
      /\ \A t : Stores(t)' <=> Stores(t)
  BY <1>1 DEF worldVars, RecInv, World, Stores
<1>5. InPlace(b) /\ OwnFields(b) /\ Own(b) /\ Decoded(b) /\ Updated(b) /\ Sees(b)
  BY <1>1 DEF RecInv, Working, Past
<1>6. build[b].at \in Nat /\ build[b].at <= fileVer /\ around \in build[b].since
  BY <1>1 DEF RecInv, Begun
<1>7. (\A c \in Builds : Past(c) => Past(c)') /\ Past(b)' /\ Past(b)
  BY <1>1, <1>2, <1>3 DEF Past, RecInv, World, BuildIs
<1>8. Kept \subseteq Kept'
  BY <1>7 DEF Kept, Cloned
<1>9. RecHonest(b) /\ HasSeen(b)
  BY <1>1 DEF RecInv, HasSeen
<1>10. Private(b) => build[b].map = b
  BY <1>4, <1>5 DEF Private, InPlace
<1>11. Working(b)'
  <2>1. InPlace(b)'
    BY <1>2, <1>3, <1>4, <1>5, <1>8 DEF InPlace, Cloned, Fresh
  <2>2. OwnFields(b)'
    BY <1>2, <1>3, <1>5 DEF OwnFields
  <2>3. Own(b)'
    BY <1>2, <1>3, <1>4, <1>5 DEF Own, Of, Cloned
  <2>4. Decoded(b)'
    BY <1>2, <1>3, <1>4, <1>5 DEF Decoded, Of
  <2>5. Updated(b)'
    BY <1>2, <1>3, <1>4, <1>5 DEF Updated, InTime
  <2>6. Sees(b)'
    BY <1>2, <1>3 DEF Sees
  <2> QED
    BY <2>1, <2>2, <2>3, <2>4, <2>5, <2>6 DEF Working
<1> DEFINE InFields == IdentityNames \cup FlagFields \cup ProbedFields
           wanted == IF fields = {} THEN RowNames ELSE fields \cup AlwaysOn
           shown == DOMAIN saw \cap RowNames \cap wanted
           M == MatchFrom(typed, extra)
<1>12. /\ InFields \subseteq TypedNames /\ RowNames = InFields \cup FamilyAttrs
       /\ FamilyAttrs \cap TypedNames = {} /\ FamilyAttrs \subseteq Declared
  BY NamesApart DEF FlagFields, ProbedFields, TypedNames, RowNames
<1>13. /\ DOMAIN M = (DOMAIN typed \cap InFields) \cup (DOMAIN extra \cap FamilyAttrs)
       /\ \A n \in DOMAIN M : M[n] = IF n \in TypedNames THEN typed[n] ELSE extra[n]
  BY DEF MatchFrom
<1>14. /\ DOMAIN row = IF fields = {} THEN DOMAIN M ELSE DOMAIN M \cap (fields \cup AlwaysOn)
       /\ \A n \in DOMAIN row : row[n] = M[n]
       /\ row = [n \in DOMAIN row |-> row[n]]
  BY DEF ProjectMatch, MatchFrom
<1> HIDE DEF InFields, M, row
<1>15. shown \subseteq DOMAIN row
  <2>1. ASSUME NEW n \in shown PROVE n \in DOMAIN M
    <3>1. CASE n \in TypedNames
      BY <1>1, <1>5, <1>12, <1>13, <2>1, <3>1 DEF Sees
    <3>2. CASE n \notin TypedNames
      BY <1>1, <1>5, <1>12, <1>13, <2>1, <3>2 DEF Sees
    <3> QED
      BY <3>1, <3>2
  <2> QED
    BY <1>14, <2>1
<1>16. ASSUME Private(b) PROVE row = [n \in shown |-> saw[n]]
  <2>1. ASSUME NEW n \in DOMAIN M PROVE n \in RowNames /\ n \in DOMAIN saw /\ saw[n] = M[n]
    <3>1. CASE n \in TypedNames
      <4>1. n \in DOMAIN typed
        BY <1>12, <1>13, <2>1, <3>1
      <4> QED
        BY <1>1, <1>5, <1>12, <1>13, <2>1, <3>1, <4>1 DEF Sees
    <3>2. CASE n \notin TypedNames
      <4>1. n \in DOMAIN extra /\ n \in FamilyAttrs
        BY <1>12, <1>13, <2>1, <3>2
      <4> QED
        BY <1>1, <1>5, <1>10, <1>12, <1>13, <1>16, <2>1, <3>2, <4>1 DEF Sees
    <3> QED
      BY <3>1, <3>2
  <2>2. DOMAIN row \subseteq DOMAIN M /\ DOMAIN row \subseteq wanted
    BY <1>14, <2>1
  <2>3. DOMAIN row = shown
    BY <1>15, <2>1, <2>2
  <2>4. \A n \in shown : row[n] = saw[n]
    BY <1>14, <2>1, <2>2, <2>3
  <2> QED
    BY <1>14, <2>3, <2>4
<1>17. RecHonest(b)'
  <2>1. OfThisVersion(b)' /\ AskedFresh(b)'
    BY <1>2, <1>3, <1>9 DEF OfThisVersion, AskedFresh, RecHonest
  <2>2. Unsaid(b)' = Unsaid(b) /\ (Private(b)' <=> Private(b))
    BY <1>2, <1>3, <1>4 DEF Unsaid, Private
  <2>3. OnlyAsked(b)'
    BY <1>2, <1>3, <1>4, <1>9, <2>2 DEF OnlyAsked, RecHonest
  <2>4. RowAgrees(b)'
    BY <1>2, <1>3, <1>15, <1>16, <2>2 DEF RowAgrees
  <2> QED
    BY <2>1, <2>3, <2>4 DEF RecHonest
<1>24. HeapOK'
  BY <1>4 DEF RecInv, HeapOK, Fits
<1>25. StoredOK'
  BY <1>4, <1>8 DEF RecInv, StoredOK, Fresh, Of
<1>26. Begun(b)'
  BY <1>2, <1>3, <1>4, <1>6, <1>7 DEF Begun
<1>27. \A i : Grows(i)
  BY <1>4 DEF Grows
<1> QED
  BY <1>1, <1>2, <1>4, <1>7, <1>11, <1>17, <1>24, <1>25, <1>26, <1>27, StepKeeps

LEMMA VersionKeeps ==
  ASSUME RecInv, WriteFile
  PROVE  RecInv'
<1>1. /\ fileVer' = fileVer + 1 /\ fileVer \in Nat \ {0}
      /\ UNCHANGED <<backend, kind, link, around, heap, stored, build, dead>>
  BY DEF WriteFile, RecInv, World
<1>2. World' /\ HeapOK'
  BY <1>1 DEF RecInv, World, HeapOK, Fits
<1>3. Kept' = Kept /\ (\A c \in Builds : Past(c) <=> Past(c)') /\ Extracted(kind)' = Extracted(kind)
  BY <1>1 DEF Kept, Past, Cloned, Extracted, Parsed, Beside
<1>4. StoredOK'
  BY <1>1, <1>3 DEF RecInv, StoredOK, Fresh, Of
<1>5. ASSUME NEW b \in Builds PROVE Begun(b)'
  BY <1>1, <1>3 DEF RecInv, Begun, Of
<1>6. ASSUME NEW b \in Builds PROVE Working(b)'
  <2>1. (\A i, v : Fresh(i, v)' <=> Fresh(i, v)) /\ (\A i, t : Of(i, t)' <=> Of(i, t))
    BY <1>1 DEF Fresh, Of
  <2>2. InPlace(b) => InPlace(b)'
    BY <1>1, <1>3 DEF InPlace, Cloned, Fresh
  <2>3. OwnFields(b) => OwnFields(b)'
    BY <1>1 DEF OwnFields
  <2>4. (Own(b) => Own(b)') /\ (Decoded(b) => Decoded(b)')
    BY <1>1, <1>3 DEF Own, Decoded, Of, Cloned, Stores
  <2>5. (Updated(b) => Updated(b)') /\ (Sees(b) => Sees(b)')
    BY <1>1 DEF Updated, InTime, Sees, Private
  <2> QED
    BY <1>3, <2>2, <2>3, <2>4, <2>5 DEF RecInv, Working
<1>7. ASSUME NEW b \in Builds PROVE RecHonest(b)'
  BY <1>1, <1>3 DEF RecInv, RecHonest, HasSeen, OfThisVersion, OnlyAsked, RowAgrees, AskedFresh, Private, Unsaid
<1> QED
  BY <1>2, <1>4, <1>5, <1>6, <1>7 DEF RecInv

LEMMA TurnKeeps ==
  ASSUME RecInv, TurnAround
  PROVE  RecInv'
<1>1. /\ UNCHANGED <<backend, kind, link, fileVer, heap, stored, dead>>
      /\ around' \in Surroundings /\ build' = NoteTurn(around')
  BY DEF TurnAround, Surroundings
<1>2. DOMAIN build' = Builds
  BY <1>1 DEF NoteTurn
<1>3. ASSUME NEW b \in Builds
      PROVE  /\ DOMAIN build'[b] = BuildFields
             /\ \A f \in BuildFields \ {"since"} : build'[b][f] = build[b][f]
             /\ build'[b].since = IF build[b].state = "idle" THEN build[b].since ELSE build[b].since \cup {around'}
  BY <1>1 DEF NoteTurn, RecInv, World, BuildFields
<1>4. ASSUME NEW b \in Builds
      PROVE  /\ build'[b].state = build[b].state /\ build'[b].ask = build[b].ask /\ build'[b].at = build[b].at
             /\ build'[b].hit = build[b].hit /\ build'[b].keyed = build[b].keyed /\ build'[b].map = build[b].map
             /\ build'[b].keeps = build[b].keeps /\ build'[b].todo = build[b].todo /\ build'[b].typed = build[b].typed
             /\ build'[b].saw = build[b].saw /\ build'[b].row = build[b].row
             /\ build[b].since \subseteq build'[b].since
             /\ build[b].state # "idle" => around' \in build'[b].since
  BY <1>3 DEF BuildFields
<1>5. World' /\ HeapOK'
  BY <1>1, <1>2, <1>3 DEF RecInv, World, HeapOK, Fits
<1>6. Kept' = Kept /\ (\A c \in Builds : Past(c) <=> Past(c)') /\ Extracted(kind)' = Extracted(kind)
  <2>1. \A c \in Builds : Past(c) <=> Past(c)'
    BY <1>4 DEF Past
  <2> QED
    BY <1>1, <2>1 DEF Kept, Cloned, Extracted, Parsed, Beside
<1>7. StoredOK'
  BY <1>1, <1>6 DEF RecInv, StoredOK, Fresh, Of
<1>8. ASSUME NEW b \in Builds PROVE Begun(b)'
  BY <1>1, <1>4, <1>6 DEF RecInv, Begun, Of
<1>9. ASSUME NEW b \in Builds PROVE Working(b)'
  <2>1. InPlace(b) => InPlace(b)'
    BY <1>1, <1>4, <1>6 DEF InPlace, Cloned, Fresh
  <2>2. OwnFields(b) => OwnFields(b)'
    BY <1>4 DEF OwnFields
  <2>3. (Own(b) => Own(b)') /\ (Decoded(b) => Decoded(b)')
    BY <1>1, <1>4, <1>6 DEF Own, Decoded, Of, Cloned, Stores
  <2>4. (Updated(b) => Updated(b)') /\ (Sees(b) => Sees(b)')
    BY <1>1, <1>4 DEF Updated, InTime, Sees, Private
  <2> QED
    BY <1>6, <2>1, <2>2, <2>3, <2>4 DEF RecInv, Working
<1>10. ASSUME NEW b \in Builds PROVE RecHonest(b)'
  <2>1. HasSeen(b)' <=> HasSeen(b)
    BY <1>4 DEF HasSeen
  <2>2. OfThisVersion(b) => OfThisVersion(b)'
    BY <1>4 DEF OfThisVersion
  <2>3. OnlyAsked(b) => OnlyAsked(b)'
    BY <1>1, <1>4, <1>6 DEF OnlyAsked, Unsaid
  <2>4. RowAgrees(b) => RowAgrees(b)'
    BY <1>1, <1>4 DEF RowAgrees, Private
  <2>5. AskedFresh(b) => AskedFresh(b)'
    BY <1>4 DEF AskedFresh
  <2> QED
    BY <2>1, <2>2, <2>3, <2>4, <2>5 DEF RecInv, RecHonest
<1> QED
  BY <1>5, <1>7, <1>8, <1>9, <1>10 DEF RecInv

LEMMA RecordStep ==
  ASSUME RecInv, [AttributesNext]_attrVars
  PROVE  RecInv'
<1>1. CASE UNCHANGED attrVars
  BY <1>1, SameWorld DEF attrVars, worldVars
<1>2. CASE AttributesNext
  <2>1. ASSUME NEW b \in Builds, NEW ask, BuildAttributes(b, ask) PROVE RecInv'
    BY <2>1, BeginKeeps
  <2>2. ASSUME RacingMap PROVE RecInv'
    BY <2>2, SameWorld DEF RacingMap
  <2> QED
    BY <1>2, <2>1, <2>2, HitKeeps, MissKeeps, DropKeeps, EnrichKeeps, EvaluateKeeps, ShowKeeps,
       VersionKeeps, TurnKeeps DEF AttributesNext
<1> QED
  BY <1>1, <1>2

(* The record of a file: whatever the number of calls that build it at the *)
(* same time, whatever they ask for and however the file and its           *)
(* surroundings change meanwhile, what an expression sees and a row shows  *)
(* is of this version of the file or newer, was extracted or asked for, is *)
(* as it was during the call if asked for, and the row shows what the      *)
(* expression saw if no other call has the map.  On a hit, the names that  *)
(* an earlier call may have put into the map the index keeps are said to   *)
(* be of the version, and no more (evaluator.go:459-866, match_from.go).   *)
THEOREM RowsTold == RecordSpec => []RowsHonest
<1>1. AttributesInit => RecInv
  BY RecordStarts
<1>2. RecInv /\ [AttributesNext]_attrVars => RecInv'
  BY RecordStep
<1>3. RecInv => RowsHonest
  BY DEF RecInv, RecHonest, RowsHonest
<1> QED
  BY <1>1, <1>2, <1>3, PTL DEF RecordSpec

-----------------------------------------------------------------------------
(* The loops a reader has, ...                                             *)
Overs(reader) ==
  CASE reader = "mp4" -> {"film", "moov", "findMedia", "tkhd", "mdia", "minf", "stbl", "stsd", "entry"}
    [] reader = "m4a" -> {"sound", "soundMoov", "toMdia", "toMinf", "toStbl", "toStsd", "soundStsd",
                          "soundEntry"}
    [] reader = "mkv" -> Ebml
    [] OTHER -> Riff
Laps == [over : Overs(container.reader), start : Nat, pos : Nat, end : Nat]

(* ... and where in a film's track they find the next one.                 *)
TrackLoops == {"findMedia", "tkhd", "mdia"}
Spans == {<<>>} \cup Nat \X Nat

MediaTyped ==
  /\ container \in Containers /\ loops \in Seq(Laps)
  /\ parse \in {"reading", "read", "failed", "cancelled", "stuck"}
  /\ DOMAIN track = DOMAIN NoTrack /\ track.media \in Spans /\ track.minf \in Spans
StuckAt ==
  parse = "stuck" => /\ container.reader = "m4a"
                     /\ \E i \in 1 .. Length : container.cells[i].size = 0
Nested(s) == \A i \in 2 .. Len(s) : s[i - 1].end <= s[i].end
(* The loops over one track are the innermost one, and lead to places in it*)
TrackRead(l, t) ==
  /\ l.over \in {"findMedia", "tkhd"} =>
       /\ t.minf = <<>>
       /\ t.media # <<>> => t.media[2] <= l.end
  /\ l.over = "tkhd" => t.media # <<>>
  /\ l.over = "mdia" /\ t.minf # <<>> => t.minf[2] <= l.end
TrackWithin(s, t) ==
  /\ \A i \in 2 .. Len(s) : s[i].over \notin TrackLoops
  /\ s # <<>> => TrackRead(Head(s), t)
LoopsInv ==
  /\ MediaTyped /\ StuckAt
  /\ container.reader = "mp4" => Nested(loops) /\ TrackWithin(loops, track)

-----------------------------------------------------------------------------
(* The innermost loop makes way for others, which end no later.            *)
LEMMA Replaced ==
  ASSUME NEW S, NEW s \in Seq(S), s # <<>>, NEW r \in Seq(S)
  PROVE  /\ Tail(s) \in Seq(S) /\ r \o Tail(s) \in Seq(S)
         /\ Head(s) = s[1] /\ Head(s) \in S
         /\ Len(r \o Tail(s)) = Len(r) + Len(s) - 1 /\ Len(r) \in Nat /\ Len(s) \in Nat
         /\ \A i \in 1 .. Len(r) : (r \o Tail(s))[i] = r[i]
         /\ \A i \in Len(r) + 1 .. Len(r) + Len(s) - 1 : (r \o Tail(s))[i] = s[i - Len(r) + 1]
<1> DEFINE t == Tail(s)
<1>1. t \in Seq(S) /\ Len(t) = Len(s) - 1 /\ Len(s) \in Nat /\ Len(r) \in Nat
      /\ \A i \in 1 .. Len(t) : t[i] = s[i + 1]
  BY HeadTailProperties
<1>2. Head(s) = s[1] /\ Head(s) \in S
  BY HeadTailProperties
<1> HIDE DEF t
<1>3. r \o t \in Seq(S) /\ Len(r \o t) = Len(r) + Len(t)
      /\ \A i \in 1 .. Len(r) + Len(t) : (r \o t)[i] = IF i <= Len(r) THEN r[i] ELSE t[i - Len(r)]
  BY <1>1, ConcatProperties
<1> QED BY <1>1, <1>2, <1>3 DEF t

LEMMA NestedOn ==
  ASSUME NEW S, \A x \in S : x.end \in Nat, NEW s \in Seq(S), s # <<>>, Nested(s),
         NEW r \in Seq(S), Nested(r), r # <<>> => r[Len(r)].end <= Head(s).end
  PROVE  Nested(r \o Tail(s))
<1> DEFINE t == r \o Tail(s)
<1>1. /\ t \in Seq(S) /\ Len(t) = Len(r) + Len(s) - 1 /\ Len(r) \in Nat /\ Len(s) \in Nat
      /\ \A i \in 1 .. Len(r) : t[i] = r[i]
      /\ \A i \in Len(r) + 1 .. Len(r) + Len(s) - 1 : t[i] = s[i - Len(r) + 1]
      /\ Head(s) = s[1]
  BY Replaced
<1> HIDE DEF t
<1>2. SUFFICES ASSUME NEW i \in 2 .. Len(t) PROVE t[i - 1].end <= t[i].end
  BY DEF Nested, t
<1>3. CASE i <= Len(r)
  <2>1. i \in 2 .. Len(r) /\ i - 1 \in 1 .. Len(r) /\ i \in 1 .. Len(r)
    BY <1>1, <1>3
  <2> QED BY <1>1, <2>1 DEF Nested
<1>4. CASE i > Len(r) + 1
  <2>1. i - Len(r) + 1 \in 2 .. Len(s) /\ i - 1 \in Len(r) + 1 .. Len(r) + Len(s) - 1
        /\ i \in Len(r) + 1 .. Len(r) + Len(s) - 1 /\ (i - 1) - Len(r) + 1 = (i - Len(r) + 1) - 1
    BY <1>1, <1>4
  <2>2. t[i] = s[i - Len(r) + 1] /\ t[i - 1] = s[(i - Len(r) + 1) - 1]
    BY <1>1, <2>1
  <2> QED BY <2>1, <2>2 DEF Nested
<1>5. CASE i = Len(r) + 1
  <2>a. i - 1 = Len(r) /\ i - Len(r) + 1 = 2 /\ Len(r) \in 1 .. Len(r)
        /\ 2 \in 2 .. Len(s) /\ 1 \in 1 .. Len(s) /\ 2 \in 1 .. Len(s)
        /\ i \in Len(r) + 1 .. Len(r) + Len(s) - 1
    BY <1>1, <1>5
  <2>b. t[i - 1] = r[Len(r)] /\ t[i] = s[2]
    BY <1>1, <2>a
  <2>1. t[i - 1] = r[Len(r)] /\ t[i] = s[2] /\ r # <<>> /\ 2 \in 2 .. Len(s) /\ 1 \in 1 .. Len(s)
        /\ Len(r) \in 1 .. Len(r)
    BY <2>a, <2>b
  <2>2. r[Len(r)].end <= s[1].end
    BY <1>1, <2>1
  <2>3. s[1].end <= s[2].end
    BY <2>1 DEF Nested
  <2>4. s[1] \in S /\ s[2] \in S /\ r[Len(r)] \in S
    BY <2>a
  <2> QED BY <2>1, <2>2, <2>3, <2>4
<1> QED BY <1>1, <1>3, <1>4, <1>5

LEMMA LoopsKeep ==
  ASSUME LoopsInv, container' = container, loops # <<>>, NEW r \in Seq(Laps),
         loops' = r \o Tail(loops), parse' \in {"reading", "failed", "cancelled", "stuck"},
         parse' = "stuck" => /\ container.reader = "m4a"
                             /\ \E i \in 1 .. Length : container.cells[i].size = 0,
         DOMAIN track' = DOMAIN NoTrack, track'.media \in Spans, track'.minf \in Spans,
         container.reader = "mp4" =>
           /\ Nested(r)
           /\ r # <<>> => r[Len(r)].end <= Loop.end
           /\ \A i \in 2 .. Len(r) : r[i].over \notin TrackLoops
           /\ r # <<>> => TrackRead(r[1], track')
  PROVE  LoopsInv'
<1> DEFINE t == r \o Tail(loops)
           tr == track'
<1>1. loops \in Seq(Laps) /\ loops # <<>>
  BY DEF LoopsInv, MediaTyped
<1>2. /\ t \in Seq(Laps) /\ Len(t) = Len(r) + Len(loops) - 1 /\ Len(r) \in Nat /\ Len(loops) \in Nat
      /\ \A i \in 1 .. Len(r) : t[i] = r[i]
      /\ \A i \in Len(r) + 1 .. Len(r) + Len(loops) - 1 : t[i] = loops[i - Len(r) + 1]
      /\ Head(loops) = loops[1]
  <2> HIDE DEF Laps
  <2> QED BY <1>1, Replaced
<1>3. MediaTyped'
  BY <1>2 DEF LoopsInv, MediaTyped, Laps
<1>4. StuckAt'
  BY DEF StuckAt, Length
<1>5. ASSUME container.reader = "mp4" PROVE Nested(t) /\ TrackWithin(t, tr)
  <2>1. \A x \in Laps : x.end \in Nat
    BY DEF Laps
  <2>2. Nested(loops) /\ TrackWithin(loops, track)
    BY <1>5 DEF LoopsInv
  <2>3. Nested(r) /\ (r # <<>> => r[Len(r)].end <= Head(loops).end)
    BY <1>5 DEF Loop
  <2>4. Nested(t)
    <3>1. loops \in Seq(Laps) /\ loops # <<>> /\ Nested(loops)
      BY <1>1, <2>2
    <3>2. r \in Seq(Laps) /\ Nested(r) /\ (r # <<>> => r[Len(r)].end <= Head(loops).end)
      BY <2>3
    <3> QED BY ONLY <2>1, <3>1, <3>2, NestedOn
  <2> HIDE DEF t, tr
  <2>5. ASSUME NEW i \in 2 .. Len(t) PROVE t[i].over \notin TrackLoops
    <3>1. CASE i <= Len(r)
      <4>1. i \in 2 .. Len(r) /\ i \in 1 .. Len(r)
        BY <1>2, <2>5, <3>1
      <4> QED BY <1>2, <1>5, <4>1
    <3>2. CASE i > Len(r)
      <4>1. i - Len(r) + 1 \in 2 .. Len(loops) /\ i \in Len(r) + 1 .. Len(r) + Len(loops) - 1
        BY <1>2, <2>5, <3>2
      <4> QED BY <1>2, <2>2, <4>1 DEF TrackWithin
    <3> QED BY <1>2, <3>1, <3>2
  <2>6. ASSUME t # <<>> PROVE TrackRead(Head(t), tr)
    <3>1. Head(t) = t[1] /\ Len(t) \in Nat /\ Len(t) >= 1
      BY <1>2, <2>6, HeadTailProperties
    <3>2. CASE r # <<>>
      <4>1. 1 \in 1 .. Len(r)
        BY <1>2, <3>2
      <4> QED BY <1>2, <1>5, <3>1, <3>2, <4>1 DEF tr
    <3>3. CASE r = <<>>
      <4>1. Len(r) = 0
        BY <3>3
      <4>2. 1 \in Len(r) + 1 .. Len(r) + Len(loops) - 1 /\ 1 - Len(r) + 1 = 2 /\ 2 \in 2 .. Len(loops)
        BY <1>2, <3>1, <4>1
      <4>3. t[1] = loops[2]
        BY <1>2, <4>2
      <4>4. t[1].over \notin TrackLoops
        BY <2>2, <4>2, <4>3 DEF TrackWithin
      <4> QED BY <3>1, <4>4 DEF TrackRead, TrackLoops
    <3> QED BY <3>2, <3>3
  <2> QED BY <2>4, <2>5, <2>6 DEF TrackWithin
<1> QED BY <1>3, <1>4, <1>5 DEF LoopsInv

-----------------------------------------------------------------------------
(* The next box is further on, but after a box of size 0 in a sound file;  *)
(* in a film it is not beyond the loop.                                    *)
LEMMA NextAhead ==
  ASSUME LoopsInv, AtBox
  PROVE  /\ Box.size \in Nat /\ Loop \in Laps /\ Following \in Nat /\ Loop.pos + 1 \in 1 .. Length
         /\ Following <= Loop.pos => container.reader = "m4a" /\ Box.size = 0
         /\ container.reader = "mp4" => Following <= Loop.end
<1>1. Loop \in Laps /\ loops # <<>>
  BY HeadTailProperties DEF LoopsInv, MediaTyped, AtBox, Loop
<1>2. IsContainer(container)
  BY ContainersAssumption DEF LoopsInv, MediaTyped
<1>3. Loop.pos \in Nat /\ Loop.end \in Nat /\ Loop.over \in Overs(container.reader)
  BY <1>1 DEF Laps
<1>4. Loop.pos < Loop.end /\ Loop.pos + 1 \in 1 .. Length /\ Length \in Nat
  BY <1>2, <1>3 DEF AtBox, IsContainer, Length
<1>5. Box.size \in Nat
  BY <1>2, <1>4 DEF IsContainer, Length, Box
<1> DEFINE f == Loop
           z == Box.size
           next == NextBox(f, z)
<1>6. f.pos \in Nat /\ f.end \in Nat /\ f.pos < f.end /\ z \in Nat
  BY <1>3, <1>4, <1>5
<1>7. f.over \in Overs(container.reader)
  BY <1>3
<1> HIDE DEF f, z
<1>8. Clamped(f, z) \in Nat /\ f.pos < Clamped(f, z) /\ Clamped(f, z) <= f.end
  BY <1>6 DEF Clamped
<1>9. CASE z = 0 /\ f.over \in Ebml
  <2>1. next = f.end
    BY <1>9 DEF NextBox, Ebml, Riff, Unclamped
  <2>2. container.reader # "mp4"
    BY <1>7, <1>9 DEF Overs, Ebml
  <2> QED BY <1>1, <1>4, <1>5, <1>6, <2>1, <2>2 DEF next, f, z, Following
<1>10. CASE z = 0 /\ f.over \in Riff
  <2>1. next = f.pos + 1
    BY <1>10 DEF NextBox, Ebml, Riff, Unclamped
  <2>2. container.reader # "mp4"
    BY <1>7, <1>10 DEF Overs, Riff
  <2> QED BY <1>1, <1>4, <1>5, <1>6, <2>1, <2>2 DEF next, f, z, Following
<1>11. CASE (z > 0 /\ f.over \in Ebml \cup Riff) \/ f.over \in Unclamped
  <2>1. next = f.pos + z
    BY <1>6, <1>11 DEF NextBox, Ebml, Riff, Unclamped
  <2>2. container.reader # "mp4"
    BY <1>7, <1>11 DEF Overs, Ebml, Riff, Unclamped
  <2>3. z = 0 => container.reader = "m4a"
    <3>1. container.reader \in {"mp4", "m4a", "mkv", "avi"}
      BY <1>2 DEF IsContainer
    <3> QED BY <1>7, <1>11, <3>1 DEF Overs, Ebml, Riff, Unclamped
  <2>4. next \in Nat /\ (next <= f.pos => z = 0)
    BY <1>6, <2>1
  <2> QED BY <1>1, <1>4, <1>5, <2>2, <2>3, <2>4 DEF next, f, z, Following
<1>12. CASE f.over \notin Ebml \cup Riff \cup Unclamped
  <2>1. next = Clamped(f, z)
    BY <1>12 DEF NextBox
  <2>2. next \in Nat /\ f.pos < next /\ next <= f.end
    BY <1>8, <2>1
  <2> QED BY <1>1, <1>4, <1>5, <1>6, <2>2 DEF next, f, z, Following
<1> QED BY <1>6, <1>9, <1>10, <1>11, <1>12

LEMMA OnwardFacts ==
  ASSUME LoopsInv, AtBox, NEW inner, Onward(inner)
  PROVE  LET on == [Loop EXCEPT !.pos = Following]
         IN  /\ on \in Laps /\ on.over = Loop.over /\ on.end = Loop.end
             /\ loops # <<>> /\ loops' = (inner \o <<on>>) \o Tail(loops)
             /\ parse' \in {"reading", "failed", "cancelled", "stuck"}
             /\ parse' = "stuck" => /\ container.reader = "m4a"
                                    /\ \E i \in 1 .. Length : container.cells[i].size = 0
<1> DEFINE on == [Loop EXCEPT !.pos = Following]
<1>1. /\ Box.size \in Nat /\ Loop \in Laps /\ Following \in Nat /\ Loop.pos + 1 \in 1 .. Length
      /\ Following <= Loop.pos => container.reader = "m4a" /\ Box.size = 0
  BY NextAhead
<1>2. on \in Laps /\ on.over = Loop.over /\ on.end = Loop.end
  BY <1>1 DEF Laps
<1>3. loops # <<>> /\ loops' = inner \o <<on>> \o Tail(loops)
  BY DEF AtBox, Onward
<1>4. parse' = IF Following <= Loop.pos THEN "stuck" ELSE "reading"
  BY DEF Onward
<1>5. Following <= Loop.pos => /\ container.reader = "m4a"
                               /\ \E i \in 1 .. Length : container.cells[i].size = 0
  BY <1>1 DEF Box
<1> QED BY <1>2, <1>3, <1>4, <1>5

LEMMA OnwardAlone ==
  ASSUME LoopsInv, AtBox, Onward(<<>>), container' = container, DOMAIN track' = DOMAIN NoTrack,
         track'.media \in Spans, track'.minf \in Spans,
         container.reader = "mp4" => TrackRead(Loop, track')
  PROVE  LoopsInv'
<1> DEFINE on == [Loop EXCEPT !.pos = Following]
           r == <<on>>
<1>1. /\ on \in Laps /\ on.over = Loop.over /\ on.end = Loop.end
      /\ loops # <<>> /\ loops' = (<<>> \o r) \o Tail(loops)
      /\ parse' \in {"reading", "failed", "cancelled", "stuck"}
      /\ parse' = "stuck" => /\ container.reader = "m4a"
                             /\ \E i \in 1 .. Length : container.cells[i].size = 0
  BY OnwardFacts
<1>2. on.end \in Nat
  BY <1>1 DEF Laps
<1> HIDE DEF on, Laps
<1>3. r \in Seq(Laps) /\ Len(r) = 1 /\ r[1] = on /\ <<>> \o r = r
  BY <1>1
<1>4. loops' = r \o Tail(loops)
  BY <1>1, <1>3
<1>5. Nested(r) /\ \A i \in 2 .. Len(r) : r[i].over \notin TrackLoops
  BY <1>3 DEF Nested
<1>6. container.reader = "mp4" => TrackRead(on, track')
  BY <1>1 DEF TrackRead
<1>7. Loop.end \in Nat /\ on.end <= Loop.end
  BY <1>1, <1>2
<1>8. container.reader = "mp4" =>
           /\ Nested(r)
           /\ r # <<>> => r[Len(r)].end <= Loop.end
           /\ \A i \in 2 .. Len(r) : r[i].over \notin TrackLoops
           /\ r # <<>> => TrackRead(r[1], track')
  BY <1>3, <1>5, <1>6, <1>7
<1> HIDE DEF r
<1> QED BY <1>1, <1>3, <1>4, <1>8, LoopsKeep

LEMMA OnwardInto ==
  ASSUME LoopsInv, AtBox, NEW x \in Laps, Onward(<<x>>), container' = container,
         DOMAIN track' = DOMAIN NoTrack, track'.media \in Spans, track'.minf \in Spans,
         container.reader = "mp4" =>
           x.end <= Loop.end /\ Loop.over \notin TrackLoops /\ TrackRead(x, track')
  PROVE  LoopsInv'
<1> DEFINE on == [Loop EXCEPT !.pos = Following]
           r == <<x>> \o <<on>>
<1>1. /\ on \in Laps /\ on.over = Loop.over /\ on.end = Loop.end
      /\ loops # <<>> /\ loops' = r \o Tail(loops)
      /\ parse' \in {"reading", "failed", "cancelled", "stuck"}
      /\ parse' = "stuck" => /\ container.reader = "m4a"
                             /\ \E i \in 1 .. Length : container.cells[i].size = 0
  BY OnwardFacts
<1>2. on.end \in Nat
  BY <1>1 DEF Laps
<1> HIDE DEF on, Laps
<1>3. r \in Seq(Laps) /\ Len(r) = 2 /\ r[1] = x /\ r[2] = on /\ r # <<>>
  BY <1>1
<1>7. Loop.end \in Nat /\ on.end <= Loop.end
  BY <1>1, <1>2
<1> HIDE DEF r
<1>8. ASSUME container.reader = "mp4"
      PROVE  /\ Nested(r)
             /\ r # <<>> => r[Len(r)].end <= Loop.end
             /\ \A i \in 2 .. Len(r) : r[i].over \notin TrackLoops
             /\ r # <<>> => TrackRead(r[1], track')
  <2>1. \A i \in 2 .. Len(r) : i = 2 /\ i - 1 = 1
    BY <1>3
  <2>2. Nested(r)
    BY <1>1, <1>3, <1>8, <2>1 DEF Nested
  <2>3. \A i \in 2 .. Len(r) : r[i].over \notin TrackLoops
    BY <1>1, <1>3, <1>8, <2>1
  <2> QED BY <1>3, <1>7, <1>8, <2>2, <2>3
<1> QED BY <1>1, <1>3, <1>8, LoopsKeep

(* The innermost loop is given up, for another one or for none.            *)
LEMMA InsteadKeeps ==
  ASSUME LoopsInv, loops # <<>>, NEW x \in Laps, loops' = <<x>> \o Tail(loops), container' = container,
         parse' \in {"reading", "failed", "cancelled"},
         DOMAIN track' = DOMAIN NoTrack, track'.media \in Spans, track'.minf \in Spans,
         container.reader = "mp4" => x.end <= Loop.end /\ TrackRead(x, track')
  PROVE  LoopsInv'
<1> DEFINE r == <<x>>
<1>1. r \in Seq(Laps) /\ Len(r) = 1 /\ r[1] = x /\ r # <<>>
  <2> HIDE DEF Laps
  <2> QED OBVIOUS
<1>2. Nested(r) /\ \A i \in 2 .. Len(r) : r[i].over \notin TrackLoops
  BY <1>1 DEF Nested
<1>3. loops' = r \o Tail(loops) /\ parse' # "stuck" /\ parse' \in {"reading", "failed", "cancelled", "stuck"}
  OBVIOUS
<1> HIDE DEF r
<1>4. container.reader = "mp4" =>
           /\ Nested(r)
           /\ r # <<>> => r[Len(r)].end <= Loop.end
           /\ \A i \in 2 .. Len(r) : r[i].over \notin TrackLoops
           /\ r # <<>> => TrackRead(r[1], track')
  BY <1>1, <1>2
<1> QED BY <1>1, <1>3, <1>4, LoopsKeep

LEMMA PoppedKeeps ==
  ASSUME LoopsInv, loops # <<>>, loops' = Tail(loops), container' = container, parse' = "reading",
         DOMAIN track' = DOMAIN NoTrack, track'.media \in Spans, track'.minf \in Spans
  PROVE  LoopsInv'
<1> DEFINE r == <<>>
<1>1. r \in Seq(Laps) /\ Len(r) = 0 /\ r = <<>>
  OBVIOUS
<1>2. Nested(r) /\ \A i \in 2 .. Len(r) : r[i].over \notin TrackLoops
  BY <1>1 DEF Nested
<1>3. r \o Tail(loops) = Tail(loops)
  <2>1. Tail(loops) \in Seq(Laps)
    BY HeadTailProperties DEF LoopsInv, MediaTyped
  <2> QED BY <2>1
<1>4. loops' = r \o Tail(loops) /\ parse' # "stuck" /\ parse' \in {"reading", "failed", "cancelled", "stuck"}
  BY <1>3
<1> HIDE DEF r
<1>5. container.reader = "mp4" =>
           /\ Nested(r)
           /\ r # <<>> => r[Len(r)].end <= Loop.end
           /\ \A i \in 2 .. Len(r) : r[i].over \notin TrackLoops
           /\ r # <<>> => TrackRead(r[1], track')
  BY <1>1, <1>2
<1> QED BY <1>1, <1>4, <1>5, LoopsKeep

(* Nothing moves but the verdict.                                          *)
LEMMA HaltKeeps ==
  ASSUME LoopsInv, UNCHANGED <<container, loops, track>>, parse' \in {"read", "failed", "cancelled"}
  PROVE  LoopsInv'
<1>1. MediaTyped' /\ StuckAt'
  BY DEF LoopsInv, MediaTyped, StuckAt, Laps
<1> QED BY <1>1 DEF LoopsInv

-----------------------------------------------------------------------------
(* The tables: a reader's loops lead to its own, no loop over a track leads*)
(* to another, and no field is where its media or tables are.              *)
LEMMA EntersOwn ==
  \A e \in Enters :
    /\ \A r \in {"mp4", "m4a", "mkv", "avi"} : e[1] \in Overs(r) => e[3] \in Overs(r)
    /\ e[1] \notin TrackLoops /\ e[3] \notin {"tkhd", "mdia"}
<1>1. \A e \in FilmEnters :
        /\ \A r \in {"mp4", "m4a", "mkv", "avi"} : e[1] \in Overs(r) => e[3] \in Overs(r)
        /\ e[1] \notin TrackLoops /\ e[3] \notin {"tkhd", "mdia"}
  BY DEF FilmEnters, Overs, TrackLoops, Ebml, Riff
<1>2. \A e \in SoundEnters :
        /\ \A r \in {"mp4", "m4a", "mkv", "avi"} : e[1] \in Overs(r) => e[3] \in Overs(r)
        /\ e[1] \notin TrackLoops /\ e[3] \notin {"tkhd", "mdia"}
  BY DEF SoundEnters, Overs, TrackLoops, Ebml, Riff
<1>3. \A e \in SegmentEnters :
        /\ \A r \in {"mp4", "m4a", "mkv", "avi"} : e[1] \in Overs(r) => e[3] \in Overs(r)
        /\ e[1] \notin TrackLoops /\ e[3] \notin {"tkhd", "mdia"}
  BY DEF SegmentEnters, Overs, TrackLoops, Ebml, Riff
<1>4. \A e \in AviEnters :
        /\ \A r \in {"mp4", "m4a", "mkv", "avi"} : e[1] \in Overs(r) => e[3] \in Overs(r)
        /\ e[1] \notin TrackLoops /\ e[3] \notin {"tkhd", "mdia"}
  BY DEF AviEnters, Overs, TrackLoops, Ebml, Riff
<1> QED BY <1>1, <1>2, <1>3, <1>4 DEF Enters

NoSpan(d) == \A i \in DOMAIN d.names : d.names[i] \notin {"media", "minf"}
LEMMA FieldsElsewhere == \A d \in FieldReads : DOMAIN d.names = 1 .. Len(d.names) /\ NoSpan(d)
<1> DEFINE P(d) == DOMAIN d.names = 1 .. Len(d.names) /\ NoSpan(d)
<1>1. \A d \in MediaFields : P(d)
  BY DEF MediaFields, Field, NoSpan
<1>2. \A d \in EntryFields : P(d)
  BY DEF EntryFields, Field, NoSpan
<1>3. \A d \in TrackFields : P(d)
  BY DEF TrackFields, Field, NoSpan
<1>4. P(MovieField("moov")) /\ P(MovieField("soundMoov")) /\ P(TurnField)
  BY DEF MovieField, TurnField, Field, NoSpan
<1>5. P(SoundField) /\ P(LengthField)
  BY DEF SoundField, LengthField, Field, NoSpan
<1>6. P(AviField)
  BY DEF AviField, Field, NoSpan
<1> HIDE DEF P
<1>8. \A d \in FieldReads : P(d)
  BY <1>1, <1>2, <1>3, <1>4, <1>5, <1>6 DEF FieldReads
<1> QED BY <1>8 DEF P

(* What is read of a track leaves the places noted in it.                  *)
LEMMA ReadElsewhere ==
  ASSUME NEW t, DOMAIN t = DOMAIN NoTrack, NEW d \in FieldReads, NEW can
  PROVE  /\ DOMAIN WithFields(t, d, can) = DOMAIN NoTrack
         /\ WithFields(t, d, can).media = t.media /\ WithFields(t, d, can).minf = t.minf
<1> DEFINE at(n) == {i \in DOMAIN d.names : d.names[i] = n}
<1>1. ASSUME NEW n \in {"media", "minf"} PROVE at(n) = {}
  BY <1>1, FieldsElsewhere DEF NoSpan
<1>2. at("media") = {} /\ at("minf") = {}
  BY <1>1
<1>3. "media" \in DOMAIN t /\ "minf" \in DOMAIN t
  BY DEF NoTrack
<1>4. DOMAIN WithFields(t, d, can) = DOMAIN t
  BY DEF WithFields
<1>5. ASSUME NEW n \in DOMAIN t, at(n) = {} PROVE WithFields(t, d, can)[n] = t[n]
  BY <1>5 DEF WithFields
<1> QED BY <1>2, <1>3, <1>4, <1>5

-----------------------------------------------------------------------------
(* Action by action.                                                       *)
LEMMA TrackNow ==
  ASSUME LoopsInv, loops # <<>>
  PROVE  /\ DOMAIN track = DOMAIN NoTrack /\ track.media \in Spans /\ track.minf \in Spans
         /\ container.reader = "mp4" => TrackRead(Loop, track)
         /\ Loop \in Laps /\ container.reader \in {"mp4", "m4a", "mkv", "avi"}
<1>1. Loop \in Laps
  BY HeadTailProperties DEF LoopsInv, MediaTyped, Loop
<1>2. IsContainer(container)
  BY ContainersAssumption DEF LoopsInv, MediaTyped
<1> QED BY <1>1, <1>2 DEF LoopsInv, MediaTyped, TrackWithin, Loop, IsContainer

LEMMA OnKeeps == LoopsInv /\ AtBox /\ Onward(<<>>) /\ UNCHANGED <<container, track>> => LoopsInv'
<1> SUFFICES ASSUME LoopsInv, AtBox, Onward(<<>>), UNCHANGED <<container, track>> PROVE LoopsInv'
  OBVIOUS
<1>1. loops # <<>> /\ container' = container /\ track' = track
  BY DEF AtBox
<1>2. /\ DOMAIN track = DOMAIN NoTrack /\ track.media \in Spans /\ track.minf \in Spans
      /\ container.reader = "mp4" => TrackRead(Loop, track)
  BY <1>1, TrackNow
<1>3. container.reader = "mp4" => TrackRead(Loop, track')
  BY <1>1, <1>2
<1> QED BY <1>1, <1>2, <1>3, OnwardAlone

LEMMA SkipKeeps == LoopsInv /\ SkipBox => LoopsInv'
  BY OnKeeps DEF SkipBox

LEMMA TimesKeep == LoopsInv /\ ReadTimes => LoopsInv'
  BY OnKeeps DEF ReadTimes

LEMMA EnterKeeps == LoopsInv /\ EnterBox => LoopsInv'
<1> SUFFICES ASSUME LoopsInv, EnterBox PROVE LoopsInv'
  OBVIOUS
<1> DEFINE from == Loop.pos + (IF Box.name = "stsd" THEN 2 ELSE 1)
           inner(over) == LoopOver(over, from, Following)
           ended == [Loop EXCEPT !.pos = Loop.end]
<1>1. AtBox /\ loops # <<>> /\ container' = container
  BY DEF EnterBox, AtBox
<1>2. PICK e \in Enters :
        /\ Here = <<e[1], e[2]>>
        /\ \/ Fails
           \/ /\ IF Loop.over \in Descending
                 THEN /\ loops' = <<inner(e[3]), ended>> \o Tail(loops)
                      /\ UNCHANGED parse
                 ELSE Onward(<<inner(e[3])>>)
              /\ track' = IF e[3] \in {"findMedia", "TrackEntry", "strl"} THEN NoTrack ELSE track
  BY DEF EnterBox
<1>3. /\ DOMAIN track = DOMAIN NoTrack /\ track.media \in Spans /\ track.minf \in Spans
      /\ Loop \in Laps /\ container.reader \in {"mp4", "m4a", "mkv", "avi"}
  BY <1>1, TrackNow
<1>4. Following \in Nat /\ container.reader = "mp4" => Following <= Loop.end
  BY <1>1, NextAhead
<1>5. e[1] = Loop.over
  BY <1>2 DEF Here
<1>6. Loop.over \in Overs(container.reader) /\ Loop.pos \in Nat /\ Loop.end \in Nat
  BY <1>3 DEF Laps
<1>7. e[3] \in Overs(container.reader) /\ Loop.over \notin TrackLoops /\ e[3] \notin {"tkhd", "mdia"}
  BY <1>3, <1>5, <1>6, EntersOwn
<1>8. /\ inner(e[3]) \in Laps /\ inner(e[3]).over = e[3] /\ inner(e[3]).end = Following
  <2>1. from \in Nat /\ Following \in Nat
    BY <1>1, <1>6, NextAhead
  <2> HIDE DEF from
  <2> QED BY <1>7, <2>1 DEF LoopOver, Laps
<1>9. NoTrack.media = <<>> /\ NoTrack.minf = <<>> /\ <<>> \in Spans
  BY DEF NoTrack, Spans
<1>10. CASE Fails
  BY <1>1, <1>10, HaltKeeps DEF Fails
<1>11. ASSUME track' = IF e[3] \in {"findMedia", "TrackEntry", "strl"} THEN NoTrack ELSE track
       PROVE  /\ DOMAIN track' = DOMAIN NoTrack /\ track'.media \in Spans /\ track'.minf \in Spans
              /\ TrackRead(inner(e[3]), track')
  <2>1. DOMAIN track' = DOMAIN NoTrack /\ track'.media \in Spans /\ track'.minf \in Spans
    BY <1>3, <1>9, <1>11
  <2> DEFINE x == inner(e[3])
  <2>2. x.over = e[3]
    BY <1>8
  <2> HIDE DEF x
  <2>5. TrackRead(x, track')
    <3>1. CASE e[3] = "findMedia"
      BY <1>9, <1>11, <2>2, <3>1 DEF TrackRead
    <3>2. CASE e[3] # "findMedia"
      <4>1. x.over \notin {"findMedia", "tkhd", "mdia"}
        BY <1>7, <2>2, <3>2
      <4> QED BY <4>1 DEF TrackRead
    <3> QED BY <3>1, <3>2
  <2> QED BY <2>1, <2>5 DEF x
<1>12. CASE Loop.over \notin Descending /\ ~Fails
  <2> DEFINE x == inner(e[3])
  <2>1. Onward(<<x>>) /\ track' = IF e[3] \in {"findMedia", "TrackEntry", "strl"} THEN NoTrack ELSE track
    BY <1>2, <1>12
  <2>2. x \in Laps /\ x.end = Following
    BY <1>8
  <2>3. DOMAIN track' = DOMAIN NoTrack /\ track'.media \in Spans /\ track'.minf \in Spans /\ TrackRead(x, track')
    BY <1>11, <2>1
  <2>4. container.reader = "mp4" => x.end <= Loop.end /\ Loop.over \notin TrackLoops /\ TrackRead(x, track')
    BY <1>1, <1>7, <2>2, <2>3, NextAhead
  <2> HIDE DEF x
  <2> QED BY <1>1, <2>1, <2>2, <2>3, <2>4, OnwardInto
<1>13. CASE Loop.over \in Descending /\ ~Fails
  <2> DEFINE x == inner(e[3])
             r == <<x, ended>>
  <2>1. loops' = r \o Tail(loops) /\ parse' = parse
        /\ track' = IF e[3] \in {"findMedia", "TrackEntry", "strl"} THEN NoTrack ELSE track
    BY <1>2, <1>13
  <2>2. container.reader # "mp4"
    BY <1>6, <1>13 DEF Overs, Descending
  <2>3. ended \in Laps /\ x \in Laps
    BY <1>3, <1>6, <1>8 DEF Laps
  <2>4. parse' = "reading"
    BY <1>1, <2>1 DEF AtBox
  <2>5. DOMAIN track' = DOMAIN NoTrack /\ track'.media \in Spans /\ track'.minf \in Spans
    BY <1>11, <2>1
  <2> HIDE DEF x, ended
  <2>6. r \in Seq(Laps)
    <3> HIDE DEF Laps
    <3> QED BY <2>3
  <2> HIDE DEF r
  <2> QED BY <1>1, <2>1, <2>2, <2>4, <2>5, <2>6, LoopsKeep
<1> QED BY <1>10, <1>12, <1>13

LEMMA ReadKeeps == LoopsInv /\ ReadField => LoopsInv'
<1> SUFFICES ASSUME LoopsInv, ReadField PROVE LoopsInv'
  OBVIOUS
<1>1. AtBox /\ loops # <<>> /\ container' = container
  BY DEF ReadField, AtBox
<1>2. /\ DOMAIN track = DOMAIN NoTrack /\ track.media \in Spans /\ track.minf \in Spans
      /\ container.reader = "mp4" => TrackRead(Loop, track)
  BY <1>1, TrackNow
<1>3. PICK d \in FieldReads :
        \/ Fails
        \/ Onward(<<>>) /\ track' = track
        \/ Onward(<<>>) /\ track' = WithFields(track, d, CanRead(d.length))
  BY DEF ReadField
<1>4. CASE Fails
  BY <1>1, <1>4, HaltKeeps DEF Fails
<1>5. CASE ~Fails
  <2>1. DOMAIN track' = DOMAIN NoTrack /\ track'.media = track.media /\ track'.minf = track.minf
    BY <1>2, <1>3, <1>5, ReadElsewhere
  <2>2. container.reader = "mp4" => TrackRead(Loop, track')
    BY <1>2, <2>1 DEF TrackRead
  <2>3. Onward(<<>>)
    BY <1>3, <1>5
  <2> QED BY <1>1, <1>2, <2>1, <2>2, <2>3, OnwardAlone
<1> QED BY <1>4, <1>5

LEMMA NoteKeeps == LoopsInv /\ NoteRange => LoopsInv'
<1> SUFFICES ASSUME LoopsInv, NoteRange PROVE LoopsInv'
  OBVIOUS
<1> DEFINE range == <<Loop.pos + 1, Following>>
<1>1. AtBox /\ loops # <<>> /\ container' = container /\ Onward(<<>>)
      /\ Here \in {<<"findMedia", "mdia">>, <<"mdia", "minf">>}
      /\ track' = IF Box.name = "mdia" THEN [track EXCEPT !.media = range]
                                       ELSE [track EXCEPT !.minf = range]
  BY DEF NoteRange, AtBox
<1>2. /\ DOMAIN track = DOMAIN NoTrack /\ track.media \in Spans /\ track.minf \in Spans
      /\ container.reader = "mp4" => TrackRead(Loop, track)
      /\ Loop \in Laps
  BY <1>1, TrackNow
<1>3. Following \in Nat /\ (container.reader = "mp4" => Following <= Loop.end)
  BY <1>1, NextAhead
<1>4. range \in Spans /\ range[2] = Following
  BY <1>2, <1>3 DEF Laps, Spans
<1>5. "media" \in DOMAIN track /\ "minf" \in DOMAIN track
  BY <1>2 DEF NoTrack
<1> HIDE DEF range
<1>6. CASE Box.name = "mdia"
  <2>1. Loop.over = "findMedia"
    BY <1>1, <1>6 DEF Here
  <2>2. DOMAIN track' = DOMAIN NoTrack /\ track'.media = range /\ track'.minf = track.minf
    BY <1>1, <1>2, <1>5, <1>6
  <2>3. container.reader = "mp4" => TrackRead(Loop, track')
    BY <1>2, <1>3, <1>4, <2>1, <2>2 DEF TrackRead
  <2> QED BY <1>1, <1>2, <1>4, <2>2, <2>3, OnwardAlone
<1>7. CASE Box.name # "mdia"
  <2>1. Loop.over = "mdia"
    BY <1>1, <1>7 DEF Here
  <2>2. DOMAIN track' = DOMAIN NoTrack /\ track'.minf = range /\ track'.media = track.media
    BY <1>1, <1>2, <1>5, <1>7
  <2>3. container.reader = "mp4" => TrackRead(Loop, track')
    BY <1>2, <1>3, <1>4, <2>1, <2>2 DEF TrackRead
  <2> QED BY <1>1, <1>2, <1>4, <2>2, <2>3, OnwardAlone
<1> QED BY <1>6, <1>7

LEMMA StreamKeeps == LoopsInv /\ ReadStream => LoopsInv'
<1> SUFFICES ASSUME LoopsInv, ReadStream PROVE LoopsInv'
  OBVIOUS
<1>1. AtBox /\ loops # <<>> /\ container' = container /\ Onward(<<>>)
      /\ \E k : track' = [track EXCEPT !.kind = k] \/ track' = track
  BY DEF ReadStream, AtBox
<1>2. /\ DOMAIN track = DOMAIN NoTrack /\ track.media \in Spans /\ track.minf \in Spans
      /\ container.reader = "mp4" => TrackRead(Loop, track)
  BY <1>1, TrackNow
<1>3. DOMAIN track' = DOMAIN NoTrack /\ track'.media = track.media /\ track'.minf = track.minf
  BY <1>1, <1>2 DEF NoTrack
<1>4. container.reader = "mp4" => TrackRead(Loop, track')
  BY <1>2, <1>3 DEF TrackRead
<1> QED BY <1>1, <1>2, <1>3, <1>4, OnwardAlone

LEMMA EntryKeeps ==
  ASSUME LoopsInv, AtBox, NEW over \in Overs(container.reader), over \notin TrackLoops, IntoEntry(over),
         container' = container
  PROVE  LoopsInv'
<1> DEFINE x == LoopOver(over, Loop.pos + 2, Following)
<1>1. loops # <<>> /\ loops' = <<x>> \o Tail(loops) /\ track' = track /\ parse' = "reading"
  BY DEF IntoEntry, AtBox
<1>2. /\ DOMAIN track = DOMAIN NoTrack /\ track.media \in Spans /\ track.minf \in Spans
      /\ Loop \in Laps
  BY <1>1, TrackNow
<1>3. Following \in Nat /\ (container.reader = "mp4" => Following <= Loop.end)
  BY <1>1, NextAhead
<1>4. x \in Laps /\ x.over = over /\ x.end = Following
  BY <1>2, <1>3 DEF Laps, LoopOver
<1>5. TrackRead(x, track')
  BY <1>4 DEF TrackRead, TrackLoops
<1> HIDE DEF x
<1>6. container.reader = "mp4" => x.end <= Loop.end /\ TrackRead(x, track')
  BY <1>3, <1>4, <1>5
<1> QED BY <1>1, <1>2, <1>4, <1>6, InsteadKeeps

LEMMA FilmSampleKeeps == LoopsInv /\ ReadFilmSample => LoopsInv'
<1> SUFFICES ASSUME LoopsInv, ReadFilmSample PROVE LoopsInv'
  OBVIOUS
<1>1. AtBox /\ loops # <<>> /\ container' = container /\ Loop.over = "stsd"
  BY DEF ReadFilmSample, AtBox
<1>2. /\ DOMAIN track = DOMAIN NoTrack /\ track.media \in Spans /\ track.minf \in Spans
      /\ Loop \in Laps /\ container.reader \in {"mp4", "m4a", "mkv", "avi"}
  BY <1>1, TrackNow
<1>3. container.reader = "mp4"
  BY <1>1, <1>2 DEF Laps, Overs, Ebml, Riff
<1>4. CASE Onward(<<>>) /\ track' = track
  BY <1>1, <1>4, OnKeeps
<1>5. CASE Fails
  BY <1>1, <1>5, HaltKeeps DEF Fails
<1>6. CASE IntoEntry("entry")
  <2>1. "entry" \in Overs(container.reader) /\ "entry" \notin TrackLoops
    BY <1>3 DEF Overs, TrackLoops
  <2> QED BY <1>1, <1>6, <2>1, EntryKeeps
<1>7. CASE loops' = Tail(loops) /\ UNCHANGED <<track, parse>>
  <2>1. parse' = "reading"
    BY <1>1, <1>7 DEF AtBox
  <2> QED BY <1>1, <1>2, <1>7, <2>1, PoppedKeeps
<1> QED BY <1>4, <1>5, <1>6, <1>7 DEF ReadFilmSample

LEMMA SoundSampleKeeps == LoopsInv /\ ReadSoundSample => LoopsInv'
<1> SUFFICES ASSUME LoopsInv, ReadSoundSample PROVE LoopsInv'
  OBVIOUS
<1>1. AtBox /\ loops # <<>> /\ container' = container /\ Loop.over = "soundStsd"
  BY DEF ReadSoundSample, AtBox
<1>2. Loop \in Laps /\ container.reader \in {"mp4", "m4a", "mkv", "avi"}
  BY <1>1, TrackNow
<1>3. container.reader = "m4a"
  BY <1>1, <1>2 DEF Laps, Overs, Ebml, Riff
<1>4. CASE Onward(<<>>) /\ track' = track
  BY <1>1, <1>4, OnKeeps
<1>5. CASE Fails
  BY <1>1, <1>5, HaltKeeps DEF Fails
<1>6. CASE IntoEntry("soundEntry")
  <2>1. "soundEntry" \in Overs(container.reader) /\ "soundEntry" \notin TrackLoops
    BY <1>3 DEF Overs, TrackLoops
  <2> QED BY <1>1, <1>6, <2>1, EntryKeeps
<1> QED BY <1>4, <1>5, <1>6 DEF ReadSoundSample

LEMMA MissingKeeps == LoopsInv /\ HeaderMissing => LoopsInv'
<1> SUFFICES ASSUME LoopsInv, HeaderMissing PROVE LoopsInv'
  OBVIOUS
<1> DEFINE x == [Loop EXCEPT !.pos = Loop.end]
<1>1. loops # <<>> /\ container' = container /\ parse = "reading"
  BY DEF HeaderMissing
<1>2. /\ DOMAIN track = DOMAIN NoTrack /\ track.media \in Spans /\ track.minf \in Spans
      /\ container.reader = "mp4" => TrackRead(Loop, track)
      /\ Loop \in Laps
  BY <1>1, TrackNow
<1>3. CASE Fails
  BY <1>1, <1>3, HaltKeeps DEF Fails
<1>4. CASE ~Fails
  <2>1. loops' = <<x>> \o Tail(loops) /\ parse' = "reading"
        /\ (track' = track \/ track' = [track EXCEPT !.rotation = 0])
    BY <1>1, <1>4 DEF HeaderMissing
  <2>2. DOMAIN track' = DOMAIN NoTrack /\ track'.media = track.media /\ track'.minf = track.minf
    BY <1>2, <2>1 DEF NoTrack
  <2>3. x \in Laps /\ x.over = Loop.over /\ x.end = Loop.end /\ Loop.end \in Nat
    BY <1>2 DEF Laps
  <2> HIDE DEF x
  <2>4. container.reader = "mp4" => x.end <= Loop.end /\ TrackRead(x, track')
    BY <1>2, <2>2, <2>3 DEF TrackRead
  <2> QED BY <1>1, <1>2, <2>1, <2>2, <2>3, <2>4, InsteadKeeps
<1> QED BY <1>3, <1>4

LEMMA LeaveKeeps == LoopsInv /\ LeaveLoop => LoopsInv'
<1> SUFFICES ASSUME LoopsInv, LeaveLoop PROVE LoopsInv'
  OBVIOUS
<1> DEFINE over == Loop.over
           a == LoopOver("tkhd", Loop.start, Loop.end)
           b == LoopOver("mdia", track.media[1], track.media[2])
           c == LoopOver("minf", track.minf[1], track.minf[2])
<1>1. loops # <<>> /\ container' = container /\ parse' = "reading" /\ track' = track
  BY DEF LeaveLoop
<1>2. \/ over = "findMedia" /\ track.media # <<>> /\ loops' = <<a>> \o Tail(loops)
      \/ over = "tkhd" /\ loops' = <<b>> \o Tail(loops)
      \/ over = "mdia" /\ track.minf # <<>> /\ loops' = <<c>> \o Tail(loops)
      \/ loops' = <<>> \o Tail(loops)
  BY DEF LeaveLoop
<1>3. /\ DOMAIN track = DOMAIN NoTrack /\ track.media \in Spans /\ track.minf \in Spans
      /\ container.reader = "mp4" => TrackRead(Loop, track)
      /\ Loop \in Laps /\ container.reader \in {"mp4", "m4a", "mkv", "avi"}
  BY <1>1, TrackNow
<1>4. over \in TrackLoops => container.reader = "mp4"
  BY <1>3 DEF Laps, Overs, Ebml, Riff, TrackLoops
<1>5. CASE over = "findMedia" /\ track.media # <<>> /\ loops' = <<a>> \o Tail(loops)
  <2>1. container.reader = "mp4" /\ TrackRead(Loop, track)
    BY <1>3, <1>4, <1>5 DEF TrackLoops
  <2>2. a \in Laps /\ a.over = "tkhd" /\ a.end = Loop.end /\ Loop.end \in Nat
    BY <1>3, <2>1 DEF Laps, LoopOver, Overs
  <2> HIDE DEF a
  <2>3. TrackRead(a, track')
    BY <1>1, <1>5, <2>1, <2>2 DEF TrackRead
  <2>4. container.reader = "mp4" => a.end <= Loop.end /\ TrackRead(a, track')
    BY <2>2, <2>3
  <2> QED BY <1>1, <1>3, <1>5, <2>2, <2>4, InsteadKeeps
<1>6. CASE over = "tkhd" /\ loops' = <<b>> \o Tail(loops)
  <2>1. container.reader = "mp4" /\ TrackRead(Loop, track)
    BY <1>3, <1>4, <1>6 DEF TrackLoops
  <2>2. track.media # <<>> /\ track.media[2] <= Loop.end /\ track.minf = <<>>
    BY <1>6, <2>1 DEF TrackRead
  <2>3. track.media[1] \in Nat /\ track.media[2] \in Nat
    BY <1>3, <2>2 DEF Spans
  <2>4. b \in Laps /\ b.over = "mdia" /\ b.end = track.media[2]
    BY <2>1, <2>3 DEF Laps, LoopOver, Overs
  <2> HIDE DEF b
  <2>5. TrackRead(b, track')
    BY <1>1, <2>2, <2>4 DEF TrackRead
  <2>6. container.reader = "mp4" => b.end <= Loop.end /\ TrackRead(b, track')
    BY <2>2, <2>4, <2>5
  <2> QED BY <1>1, <1>3, <1>6, <2>4, <2>6, InsteadKeeps
<1>7. CASE over = "mdia" /\ track.minf # <<>> /\ loops' = <<c>> \o Tail(loops)
  <2>1. container.reader = "mp4" /\ TrackRead(Loop, track)
    BY <1>3, <1>4, <1>7 DEF TrackLoops
  <2>2. track.minf[2] <= Loop.end
    BY <1>7, <2>1 DEF TrackRead
  <2>3. track.minf[1] \in Nat /\ track.minf[2] \in Nat
    BY <1>3, <1>7 DEF Spans
  <2>4. c \in Laps /\ c.over = "minf" /\ c.end = track.minf[2]
    BY <2>1, <2>3 DEF Laps, LoopOver, Overs
  <2> HIDE DEF c
  <2>5. TrackRead(c, track')
    BY <2>4 DEF TrackRead
  <2>6. container.reader = "mp4" => c.end <= Loop.end /\ TrackRead(c, track')
    BY <2>2, <2>4, <2>5
  <2> QED BY <1>1, <1>3, <1>7, <2>4, <2>6, InsteadKeeps
<1>8. CASE loops' = <<>> \o Tail(loops)
  <2>1. Tail(loops) \in Seq(Laps)
    BY <1>1, HeadTailProperties DEF LoopsInv, MediaTyped
  <2>2. loops' = Tail(loops)
    BY <1>8, <2>1
  <2> QED BY <1>1, <1>3, <2>2, PoppedKeeps
<1> QED BY <1>2, <1>5, <1>6, <1>7, <1>8

LEMMA MediaStays == UNCHANGED mediaVars /\ LoopsInv => LoopsInv'
<1> SUFFICES ASSUME UNCHANGED mediaVars, LoopsInv PROVE LoopsInv'
  OBVIOUS
<1>1. container' = container /\ loops' = loops /\ track' = track /\ parse' = parse
  BY DEF mediaVars
<1>2. MediaTyped' /\ StuckAt'
  BY <1>1 DEF LoopsInv, MediaTyped, StuckAt, Laps, Length
<1> QED BY <1>1, <1>2 DEF LoopsInv

LEMMA MediaStarts == MediaInit => LoopsInv
<1> SUFFICES ASSUME NEW c \in Containers, MediaStart(c) PROVE LoopsInv
  BY DEF MediaInit
<1> DEFINE x == LoopOver(FirstLoop(c.reader), 0, c.end)
<1>1. container = c /\ loops = <<x>> /\ track = NoTrack /\ parse = "reading"
  BY DEF MediaStart
<1>2. IsContainer(c)
  BY ContainersAssumption
<1>3. FirstLoop(c.reader) \in Overs(c.reader) /\ FirstLoop(c.reader) \notin TrackLoops
  BY <1>2 DEF IsContainer, FirstLoop, Overs, TrackLoops, Ebml, Riff
<1>4. x \in Laps /\ x.over \notin TrackLoops
  BY <1>1, <1>2, <1>3 DEF IsContainer, Laps, LoopOver
<1> HIDE DEF x
<1>5. loops \in Seq(Laps) /\ Len(loops) = 1 /\ Head(loops) = x
  <2> HIDE DEF Laps
  <2> QED BY <1>1, <1>4
<1>6. MediaTyped
  BY <1>1, <1>5 DEF MediaTyped, NoTrack, Spans
<1>7. Nested(loops) /\ TrackWithin(loops, track)
  BY <1>4, <1>5 DEF Nested, TrackWithin, TrackRead, TrackLoops
<1> QED BY <1>1, <1>6, <1>7 DEF LoopsInv, StuckAt

-----------------------------------------------------------------------------
(* A proper file: from a place to another there are whole boxes, all as    *)
(* they are meant.                                                         *)
Snug(c, a, b) ==
  /\ a \in Nat /\ b \in Nat /\ a <= b /\ b <= Len(c.cells)
  /\ \A j \in a + 1 .. b : Until(c.whole, j) <= b /\ c.cells[j] = c.whole[j]
PastBoxes(c, a, b) == \A j \in a + 1 .. b : Until(c.whole, j) <= b
OverBox(c, l) == \E i \in DOMAIN c.whole : LoopIn(c.whole, l, i)
InFits(c, l) ==
  /\ Snug(c, l.start, l.end) /\ l.start <= l.pos /\ l.pos <= l.end /\ PastBoxes(c, l.start, l.pos)
  /\ OverBox(c, l) /\ l.over # FirstLoop(c.reader)
TopFits(c, l) ==
  /\ l.over = FirstLoop(c.reader) /\ l.end = Len(c.cells)
  /\ l.pos < l.end => PastBoxes(c, 0, l.pos)
LoopsFit(c, s) == \A k \in 1 .. Len(s) : IF k = Len(s) THEN TopFits(c, s[k]) ELSE InFits(c, s[k])
SpanFits(c, span, name) ==
  span # <<>> => /\ Snug(c, span[1], span[2])
                 /\ \E i \in DOMAIN c.whole :
                      span[1] = i /\ span[2] = Until(c.whole, i) /\ c.whole[i].name = name
ProperInv ==
  AsMeant(container) =>
    /\ parse \notin {"failed", "stuck"}
    /\ LoopsFit(container, loops)
    /\ SpanFits(container, track.media, "mdia") /\ SpanFits(container, track.minf, "minf")

(* What a proper file is made of.                                          *)
LEMMA ProperFacts ==
  ASSUME NEW c, IsContainer(c), AsMeant(c)
  PROVE  /\ Len(c.cells) \in Nat /\ Len(c.whole) \in Nat /\ Len(c.cells) <= Len(c.whole)
         /\ DOMAIN c.cells = 1 .. Len(c.cells) /\ DOMAIN c.whole = 1 .. Len(c.whole)
         /\ c.end = Len(c.cells)
         /\ \A i \in 1 .. Len(c.whole) : c.whole[i].size \in Nat \ {0} /\ Until(c.whole, i) \in Nat
                                        /\ i <= Until(c.whole, i) /\ Until(c.whole, i) <= Len(c.whole)
         /\ \A i, j \in 1 .. Len(c.whole) :
              i < j /\ j <= Until(c.whole, i) => Until(c.whole, j) <= Until(c.whole, i)
         /\ \A i \in 1 .. Len(c.whole) :
              c.whole[i].name \in {"mvhd", "hdlr", "stsd"} => Bodied(c.whole, i)
         /\ \A i \in 1 .. Len(c.whole) : c.whole[i].name \in Describes => Until(c.whole, i) <= Len(c.cells)
<1> DEFINE w == c.whole
<1>1. WellLaid(w)
  BY DEF AsMeant
<1>2. Len(w) \in Nat /\ DOMAIN w = 1 .. Len(w) /\ Len(c.cells) \in Nat /\ DOMAIN c.cells = 1 .. Len(c.cells)
  BY DEF IsContainer
<1>3. Len(c.cells) <= Len(w) /\ c.end = Len(c.cells)
      /\ \A i \in DOMAIN w : w[i].name \in Describes => Until(w, i) <= Len(c.cells)
  BY DEF AsMeant
<1> HIDE DEF w
<1>4. ASSUME NEW i \in 1 .. Len(w)
      PROVE  w[i].size \in Nat \ {0} /\ Until(w, i) \in Nat /\ i <= Until(w, i) /\ Until(w, i) <= Len(w)
  BY <1>1, <1>2 DEF WellLaid, Until
<1>5. \A i, j \in 1 .. Len(w) : i < j /\ j <= Until(w, i) => Until(w, j) <= Until(w, i)
  BY <1>1, <1>2 DEF WellLaid, Around
<1>6. \A i \in 1 .. Len(w) : w[i].name \in {"mvhd", "hdlr", "stsd"} => Bodied(w, i)
  BY <1>1, <1>2 DEF WellLaid
<1> QED BY <1>2, <1>3, <1>4, <1>5, <1>6 DEF w

(* Inside a box that fits there are whole boxes, ...                       *)
LEMMA InsideSnug ==
  ASSUME NEW c, IsContainer(c), AsMeant(c), NEW a, NEW b, Snug(c, a, b), NEW i \in a + 1 .. b
  PROVE  /\ Snug(c, i, Until(c.whole, i)) /\ Until(c.whole, i) <= b /\ c.cells[i] = c.whole[i]
         /\ i \in 1 .. Len(c.whole)
<1> DEFINE w == c.whole
           u == Until(w, i)
<1>1. a \in Nat /\ b \in Nat /\ b <= Len(c.cells) /\ Len(c.cells) \in Nat /\ Len(w) \in Nat
      /\ Len(c.cells) <= Len(w)
  BY ProperFacts DEF Snug
<1>2. i \in 1 .. Len(w) /\ i \in Nat
  BY <1>1
<1>3. u \in Nat /\ i <= u /\ u <= b /\ c.cells[i] = w[i]
  BY <1>1, <1>2, ProperFacts DEF Snug
<1> HIDE DEF u
<1>4. ASSUME NEW j \in i + 1 .. u PROVE Until(w, j) <= u /\ c.cells[j] = w[j]
  <2>1. j \in 1 .. Len(w) /\ j \in a + 1 .. b /\ i < j /\ j <= u
    BY <1>1, <1>2, <1>3
  <2>2. c.cells[j] = w[j]
    BY <2>1 DEF Snug
  <2>3. Until(w, j) <= u
    BY <1>2, <2>1, ProperFacts DEF u
  <2> QED BY <2>2, <2>3
<1>5. Snug(c, i, u)
  BY <1>1, <1>2, <1>3, <1>4 DEF Snug
<1> QED BY <1>2, <1>3, <1>5 DEF u

(* ... also without its first one.                                         *)
LEMMA SnugFrom ==
  ASSUME NEW c, NEW a, NEW b, Snug(c, a, b), NEW m \in a .. b
  PROVE  Snug(c, m, b)
<1>1. a \in Nat /\ b \in Nat /\ m \in Nat /\ m <= b /\ \A j \in m + 1 .. b : j \in a + 1 .. b
  BY DEF Snug
<1> QED BY <1>1 DEF Snug

LEMMA PastOn ==
  ASSUME NEW c, IsContainer(c), AsMeant(c), NEW a \in Nat, NEW p \in Nat, a <= p, PastBoxes(c, a, p),
         p + 1 \in 1 .. Len(c.whole)
  PROVE  PastBoxes(c, a, Until(c.whole, p + 1))
<1> DEFINE w == c.whole
           i == p + 1
           u == Until(w, i)
<1>1. i \in 1 .. Len(w) /\ Len(w) \in Nat
  BY ProperFacts
<1>2. u \in Nat /\ i <= u /\ u <= Len(w)
  BY <1>1, ProperFacts
<1> HIDE DEF u
<1>3. ASSUME NEW j \in a + 1 .. u PROVE Until(w, j) <= u
  <2>0. j \in 1 .. Len(w) /\ Until(w, j) \in Nat
    BY <1>1, <1>2, ProperFacts
  <2>1. CASE j <= p
    <3>1. j \in a + 1 .. p
      BY <1>2, <2>1
    <3>2. Until(w, j) <= p
      BY <3>1 DEF PastBoxes
    <3> QED BY <1>2, <2>0, <3>2
  <2>2. CASE j = p + 1
    BY <1>2, <2>2 DEF u
  <2>3. CASE j > p + 1
    <3>1. i < j /\ j <= u
      BY <2>3
    <3> QED BY <1>1, <2>0, <3>1, ProperFacts DEF u
  <2> QED BY <1>2, <2>0, <2>1, <2>2, <2>3
<1> QED BY <1>3 DEF PastBoxes, u

(* The stack of a parse after a step.                                      *)
LEMMA FitsOn ==
  ASSUME NEW c, NEW S, NEW s \in Seq(S), s # <<>>, LoopsFit(c, s), NEW r \in Seq(S),
         \A k \in 1 .. Len(r) :
           IF Len(s) = 1 /\ k = Len(r) THEN TopFits(c, r[k]) ELSE InFits(c, r[k])
  PROVE  LoopsFit(c, r \o Tail(s))
<1> DEFINE t == r \o Tail(s)
<1>1. /\ t \in Seq(S) /\ Len(t) = Len(r) + Len(s) - 1 /\ Len(r) \in Nat /\ Len(s) \in Nat
      /\ \A i \in 1 .. Len(r) : t[i] = r[i]
      /\ \A i \in Len(r) + 1 .. Len(r) + Len(s) - 1 : t[i] = s[i - Len(r) + 1]
  BY Replaced
<1>2. Len(s) >= 1
  BY <1>1
<1> HIDE DEF t
<1>3. ASSUME NEW k \in 1 .. Len(t) PROVE IF k = Len(t) THEN TopFits(c, t[k]) ELSE InFits(c, t[k])
  <2>1. CASE k <= Len(r)
    <3>1. k \in 1 .. Len(r) /\ t[k] = r[k]
      BY <1>1, <1>3, <2>1
    <3>2. ASSUME k = Len(t) PROVE Len(s) = 1 /\ k = Len(r)
      <4>1. Len(t) = Len(r) + Len(s) - 1 /\ Len(r) \in Nat /\ Len(s) \in Nat /\ k <= Len(r) /\ k = Len(t)
            /\ Len(s) >= 1
        BY <1>1, <1>2, <2>1, <3>2
      <4> DEFINE m == Len(s)
      <4>2. m = Len(s) /\ Len(t) = Len(r) + m - 1 /\ Len(r) \in Nat /\ m \in Nat /\ k <= Len(r) /\ k = Len(t)
            /\ m >= 1
        BY <4>1
      <4> HIDE DEF m
      <4>3. m = 1 /\ k = Len(r)
        BY ONLY <4>2
      <4> QED BY <4>2, <4>3
    <3>3. Len(s) = 1 /\ k = Len(r) => k = Len(t)
      BY <1>1
    <3>4. IF Len(s) = 1 /\ k = Len(r) THEN TopFits(c, r[k]) ELSE InFits(c, r[k])
      BY <3>1
    <3> QED BY <3>1, <3>2, <3>3, <3>4
  <2>2. CASE k > Len(r)
    <3> DEFINE n == k - Len(r) + 1
    <3>1. k \in Len(r) + 1 .. Len(r) + Len(s) - 1 /\ n \in 1 .. Len(s) /\ (k = Len(t) <=> n = Len(s))
      BY <1>1, <1>2, <1>3, <2>2
    <3>2. t[k] = s[n]
      BY <1>1, <3>1
    <3> HIDE DEF n
    <3> QED BY <3>1, <3>2 DEF LoopsFit
  <2> QED BY <1>1, <2>1, <2>2
<1> QED BY <1>3 DEF LoopsFit, t

(* At a box within a describing one, the loop has it as it is meant, ...   *)
LEMMA BoxWithin ==
  ASSUME LoopsInv, AsMeant(container), AtBox, InFits(container, Loop)
  PROVE  LET i == Loop.pos + 1
         IN  /\ Box = container.whole[i] /\ Following = Until(container.whole, i)
             /\ i \in 1 .. Len(container.whole) /\ Following <= Loop.end
             /\ Snug(container, i, Following)
             /\ InFits(container, [Loop EXCEPT !.pos = Following])
<1> DEFINE i == Loop.pos + 1
           w == container.whole
           z == Box.size
           f == Loop
           on == [Loop EXCEPT !.pos = Following]
<1>1. IsContainer(container) /\ loops # <<>>
  BY ContainersAssumption DEF LoopsInv, MediaTyped, AtBox
<1>2. f \in Laps /\ f.pos \in Nat /\ f.end \in Nat /\ f.start \in Nat /\ f.pos < f.end
  BY <1>1, TrackNow DEF Laps, AtBox
<1>3. Snug(container, f.start, f.end) /\ f.start <= f.pos /\ PastBoxes(container, f.start, f.pos)
  BY DEF InFits
<1>4. i \in f.start + 1 .. f.end
  BY <1>2, <1>3
<1>5. /\ Snug(container, i, Until(w, i)) /\ Until(w, i) <= f.end /\ container.cells[i] = w[i]
      /\ i \in 1 .. Len(w)
  BY <1>1, <1>3, <1>4, InsideSnug
<1>6. Box = w[i]
  BY <1>5 DEF Box
<1>7. z \in Nat /\ z > 0 /\ Until(w, i) = f.pos + z
  <2>1. w[i].size \in Nat \ {0}
    BY <1>1, <1>5, ProperFacts
  <2> QED BY <1>2, <1>6, <2>1 DEF Until
<1> HIDE DEF z, f
<1>8. NextBox(f, z) = f.pos + z
  <2>1. Clamped(f, z) = f.pos + z
    BY <1>2, <1>5, <1>7 DEF Clamped
  <2> QED BY <1>7, <2>1 DEF NextBox
<1>9. Following = Until(w, i)
  BY <1>7, <1>8 DEF Following, f, z
<1>10. Following \in Nat /\ f.pos < Following
  BY <1>2, <1>7, <1>9
<1>11. PastBoxes(container, f.start, Following)
  BY <1>1, <1>2, <1>3, <1>5, <1>9, PastOn DEF f
<1>12. on.start = f.start /\ on.pos = Following /\ on.end = f.end /\ on.over = f.over
  BY <1>2 DEF Laps, f
<1> HIDE DEF on
<1>13. OverBox(container, on) /\ on.over # FirstLoop(container.reader)
  <2>1. PICK o \in DOMAIN w : LoopIn(w, f, o)
    BY DEF InFits, OverBox, f
  <2>2. LoopIn(w, on, o)
    BY <1>12, <2>1 DEF LoopIn
  <2>3. f.over # FirstLoop(container.reader)
    BY DEF InFits, f
  <2> QED BY <1>12, <2>2, <2>3 DEF OverBox
<1>14. InFits(container, on)
  BY <1>2, <1>3, <1>5, <1>9, <1>10, <1>11, <1>12, <1>13 DEF InFits
<1> QED BY <1>5, <1>6, <1>9, <1>14 DEF on, f

(* ... and at the top, whole if it describes the tracks.                   *)
LEMMA BoxAtTop ==
  ASSUME LoopsInv, AsMeant(container), AtBox, TopFits(container, Loop)
  PROVE  LET i == Loop.pos + 1
         IN  /\ Following > Loop.pos /\ Following \in Nat /\ i \in 1 .. Len(container.whole)
             /\ Box.name = container.whole[i].name
             /\ TopFits(container, [Loop EXCEPT !.pos = Following])
             /\ Box.name \in Describes =>
                  /\ Following = Until(container.whole, i) /\ Snug(container, i, Following)
                  /\ Box.size = 0 \/ Box = container.whole[i]
<1> DEFINE i == Loop.pos + 1
           w == container.whole
           z == Box.size
           f == Loop
           on == [Loop EXCEPT !.pos = Following]
           r == container.reader
           n == Len(container.cells)
<1>1. IsContainer(container) /\ loops # <<>> /\ r \in {"mp4", "m4a", "mkv", "avi"}
  BY ContainersAssumption DEF LoopsInv, MediaTyped, AtBox, IsContainer
<1>2. f \in Laps /\ f.pos \in Nat /\ f.end \in Nat /\ f.pos < f.end /\ f.end = n /\ f.over = FirstLoop(r)
  BY <1>1, TrackNow DEF Laps, AtBox, TopFits
<1>3. i \in 1 .. n /\ i \in 1 .. Len(w) /\ n \in Nat /\ Len(w) \in Nat /\ n <= Len(w) /\ i = f.pos + 1
  BY <1>1, <1>2, ProperFacts
<1>4. PastBoxes(container, 0, f.pos)
  BY <1>2 DEF TopFits
<1>5. Box = container.cells[i]
  BY DEF Box
<1>6. \/ Box = w[i]
      \/ /\ r # "avi" /\ w[i].name \in {"moov", "mdat", "Cluster"} /\ Until(w, i) = Len(w)
         /\ Box = [w[i] EXCEPT !.size = 0]
  <2>1. i \in DOMAIN container.cells
    BY <1>1, <1>3, ProperFacts
  <2> QED BY <1>5, <2>1 DEF AsMeant
<1>7. Box.name = w[i].name
  <2>1. DOMAIN w[i] = {"name", "size", "val"}
    BY <1>1, <1>3 DEF IsContainer
  <2> QED BY <1>6, <2>1
<1>8. w[i].size \in Nat \ {0} /\ Until(w, i) = f.pos + w[i].size /\ Until(w, i) \in Nat
      /\ Until(w, i) <= Len(w)
  <2>1. w[i].size \in Nat \ {0} /\ Until(w, i) \in Nat /\ Until(w, i) <= Len(w)
    BY <1>1, <1>3, ProperFacts
  <2> HIDE DEF w, f, i
  <2>2. Until(w, i) = f.pos + w[i].size
    BY <1>2, <1>3, <2>1 DEF Until
  <2> QED BY <2>1, <2>2
<1>9. z \in Nat
  BY <1>1, NextAhead
<1> HIDE DEF f, i, n
<1>10. /\ r \in {"mp4", "m4a"} => NextBox(f, z) = Clamped(f, z)
       /\ r = "mkv" => NextBox(f, z) = IF z = 0 THEN f.end ELSE f.pos + z
       /\ r = "avi" /\ z > 0 => NextBox(f, z) = f.pos + z
  <2>1. r \in {"mp4", "m4a"} => f.over \in {"film", "sound"}
    BY <1>2 DEF FirstLoop
  <2>2. r = "mkv" => f.over = "Segment"
    BY <1>2 DEF FirstLoop
  <2>3. r = "avi" => f.over = "RIFF"
    BY <1>2 DEF FirstLoop
  <2>4. r \in {"mp4", "m4a"} => NextBox(f, z) = Clamped(f, z)
    BY <2>1 DEF NextBox, Ebml, Riff, Unclamped
  <2>5. r = "mkv" => NextBox(f, z) = IF z = 0 THEN f.end ELSE f.pos + z
    BY <1>9, <2>2 DEF NextBox, Ebml, Riff, Unclamped
  <2>6. r = "avi" /\ z > 0 => NextBox(f, z) = f.pos + z
    BY <1>9, <2>3 DEF NextBox, Ebml, Riff, Unclamped
  <2> QED BY <2>4, <2>5, <2>6
<1>11. Following = NextBox(f, z)
  BY DEF Following, f
<1> HIDE DEF r, z
<1>12. ASSUME z # 0
       PROVE  /\ Following \in Nat /\ Following > f.pos
              /\ Following < f.end => PastBoxes(container, 0, Following)
              /\ Box.name \in Describes => Following = Until(w, i) /\ Box = w[i]
  <2>1. Box = w[i] /\ z = w[i].size
    <3>1. ASSUME Box = [w[i] EXCEPT !.size = 0] PROVE w[i].size = 0 \/ z = 0
      BY <1>8, <3>1 DEF z
    <3> QED BY <1>6, <1>8, <1>12, <3>1 DEF z
  <2>2. Clamped(f, z) = IF Until(w, i) > f.end THEN f.end ELSE Until(w, i)
    BY <1>2, <1>8, <1>12, <2>1 DEF Clamped
  <2>3. Following = Until(w, i) \/ (Following = f.end /\ Until(w, i) > f.end)
    BY <1>1, <1>8, <1>9, <1>10, <1>11, <1>12, <2>1, <2>2
  <2>4. Until(w, i) > f.pos
    BY <1>2, <1>8
  <2>5. Following \in Nat /\ Following > f.pos
    BY <1>2, <1>8, <2>3, <2>4
  <2>6. Following < f.end => PastBoxes(container, 0, Following)
    <3>1. PastBoxes(container, 0, Until(w, i))
      BY <1>1, <1>2, <1>3, <1>4, PastOn
    <3> QED BY <1>2, <1>8, <2>3, <3>1
  <2>7. Box.name \in Describes => Until(w, i) <= f.end
    BY <1>1, <1>2, <1>3, <1>7, ProperFacts DEF n
  <2>8. Box.name \in Describes => Following = Until(w, i)
    BY <1>2, <1>8, <2>3, <2>7
  <2> HIDE DEF w
  <2> QED BY <2>1, <2>5, <2>6, <2>8
<1>13. ASSUME z = 0
       PROVE  /\ Following \in Nat /\ Following > f.pos
              /\ Following < f.end => PastBoxes(container, 0, Following)
              /\ Box.name \in Describes => Following = Until(w, i)
  <2>1. Box # w[i] /\ r # "avi" /\ Until(w, i) = Len(w)
    BY <1>6, <1>8, <1>13 DEF z
  <2>2. Following = f.end
    BY <1>1, <1>10, <1>11, <1>13, <2>1 DEF Clamped
  <2>3. Box.name \in Describes => f.end = Until(w, i)
    <3>1. Box.name \in Describes => Until(w, i) <= n
      BY <1>1, <1>3, <1>7, ProperFacts DEF n
    <3> QED BY <1>2, <1>3, <1>8, <2>1, <3>1
  <2> QED BY <1>2, <2>2, <2>3
<1>14. /\ Following \in Nat /\ Following > f.pos
       /\ Following < f.end => PastBoxes(container, 0, Following)
       /\ Box.name \in Describes => Following = Until(w, i) /\ (z = 0 \/ Box = w[i])
  BY <1>12, <1>13
<1>15. ASSUME Box.name \in Describes PROVE Snug(container, i, Following)
  <2> DEFINE u == Until(w, i)
  <2>1. Following = u /\ u \in Nat /\ i <= u /\ u <= n
    BY <1>1, <1>3, <1>7, <1>14, <1>15, ProperFacts DEF n
  <2>2. ASSUME NEW j \in i + 1 .. u PROVE Until(w, j) <= u /\ container.cells[j] = w[j]
    <3>1. j \in 1 .. Len(w) /\ j \in 1 .. n /\ i < j /\ j <= u /\ i \in 1 .. j - 1
      BY <1>2, <1>3, <2>1
    <3>2. Until(w, j) <= u
      BY <1>1, <1>3, <3>1, ProperFacts
    <3>3. Around(w, i, j)
      BY <3>1 DEF Around
    <3>4. container.cells[j] = w[j]
      <4>1. j \in DOMAIN container.cells
        BY <1>1, <3>1, ProperFacts DEF n
      <4> QED BY <3>1, <3>3, <4>1 DEF AsMeant
    <3> QED BY <3>2, <3>4
  <2>3. i \in Nat
    BY <1>2, <1>3
  <2> HIDE DEF u
  <2>4. Snug(container, i, u)
    BY <2>1, <2>2, <2>3 DEF Snug, n
  <2> QED BY <2>1, <2>4
<1>16. on.pos = Following /\ on.end = f.end /\ on.over = f.over
  BY <1>2 DEF Laps, f
<1> HIDE DEF on
<1>17. TopFits(container, on)
  BY <1>2, <1>14, <1>16 DEF TopFits, n, r
<1> HIDE DEF w
<1>18. /\ Following > Loop.pos /\ Following \in Nat /\ i \in 1 .. Len(w) /\ Box.name = w[i].name
       /\ TopFits(container, on)
       /\ Box.name \in Describes =>
            /\ Following = Until(w, i) /\ Snug(container, i, Following)
            /\ Box.size = 0 \/ Box = w[i]
  BY <1>3, <1>7, <1>14, <1>15, <1>17 DEF f, z
<1> QED BY <1>18 DEF on, w, i

-----------------------------------------------------------------------------
(* The stack of a parse of a proper file, step by step.                    *)
Tops == {"film", "sound", "Segment", "RIFF"}
LEMMA HeadFits ==
  ASSUME LoopsInv, ProperInv, AsMeant(container), loops # <<>>
  PROVE  /\ loops \in Seq(Laps) /\ IsContainer(container) /\ LoopsFit(container, loops)
         /\ SpanFits(container, track.media, "mdia") /\ SpanFits(container, track.minf, "minf")
         /\ IF Len(loops) = 1 THEN TopFits(container, Loop) ELSE InFits(container, Loop)
         /\ Loop.over \notin Tops => InFits(container, Loop) /\ Len(loops) # 1
<1>1. loops \in Seq(Laps) /\ IsContainer(container)
  BY ContainersAssumption DEF LoopsInv, MediaTyped
<1>2. /\ LoopsFit(container, loops) /\ SpanFits(container, track.media, "mdia") /\ SpanFits(container, track.minf, "minf")
  BY DEF ProperInv
<1>3. Loop = loops[1] /\ Len(loops) \in Nat /\ Len(loops) >= 1
  <2> HIDE DEF Laps
  <2> QED BY <1>1, HeadTailProperties DEF Loop
<1>4. IF Len(loops) = 1 THEN TopFits(container, Loop) ELSE InFits(container, Loop)
  <2>1. 1 \in 1 .. Len(loops)
    BY <1>3
  <2> QED BY <1>2, <1>3, <2>1 DEF LoopsFit
<1>5. FirstLoop(container.reader) \in Tops
  BY <1>1 DEF IsContainer, FirstLoop, Tops
<1> QED BY <1>1, <1>2, <1>4, <1>5 DEF TopFits

LEMMA InsteadProper ==
  ASSUME LoopsInv, ProperInv, AsMeant(container), loops # <<>>, NEW r \in Seq(Laps),
         loops' = r \o Tail(loops),
         \A k \in 1 .. Len(r) :
           IF Len(loops) = 1 /\ k = Len(r) THEN TopFits(container, r[k]) ELSE InFits(container, r[k])
  PROVE  LoopsFit(container, loops')
<1> DEFINE t == r \o Tail(loops)
<1>1. loops \in Seq(Laps) /\ LoopsFit(container, loops) /\ r \in Seq(Laps)
  BY HeadFits
<1>2. LoopsFit(container, t)
  <2> HIDE DEF Laps
  <2> QED BY <1>1, FitsOn
<1> QED BY <1>2

LEMMA OnwardProper ==
  ASSUME LoopsInv, ProperInv, AsMeant(container), AtBox, NEW inner \in Seq(Laps),
         \A k \in 1 .. Len(inner) : InFits(container, inner[k]), Onward(inner)
  PROVE  LoopsFit(container, loops') /\ parse' = "reading"
<1> DEFINE on == [Loop EXCEPT !.pos = Following]
           r == inner \o <<on>>
<1>1. on \in Laps /\ loops # <<>> /\ loops' = r \o Tail(loops)
  BY OnwardFacts
<1>2. parse' = IF Following <= Loop.pos THEN "stuck" ELSE "reading"
  BY DEF Onward
<1>3. IF Len(loops) = 1 THEN TopFits(container, Loop) ELSE InFits(container, Loop)
  BY <1>1, HeadFits
<1>4. IF Len(loops) = 1 THEN TopFits(container, on) ELSE InFits(container, on)
  BY <1>3, BoxWithin, BoxAtTop
<1>5. Following \in Nat /\ Loop.pos \in Nat /\ Following > Loop.pos
  <2>1. Following \in Nat /\ Loop.pos \in Nat /\ (Following <= Loop.pos => Box.size = 0)
    BY NextAhead DEF Laps
  <2>2. CASE Len(loops) = 1
    BY <1>3, <2>2, <2>1, BoxAtTop
  <2>3. CASE Len(loops) # 1
    <3>1. Box = container.whole[Loop.pos + 1] /\ Loop.pos + 1 \in 1 .. Len(container.whole)
      BY <1>3, <2>3, BoxWithin
    <3>2. Box.size # 0
      BY <1>1, <3>1, HeadFits, ProperFacts
    <3> QED BY <2>1, <3>2
  <2> QED BY <2>2, <2>3
<1> HIDE DEF on
<1>6. r \in Seq(Laps) /\ Len(r) = Len(inner) + 1 /\ Len(inner) \in Nat /\ r[Len(r)] = on
      /\ \A k \in 1 .. Len(inner) : r[k] = inner[k]
  <2> HIDE DEF Laps
  <2> QED BY <1>1
<1> HIDE DEF r
<1>7. ASSUME NEW k \in 1 .. Len(r)
      PROVE  IF Len(loops) = 1 /\ k = Len(r) THEN TopFits(container, r[k]) ELSE InFits(container, r[k])
  <2>1. CASE k = Len(r)
    BY <1>4, <1>6, <2>1
  <2>2. CASE k # Len(r)
    <3>1. k \in 1 .. Len(inner)
      BY <1>6, <2>2
    <3> QED BY <1>6, <2>2, <3>1
  <2> QED BY <2>1, <2>2
<1>8. LoopsFit(container, loops')
  BY <1>1, <1>6, <1>7, InsteadProper
<1> QED BY <1>2, <1>5, <1>8

LEMMA ProperStep ==
  ASSUME container' = container,
         AsMeant(container) =>
           /\ parse' \notin {"failed", "stuck"} /\ LoopsFit(container, loops')
           /\ SpanFits(container, track'.media, "mdia") /\ SpanFits(container, track'.minf, "minf")
  PROVE  ProperInv'
  BY DEF ProperInv

LEMMA OnProper ==
  ASSUME LoopsInv, ProperInv, AtBox, Onward(<<>>), container' = container,
         track'.media = track.media, track'.minf = track.minf
  PROVE  ProperInv'
<1>1. ASSUME AsMeant(container)
      PROVE  /\ parse' \notin {"failed", "stuck"} /\ LoopsFit(container, loops')
             /\ SpanFits(container, track'.media, "mdia") /\ SpanFits(container, track'.minf, "minf")
  <2>1. <<>> \in Seq(Laps) /\ \A k \in 1 .. Len(<<>>) : InFits(container, <<>>[k])
    OBVIOUS
  <2>2. LoopsFit(container, loops') /\ parse' = "reading"
    <3> DEFINE inner == <<>>
    <3>1. inner \in Seq(Laps) /\ \A k \in 1 .. Len(inner) : InFits(container, inner[k])
      BY <2>1
    <3>2. Onward(inner)
      OBVIOUS
    <3> HIDE DEF inner
    <3> QED BY <1>1, <3>1, <3>2, OnwardProper
  <2>3. loops # <<>>
    BY DEF AtBox
  <2> QED BY <1>1, <2>2, <2>3, HeadFits
<1> QED BY <1>1, ProperStep

LEMMA SkipProper == LoopsInv /\ ProperInv /\ SkipBox => ProperInv'
  BY OnProper DEF SkipBox

LEMMA TimesProper == LoopsInv /\ ProperInv /\ ReadTimes => ProperInv'
  BY OnProper DEF ReadTimes

LEMMA StreamProper == LoopsInv /\ ProperInv /\ ReadStream => ProperInv'
<1> SUFFICES ASSUME LoopsInv, ProperInv, ReadStream PROVE ProperInv'
  OBVIOUS
<1>1. AtBox /\ loops # <<>> /\ container' = container /\ Onward(<<>>)
      /\ \E k : track' = [track EXCEPT !.kind = k] \/ track' = track
  BY DEF ReadStream, AtBox
<1>2. DOMAIN track = DOMAIN NoTrack
  BY <1>1, TrackNow
<1>3. track'.media = track.media /\ track'.minf = track.minf
  BY <1>1, <1>2 DEF NoTrack
<1> QED BY <1>1, <1>3, OnProper

(* Which boxes are entered at the top, and where a table is.               *)
LEMMA EntersProper ==
  \A e \in Enters :
    /\ e[1] \in Tops => e[2] \in Describes
    /\ e[3] \notin Tops /\ (e[3] \in {"stsd", "soundStsd"} <=> e[2] = "stsd")
    /\ e[2] = "stsd" => e[1] \notin Tops
    /\ e[3] \notin {"entry", "soundEntry"}
<1> DEFINE P(e) == /\ e[1] \in Tops => e[2] \in Describes
                   /\ e[3] \notin Tops /\ (e[3] \in {"stsd", "soundStsd"} <=> e[2] = "stsd")
                   /\ e[2] = "stsd" => e[1] \notin Tops
                   /\ e[3] \notin {"entry", "soundEntry"}
<1>1. \A e \in FilmEnters : P(e)
  BY DEF FilmEnters, Tops, Describes
<1>2. \A e \in SoundEnters : P(e)
  BY DEF SoundEnters, Tops, Describes
<1>3. \A e \in SegmentEnters : P(e)
  BY DEF SegmentEnters, Tops, Describes
<1>4. \A e \in AviEnters : P(e)
  BY DEF AviEnters, Tops, Describes
<1> QED BY <1>1, <1>2, <1>3, <1>4 DEF Enters

(* What must be read is a header's or a kind's box.                        *)
LEMMA FieldsFail ==
  \A d \in FieldReads : d.unread = "fail" =>
    \/ d.at \in {<<"moov", "mvhd">>, <<"soundMoov", "mvhd">>} /\ d.length = "rest"
    \/ d.at = <<"mdia", "hdlr">> /\ d.length = "fixed"
<1> DEFINE P(d) == d.unread = "fail" =>
                     \/ d.at \in {<<"moov", "mvhd">>, <<"soundMoov", "mvhd">>} /\ d.length = "rest"
                     \/ d.at = <<"mdia", "hdlr">> /\ d.length = "fixed"
<1>1. \A d \in MediaFields : P(d)
  BY DEF MediaFields, Field
<1>2. \A d \in EntryFields : P(d)
  BY DEF EntryFields, Field
<1>3. \A d \in TrackFields : P(d)
  BY DEF TrackFields, Field
<1>4. P(MovieField("moov")) /\ P(MovieField("soundMoov")) /\ P(TurnField)
  BY DEF MovieField, TurnField, Field
<1>5. P(SoundField) /\ P(LengthField) /\ P(AviField)
  BY DEF SoundField, LengthField, AviField, Field
<1> HIDE DEF P
<1>6. \A d \in FieldReads : P(d)
  BY <1>1, <1>2, <1>3, <1>4, <1>5 DEF FieldReads
<1> QED BY <1>6 DEF P

(* A box with a body where one is needed.                                  *)
LEMMA BodyThere ==
  ASSUME LoopsInv, AsMeant(container), AtBox, InFits(container, Loop), Box.size > 1
  PROVE  /\ HasBody /\ OwnLength /\ Snug(container, Loop.pos + 2, Following)
<1> DEFINE i == Loop.pos + 1
           w == container.whole
<1>1. /\ Box = w[i] /\ Following = Until(w, i) /\ i \in 1 .. Len(w) /\ Following <= Loop.end
      /\ Snug(container, i, Following)
  BY BoxWithin
<1>2. IsContainer(container) /\ Loop.pos \in Nat /\ loops # <<>>
  BY TrackNow, ContainersAssumption DEF LoopsInv, MediaTyped, AtBox, Laps
<1>3. w[i].size \in Nat
  BY <1>1, <1>2, ProperFacts
<1>4. Following = Loop.pos + Box.size
  <2> DEFINE z == Box.size
  <2>1. z \in Nat /\ w[i].size = z
    BY <1>1, <1>3
  <2> HIDE DEF z, w
  <2> QED BY <1>1, <1>2, <2>1 DEF Until, z
<1>5. Following <= Length /\ Following \in Nat
  BY <1>1 DEF Snug, Length
<1>6. Length \in Nat /\ Box.size \in Nat
  BY <1>1, <1>2, <1>3 DEF IsContainer, Length
<1>7. Loop.pos + 2 <= Following
  BY <1>2, <1>4, <1>6
<1>8. HasBody /\ OwnLength
  BY <1>2, <1>4, <1>5, <1>6, <1>7 DEF HasBody, OwnLength
<1>9. Snug(container, Loop.pos + 2, Following)
  <2> DEFINE m == Loop.pos + 2
             u == Following
  <2>1. m \in i .. u /\ Snug(container, i, u)
    BY <1>1, <1>2, <1>5, <1>7
  <2> HIDE DEF m, u, i
  <2>2. Snug(container, m, u)
    BY <2>1, SnugFrom
  <2> QED BY <2>2 DEF m, u
<1> QED BY <1>8, <1>9

(* The next one of the loop's boxes is in the box that it is over.         *)
LEMMA NextIsChild ==
  ASSUME NEW c, IsContainer(c), AsMeant(c), NEW l, InFits(c, l), NEW i \in DOMAIN c.whole,
         LoopIn(c.whole, l, i), l.pos \in Nat, l.pos < l.end
  PROVE  /\ Child(c.whole, i, l.pos + 1) /\ c.cells[l.pos + 1] = c.whole[l.pos + 1]
         /\ l.start = i + 1 => l.pos + 1 > i + 1
<1> DEFINE j == l.pos + 1
           w == c.whole
           a == l.start
           p == l.pos
           u == l.end
<1>1. a \in Nat /\ u \in Nat /\ a <= p /\ p < u /\ p \in Nat /\ Snug(c, a, u) /\ PastBoxes(c, a, p)
  BY DEF InFits, Snug
<1>2. i \in Nat /\ i \in 1 .. Len(w) /\ DOMAIN w = 1 .. Len(w) /\ Len(w) \in Nat
  BY DEF IsContainer
<1>3. u = Until(w, i) /\ (a = i \/ (a = i + 1 /\ w[i + 1].size = 1))
  BY DEF LoopIn, Bodied
<1>4. c.cells[j] = w[j]
  <2>1. j \in a + 1 .. u
    BY <1>1
  <2> QED BY <1>1, <2>1 DEF Snug
<1> HIDE DEF a, p, u
<1>5. j = p + 1
  BY DEF p
<1> HIDE DEF j, w
<1>6. i < j /\ j <= u /\ (a = i + 1 => j > i + 1)
  BY <1>1, <1>2, <1>3, <1>5
<1>7. Around(w, i, j)
  BY <1>3, <1>6 DEF Around
<1>8. ASSUME NEW k \in i + 1 .. j - 1 PROVE ~Around(w, k, j)
  <2>1. k \in Nat /\ k < j /\ k >= i + 1
    BY <1>1, <1>2, <1>5
  <2>2. CASE k \in a + 1 .. p
    <3>1. Until(w, k) <= p
      BY <1>1, <2>2 DEF PastBoxes, w
    <3>2. k \in 1 .. Len(w)
      <4>1. Snug(c, a, u) /\ u <= Len(c.cells) /\ Len(c.cells) \in Nat /\ Len(c.cells) <= Len(w)
        BY <1>1, ProperFacts DEF Snug, w
      <4> QED BY <1>1, <1>2, <2>1, <2>2, <4>1
    <3>3. Until(w, k) \in Nat
      BY <3>2, ProperFacts DEF w
    <3> QED BY <1>1, <1>5, <3>1, <3>3 DEF Around
  <2>3. CASE k \notin a + 1 .. p
    <3>1. k = i + 1 /\ w[i + 1].size = 1
      BY <1>1, <1>2, <1>3, <1>5, <2>1, <2>3
    <3>2. Until(w, k) = k
      BY <2>1, <3>1 DEF Until
    <3> QED BY <1>1, <1>5, <2>1, <3>2 DEF Around
  <2> QED BY <2>2, <2>3
<1>9. Child(w, i, j)
  BY <1>7, <1>8 DEF Child
<1>10. l.start = i + 1 => j > i + 1
  BY <1>6 DEF a
<1> QED BY <1>4, <1>9, <1>10 DEF w, j

LEMMA LoopNamesTabled ==
  \A q \in LoopNames : q[1] \in {"stsd", "soundStsd"} => q[2] = "stsd"
  BY EntersProper DEF LoopNames

LEMMA EntryBody ==
  ASSUME LoopsInv, AsMeant(container), AtBox, InFits(container, Loop),
         Loop.over \in {"stsd", "soundStsd"}
  PROVE  LET j == Loop.pos + 1
         IN  /\ Bodied(container.whole, j)
             /\ \E i \in DOMAIN container.whole : Sample(container.whole, i, j)
<1> DEFINE j == Loop.pos + 1
           w == container.whole
<1>1. Box = w[j] /\ j \in 1 .. Len(w)
  BY BoxWithin
<1>2. PICK i \in DOMAIN w : LoopIn(w, Loop, i)
  BY DEF InFits, OverBox
<1>3. w[i].name = "stsd" /\ Loop.start = i + 1
  <2>1. <<Loop.over, w[i].name>> \in LoopNames /\ Loop.start = i + 1
    BY <1>2 DEF LoopIn
  <2> QED BY <2>1, LoopNamesTabled
<1>4. IsContainer(container) /\ Loop.pos \in Nat /\ Loop.pos < Loop.end
  BY TrackNow, ContainersAssumption DEF LoopsInv, MediaTyped, AtBox, Laps
<1>5. Child(w, i, j) /\ j > i + 1
  BY <1>2, <1>3, <1>4, NextIsChild
<1>6. WellLaid(w) /\ DOMAIN w = 1 .. Len(w)
  BY <1>4 DEF AsMeant, IsContainer
<1> HIDE DEF j, w
<1>7. Sample(w, i, j)
  BY <1>3, <1>5 DEF Sample
<1>8. Bodied(w, j)
  BY <1>1, <1>6, <1>7 DEF WellLaid
<1> QED BY <1>7, <1>8 DEF w, j

LEMMA EnterProper == LoopsInv /\ ProperInv /\ EnterBox => ProperInv'
<1> SUFFICES ASSUME LoopsInv, ProperInv, EnterBox, AsMeant(container)
             PROVE  /\ container' = container /\ parse' \notin {"failed", "stuck"}
                    /\ LoopsFit(container, loops')
                    /\ SpanFits(container, track'.media, "mdia") /\ SpanFits(container, track'.minf, "minf")
  BY ProperStep DEF EnterBox
<1> DEFINE table == Box.name = "stsd"
           from == Loop.pos + (IF table THEN 2 ELSE 1)
           inner(over) == LoopOver(over, from, Following)
           ended == [Loop EXCEPT !.pos = Loop.end]
           i == Loop.pos + 1
           w == container.whole
<1>1. AtBox /\ loops # <<>> /\ container' = container
  BY DEF EnterBox, AtBox
<1>2. PICK e \in Enters :
        /\ Here = <<e[1], e[2]>>
        /\ \/ table /\ ~HasBody /\ Fails
           \/ /\ IF Loop.over \in Descending
                 THEN /\ loops' = <<inner(e[3]), ended>> \o Tail(loops)
                      /\ UNCHANGED parse
                 ELSE Onward(<<inner(e[3])>>)
              /\ track' = IF e[3] \in {"findMedia", "TrackEntry", "strl"} THEN NoTrack ELSE track
  BY DEF EnterBox
<1>3. e[1] = Loop.over /\ e[2] = Box.name
  BY <1>2 DEF Here
<1>4. /\ loops \in Seq(Laps) /\ IsContainer(container)
      /\ SpanFits(container, track.media, "mdia") /\ SpanFits(container, track.minf, "minf")
      /\ IF Len(loops) = 1 THEN TopFits(container, Loop) ELSE InFits(container, Loop)
      /\ Loop.over \notin Tops => InFits(container, Loop) /\ Len(loops) # 1
  BY <1>1, HeadFits
<1>5. Loop.pos \in Nat /\ Loop.end \in Nat /\ Loop \in Laps /\ container.reader \in {"mp4", "m4a", "mkv", "avi"}
  BY <1>1, TrackNow DEF Laps
<1>6. FirstLoop(container.reader) \in Tops
  BY <1>5 DEF FirstLoop, Tops
<1>7. /\ Snug(container, i, Following) /\ i \in 1 .. Len(w) /\ Following = Until(w, i)
      /\ Box.name = w[i].name
  <2>1. CASE InFits(container, Loop)
    BY <1>1, <2>1, BoxWithin
  <2>2. CASE TopFits(container, Loop)
    <3>1. Loop.over \in Tops
      BY <1>6, <2>2 DEF TopFits
    <3>2. Box.name \in Describes
      BY <1>3, <3>1, EntersProper
    <3> QED BY <1>1, <2>2, <3>2, BoxAtTop
  <2> QED BY <1>4, <2>1, <2>2
<1>8. ASSUME table
      PROVE  /\ HasBody /\ Snug(container, Loop.pos + 2, Following) /\ Bodied(w, i)
  <2>1. InFits(container, Loop)
    BY <1>3, <1>4, <1>8, EntersProper
  <2>2. Bodied(w, i)
    <3>1. w[i].name = "stsd"
      BY <1>7, <1>8
    <3> QED BY <1>4, <1>7, <3>1, ProperFacts
  <2>3. Box = w[i]
    BY <1>1, <2>1, BoxWithin
  <2>4. Box.size > 1
    BY <2>2, <2>3 DEF Bodied
  <2> QED BY <1>1, <2>1, <2>2, <2>4, BodyThere
<1>9. ~(table /\ ~HasBody)
  BY <1>8
<1> DEFINE x == inner(e[3])
<1>10. x.over = e[3] /\ x.start = from /\ x.pos = from /\ x.end = Following /\ from \in Nat
  BY <1>5 DEF LoopOver
<1>11. Following \in Nat
  BY <1>1, NextAhead
<1>12. e[3] \in Overs(container.reader)
  BY <1>3, <1>5, EntersOwn DEF Laps
<1>13. x \in Laps
  BY <1>10, <1>11, <1>12 DEF LoopOver, Laps
<1>14. Snug(container, from, Following) /\ from <= Following
  <2>1. CASE table
    BY <1>8, <2>1 DEF Snug
  <2>2. CASE ~table
    BY <1>7, <2>2 DEF Snug
  <2> QED BY <2>1, <2>2
<1>15. OverBox(container, x)
  <2>1. e[3] \notin {"entry", "soundEntry"} /\ (e[3] \in {"stsd", "soundStsd"} <=> table)
    BY <1>3, EntersProper
  <2>2. <<e[3], w[i].name>> \in LoopNames
    BY <1>3, <1>7 DEF LoopNames
  <2>3. i \in DOMAIN w
    BY <1>4, <1>7 DEF IsContainer
  <2>4. table => from = i + 1 /\ Bodied(w, i)
    BY <1>5, <1>8
  <2>5. ~table => from = i
    BY <1>5
  <2> HIDE DEF x, from, i, table
  <2>6. LoopIn(w, x, i)
    BY <1>7, <1>10, <2>1, <2>2, <2>4, <2>5 DEF LoopIn
  <2> QED BY <2>3, <2>6 DEF OverBox
<1>16. InFits(container, x)
  <2>1. x.over # FirstLoop(container.reader)
    BY <1>6, <1>10, EntersProper
  <2>2. PastBoxes(container, from, from)
    BY <1>10 DEF PastBoxes
  <2> HIDE DEF x, from
  <2> QED BY <1>10, <1>14, <1>15, <2>1, <2>2 DEF InFits
<1>17. SpanFits(container, track'.media, "mdia") /\ SpanFits(container, track'.minf, "minf")
  <2>1. track' = NoTrack \/ track' = track
    BY <1>2, <1>9
  <2>2. NoTrack.media = <<>> /\ NoTrack.minf = <<>>
    BY DEF NoTrack
  <2> QED BY <1>4, <2>1, <2>2 DEF SpanFits
<1> HIDE DEF x
<1>18. CASE Loop.over \notin Descending
  <2> DEFINE one == <<x>>
  <2>1. Onward(one)
    BY <1>2, <1>9, <1>18 DEF x
  <2>2. one \in Seq(Laps) /\ Len(one) = 1 /\ one[1] = x
    <3> HIDE DEF Laps
    <3> QED BY <1>13
  <2> HIDE DEF one
  <2>3. \A k \in 1 .. Len(one) : InFits(container, one[k])
    BY <1>16, <2>2
  <2>4. LoopsFit(container, loops') /\ parse' = "reading"
    BY <1>1, <2>1, <2>2, <2>3, OnwardProper
  <2> QED BY <1>1, <1>17, <2>4
<1>19. CASE Loop.over \in Descending
  <2> DEFINE r == <<x, ended>>
  <2>1. loops' = r \o Tail(loops) /\ parse' = parse
    BY <1>2, <1>9, <1>19 DEF x
  <2>2. InFits(container, Loop) /\ Len(loops) # 1
    BY <1>4, <1>19 DEF Descending, Tops
  <2>3. ended.start = Loop.start /\ ended.pos = Loop.end /\ ended.end = Loop.end /\ ended.over = Loop.over
        /\ ended \in Laps
    BY <1>5 DEF Laps
  <2> HIDE DEF ended
  <2>4. InFits(container, ended)
    <3>1. PastBoxes(container, Loop.start, Loop.end) /\ Loop.start <= Loop.end
      BY <2>2 DEF InFits, Snug, PastBoxes
    <3>2. OverBox(container, ended)
      BY <2>2, <2>3 DEF InFits, OverBox, LoopIn
    <3>3. Loop.end <= Loop.end
      BY <1>5
    <3> QED BY <2>2, <2>3, <3>1, <3>2, <3>3 DEF InFits
  <2>5. r \in Seq(Laps) /\ Len(r) = 2 /\ r[1] = x /\ r[2] = ended
    <3> HIDE DEF Laps
    <3> QED BY <1>13, <2>3
  <2> HIDE DEF r
  <2>6. \A k \in 1 .. Len(r) :
          IF Len(loops) = 1 /\ k = Len(r) THEN TopFits(container, r[k]) ELSE InFits(container, r[k])
    BY <1>16, <2>2, <2>4, <2>5
  <2>7. LoopsFit(container, loops')
    BY <1>1, <2>1, <2>5, <2>6, InsteadProper
  <2>8. parse' = "reading"
    BY <1>1, <2>1 DEF AtBox
  <2> QED BY <1>1, <1>17, <2>7, <2>8
<1> QED BY <1>18, <1>19

LEMMA ReadProper == LoopsInv /\ ProperInv /\ ReadField => ProperInv'
<1> SUFFICES ASSUME LoopsInv, ProperInv, ReadField PROVE ProperInv'
  OBVIOUS
<1>1. AtBox /\ loops # <<>> /\ container' = container
  BY DEF ReadField, AtBox
<1>2. DOMAIN track = DOMAIN NoTrack
  BY <1>1, TrackNow
<1>3. PICK d \in FieldReads :
        /\ d.at = Here
        /\ \/ ~CanRead(d.length) /\ d.unread = "fail" /\ Fails
           \/ Onward(<<>>) /\ track' = track
           \/ Onward(<<>>) /\ track' = WithFields(track, d, CanRead(d.length))
  BY DEF ReadField
<1>4. CASE ~CanRead(d.length) /\ d.unread = "fail" /\ Fails
  <2>1. ASSUME AsMeant(container) PROVE FALSE
    <3>1. \/ d.at \in {<<"moov", "mvhd">>, <<"soundMoov", "mvhd">>} /\ d.length = "rest"
          \/ d.at = <<"mdia", "hdlr">> /\ d.length = "fixed"
      BY <1>4, FieldsFail
    <3>2. Loop.over \notin Tops /\ Box.name \in {"mvhd", "hdlr"}
      BY <1>3, <3>1 DEF Here, Tops
    <3>3. InFits(container, Loop) /\ IsContainer(container)
      BY <1>1, <2>1, <3>2, HeadFits
    <3>4. Box.size > 1
      <4>1. Box = container.whole[Loop.pos + 1] /\ Loop.pos + 1 \in 1 .. Len(container.whole)
        BY <1>1, <2>1, <3>3, BoxWithin
      <4>2. container.whole[Loop.pos + 1].name \in {"mvhd", "hdlr", "stsd"}
        BY <3>2, <4>1
      <4>3. container.whole[Loop.pos + 1].size > 1
        BY <2>1, <3>3, <4>1, <4>2, ProperFacts DEF Bodied
      <4> QED BY <4>1, <4>3
    <3>5. HasBody /\ OwnLength
      BY <1>1, <2>1, <3>3, <3>4, BodyThere
    <3>6. CanRead(d.length)
      BY <3>1, <3>5 DEF CanRead
    <3> QED BY <1>4, <3>6
  <2> QED BY <1>1, <2>1, ProperStep
<1>5. CASE Onward(<<>>) /\ (track' = track \/ track' = WithFields(track, d, CanRead(d.length)))
  <2>1. track'.media = track.media /\ track'.minf = track.minf
    BY <1>2, <1>5, ReadElsewhere
  <2> QED BY <1>1, <1>5, <2>1, OnProper
<1> QED BY <1>3, <1>4, <1>5

LEMMA NoteProper == LoopsInv /\ ProperInv /\ NoteRange => ProperInv'
<1> SUFFICES ASSUME LoopsInv, ProperInv, NoteRange, AsMeant(container)
             PROVE  /\ container' = container /\ parse' \notin {"failed", "stuck"}
                    /\ LoopsFit(container, loops')
                    /\ SpanFits(container, track'.media, "mdia") /\ SpanFits(container, track'.minf, "minf")
  BY ProperStep DEF NoteRange
<1> DEFINE range == <<Loop.pos + 1, Following>>
           none == <<>>
<1>1. AtBox /\ loops # <<>> /\ container' = container /\ Onward(none)
      /\ Here \in {<<"findMedia", "mdia">>, <<"mdia", "minf">>}
      /\ track' = IF Box.name = "mdia" THEN [track EXCEPT !.media = range]
                                       ELSE [track EXCEPT !.minf = range]
  BY DEF NoteRange, AtBox
<1>2. Loop.over \notin Tops
  BY <1>1 DEF Here, Tops
<1>3. InFits(container, Loop) /\ SpanFits(container, track.media, "mdia") /\ SpanFits(container, track.minf, "minf")
  BY <1>1, <1>2, HeadFits
<1>4. /\ Snug(container, Loop.pos + 1, Following) /\ Following = Until(container.whole, Loop.pos + 1)
      /\ Loop.pos + 1 \in DOMAIN container.whole /\ Box.name = container.whole[Loop.pos + 1].name
  BY <1>1, <1>3, BoxWithin, ContainersAssumption DEF LoopsInv, MediaTyped, IsContainer
<1>5. Box.name \in {"mdia", "minf"} /\ SpanFits(container, range, Box.name)
  BY <1>1, <1>4 DEF SpanFits, Here
<1>6. DOMAIN track = DOMAIN NoTrack
  BY <1>1, TrackNow
<1> HIDE DEF range
<1>7. SpanFits(container, track'.media, "mdia") /\ SpanFits(container, track'.minf, "minf")
  BY <1>1, <1>3, <1>5, <1>6 DEF NoTrack
<1>8. none \in Seq(Laps) /\ \A k \in 1 .. Len(none) : InFits(container, none[k])
  OBVIOUS
<1> HIDE DEF none
<1>9. LoopsFit(container, loops') /\ parse' = "reading"
  BY <1>1, <1>8, OnwardProper
<1> QED BY <1>1, <1>7, <1>9

(* The innermost loop makes way for one over whole boxes, or for none.     *)
LEMMA InsteadOne ==
  ASSUME LoopsInv, ProperInv, AsMeant(container), loops # <<>>, Len(loops) # 1,
         NEW over \in Overs(container.reader), over \notin Tops, NEW a, NEW b, Snug(container, a, b),
         OverBox(container, LoopOver(over, a, b)),
         loops' = <<LoopOver(over, a, b)>> \o Tail(loops)
  PROVE  LoopsFit(container, loops')
<1> DEFINE x == LoopOver(over, a, b)
           r == <<x>>
<1>1. a \in Nat /\ b \in Nat /\ a <= b
  BY DEF Snug
<1>2. x \in Laps /\ x.over = over /\ x.start = a /\ x.pos = a /\ x.end = b
  BY <1>1 DEF LoopOver, Laps
<1>3. FirstLoop(container.reader) \in Tops
  BY ContainersAssumption DEF LoopsInv, MediaTyped, IsContainer, FirstLoop, Tops
<1>a. OverBox(container, x)
  OBVIOUS
<1> HIDE DEF x
<1>4. InFits(container, x)
  <2>1. PastBoxes(container, a, a)
    BY <1>1 DEF PastBoxes
  <2> QED BY <1>1, <1>2, <1>3, <1>a, <2>1 DEF InFits
<1>5. r \in Seq(Laps) /\ Len(r) = 1 /\ r[1] = x
  <2> HIDE DEF Laps
  <2> QED BY <1>2
<1>6. loops' = r \o Tail(loops)
  BY DEF x
<1> HIDE DEF r
<1>7. \A k \in 1 .. Len(r) :
        IF Len(loops) = 1 /\ k = Len(r) THEN TopFits(container, r[k]) ELSE InFits(container, r[k])
  BY <1>4, <1>5
<1> QED BY <1>5, <1>6, <1>7, InsteadProper

LEMMA PoppedProper ==
  ASSUME LoopsInv, ProperInv, AsMeant(container), loops # <<>>, loops' = Tail(loops)
  PROVE  LoopsFit(container, loops')
<1> DEFINE r == <<>>
<1>1. r \in Seq(Laps) /\ Len(r) = 0
  OBVIOUS
<1>2. Tail(loops) \in Seq(Laps)
  BY HeadTailProperties DEF LoopsInv, MediaTyped
<1>3. loops' = r \o Tail(loops)
  BY <1>2
<1> HIDE DEF r
<1>4. \A k \in 1 .. Len(r) :
        IF Len(loops) = 1 /\ k = Len(r) THEN TopFits(container, r[k]) ELSE InFits(container, r[k])
  BY <1>1
<1> QED BY <1>1, <1>3, <1>4, InsteadProper

(* An entry of a table has a body, which is gone into.                     *)
LEMMA EntryProper ==
  ASSUME LoopsInv, ProperInv, AsMeant(container), AtBox, Loop.over \in {"stsd", "soundStsd"}
  PROVE  /\ HasBody
         /\ \A over \in Overs(container.reader) \cap {"entry", "soundEntry"} :
              IntoEntry(over) => LoopsFit(container, loops') /\ parse' = "reading" /\ track' = track
<1>1. loops # <<>> /\ parse = "reading" /\ Loop.over \notin Tops
  BY DEF AtBox, Tops
<1>2. InFits(container, Loop) /\ Len(loops) # 1
  BY <1>1, HeadFits
<1>3. /\ HasBody /\ Snug(container, Loop.pos + 2, Following)
      /\ OverBox(container, LoopOver("entry", Loop.pos + 2, Following))
      /\ OverBox(container, LoopOver("soundEntry", Loop.pos + 2, Following))
  <2> DEFINE i == Loop.pos + 1
             w == container.whole
             f(over) == LoopOver(over, Loop.pos + 2, Following)
  <2>1. Bodied(w, i) /\ \E s \in DOMAIN w : Sample(w, s, i)
    BY <1>2, EntryBody
  <2>2. Box = w[i] /\ i \in 1 .. Len(w) /\ Following = Until(w, i)
    BY <1>2, BoxWithin
  <2>3. Box.size > 1
    BY <2>1, <2>2 DEF Bodied
  <2>4. Loop.pos \in Nat /\ IsContainer(container)
    BY <1>1, TrackNow, HeadFits, <1>2 DEF Laps
  <2>5. Loop.pos + 2 = i + 1 /\ i \in DOMAIN w
    BY <2>2, <2>4 DEF IsContainer
  <2>6. ASSUME NEW over \in {"entry", "soundEntry"} PROVE OverBox(container, f(over))
    <3>1. f(over).start = i + 1 /\ f(over).end = Until(w, i) /\ f(over).over = over
      BY <2>2, <2>5 DEF LoopOver
    <3> HIDE DEF f, i
    <3>2. LoopIn(w, f(over), i)
      BY <2>1, <3>1 DEF LoopIn
    <3> QED BY <2>5, <3>2 DEF OverBox
  <2> QED BY <1>2, <2>3, <2>6, BodyThere
<1>4. ASSUME NEW over \in Overs(container.reader) \cap {"entry", "soundEntry"}, IntoEntry(over)
      PROVE  LoopsFit(container, loops') /\ parse' = "reading" /\ track' = track
  <2> DEFINE a == Loop.pos + 2
             b == Following
  <2>1. loops' = <<LoopOver(over, a, b)>> \o Tail(loops) /\ track' = track /\ parse' = "reading"
    BY <1>1, <1>4 DEF IntoEntry
  <2>2. over \notin Tops /\ over \in Overs(container.reader)
    BY DEF Tops
  <2>3. Snug(container, a, b) /\ OverBox(container, LoopOver(over, a, b))
    BY <1>3
  <2> HIDE DEF a, b
  <2>4. LoopsFit(container, loops')
    BY <1>1, <1>2, <2>1, <2>2, <2>3, InsteadOne
  <2> QED BY <2>1, <2>4
<1> QED BY <1>3, <1>4

LEMMA FilmSampleProper == LoopsInv /\ ProperInv /\ ReadFilmSample => ProperInv'
<1> SUFFICES ASSUME LoopsInv, ProperInv, ReadFilmSample PROVE ProperInv'
  OBVIOUS
<1>1. AtBox /\ loops # <<>> /\ container' = container /\ Loop.over = "stsd" /\ parse = "reading"
  BY DEF ReadFilmSample, AtBox
<1>2. Loop \in Laps /\ container.reader \in {"mp4", "m4a", "mkv", "avi"}
  BY <1>1, TrackNow
<1>3. "entry" \in Overs(container.reader)
  BY <1>1, <1>2 DEF Laps, Overs, Ebml, Riff
<1>4. CASE Onward(<<>>) /\ track' = track
  BY <1>1, <1>4, OnProper
<1>5. CASE ~(Onward(<<>>) /\ track' = track)
  <2>1. ASSUME AsMeant(container)
        PROVE  /\ parse' \notin {"failed", "stuck"} /\ LoopsFit(container, loops')
               /\ SpanFits(container, track'.media, "mdia") /\ SpanFits(container, track'.minf, "minf")
    <3>1. SpanFits(container, track.media, "mdia") /\ SpanFits(container, track.minf, "minf")
      BY <1>1, <2>1, HeadFits
    <3>2. HasBody /\ (IntoEntry("entry") => LoopsFit(container, loops') /\ parse' = "reading" /\ track' = track)
      BY <1>1, <1>3, <2>1, EntryProper
    <3>3. CASE IntoEntry("entry")
      BY <3>1, <3>2, <3>3
    <3>4. CASE loops' = Tail(loops) /\ UNCHANGED <<track, parse>>
      <4>1. LoopsFit(container, loops')
        BY <1>1, <2>1, <3>4, PoppedProper
      <4> QED BY <1>1, <3>1, <3>4, <4>1
    <3> QED BY <1>5, <3>2, <3>3, <3>4 DEF ReadFilmSample
  <2> QED BY <1>1, <2>1, ProperStep
<1> QED BY <1>4, <1>5 DEF ReadFilmSample

LEMMA SoundSampleProper == LoopsInv /\ ProperInv /\ ReadSoundSample => ProperInv'
<1> SUFFICES ASSUME LoopsInv, ProperInv, ReadSoundSample PROVE ProperInv'
  OBVIOUS
<1>1. AtBox /\ loops # <<>> /\ container' = container /\ Loop.over = "soundStsd" /\ parse = "reading"
  BY DEF ReadSoundSample, AtBox
<1>2. Loop \in Laps /\ container.reader \in {"mp4", "m4a", "mkv", "avi"}
  BY <1>1, TrackNow
<1>3. "soundEntry" \in Overs(container.reader)
  BY <1>1, <1>2 DEF Laps, Overs, Ebml, Riff
<1>4. CASE Onward(<<>>) /\ track' = track
  BY <1>1, <1>4, OnProper
<1>5. CASE ~(Onward(<<>>) /\ track' = track)
  <2>1. ASSUME AsMeant(container)
        PROVE  /\ parse' \notin {"failed", "stuck"} /\ LoopsFit(container, loops')
               /\ SpanFits(container, track'.media, "mdia") /\ SpanFits(container, track'.minf, "minf")
    <3>1. SpanFits(container, track.media, "mdia") /\ SpanFits(container, track.minf, "minf")
      BY <1>1, <2>1, HeadFits
    <3>2. HasBody /\ (IntoEntry("soundEntry") => LoopsFit(container, loops') /\ parse' = "reading" /\ track' = track)
      BY <1>1, <1>3, <2>1, EntryProper
    <3>3. IntoEntry("soundEntry")
      BY <1>5, <3>2 DEF ReadSoundSample
    <3> QED BY <3>1, <3>2, <3>3
  <2> QED BY <1>1, <2>1, ProperStep
<1> QED BY <1>4, <1>5 DEF ReadSoundSample

(* The loops of a proper file end within it.                               *)
LEMMA MissingProper == LoopsInv /\ ProperInv /\ HeaderMissing => ProperInv'
<1> SUFFICES ASSUME LoopsInv, ProperInv, HeaderMissing PROVE ProperInv'
  OBVIOUS
<1>1. loops # <<>> /\ container' = container /\ Loop.pos < Loop.end /\ Loop.pos >= Length
  BY DEF HeaderMissing
<1>2. ASSUME AsMeant(container) PROVE FALSE
  <2>1. /\ IsContainer(container)
        /\ IF Len(loops) = 1 THEN TopFits(container, Loop) ELSE InFits(container, Loop)
    BY <1>1, <1>2, HeadFits
  <2>2. Loop.pos \in Nat /\ Loop.end \in Nat /\ Length \in Nat
    BY <1>1, <2>1, TrackNow DEF Laps, IsContainer, Length
  <2>3. Loop.end <= Length
    BY <2>1, <2>2 DEF TopFits, InFits, Snug, Length
  <2> QED BY <1>1, <2>2, <2>3
<1> QED BY <1>1, <1>2, ProperStep

LEMMA TrackLoopNames ==
  \A n : <<"findMedia", n>> \in LoopNames => <<"tkhd", n>> \in LoopNames
<1>1. \A e \in FilmEnters : e[3] = "findMedia" => e[2] = "trak"
  BY DEF FilmEnters
<1>2. \A e \in SoundEnters : e[3] # "findMedia"
  BY DEF SoundEnters
<1>3. \A e \in SegmentEnters : e[3] # "findMedia"
  BY DEF SegmentEnters
<1>4. \A e \in AviEnters : e[3] # "findMedia"
  BY DEF AviEnters
<1>5. \A e \in Enters : e[3] = "findMedia" => e[2] = "trak"
  BY <1>1, <1>2, <1>3, <1>4 DEF Enters
<1> QED BY <1>5 DEF LoopNames

LEMMA LeaveProper == LoopsInv /\ ProperInv /\ LeaveLoop => ProperInv'
<1> SUFFICES ASSUME LoopsInv, ProperInv, LeaveLoop PROVE ProperInv'
  OBVIOUS
<1> DEFINE over == Loop.over
<1>1. loops # <<>> /\ container' = container /\ parse' = "reading" /\ track' = track
  BY DEF LeaveLoop
<1>2. \/ over = "findMedia" /\ track.media # <<>>
         /\ loops' = <<LoopOver("tkhd", Loop.start, Loop.end)>> \o Tail(loops)
      \/ over = "tkhd" /\ loops' = <<LoopOver("mdia", track.media[1], track.media[2])>> \o Tail(loops)
      \/ over = "mdia" /\ track.minf # <<>>
         /\ loops' = <<LoopOver("minf", track.minf[1], track.minf[2])>> \o Tail(loops)
      \/ loops' = <<>> \o Tail(loops)
  BY DEF LeaveLoop
<1>3. /\ container.reader = "mp4" => TrackRead(Loop, track)
      /\ Loop \in Laps /\ container.reader \in {"mp4", "m4a", "mkv", "avi"}
  BY <1>1, TrackNow
<1>4. over \in TrackLoops => container.reader = "mp4"
  BY <1>3 DEF Laps, Overs, Ebml, Riff, TrackLoops
<1>5. ASSUME AsMeant(container) PROVE LoopsFit(container, loops')
  <2>1. SpanFits(container, track.media, "mdia") /\ SpanFits(container, track.minf, "minf")
        /\ (over \notin Tops => InFits(container, Loop) /\ Len(loops) # 1)
    BY <1>1, <1>5, HeadFits
  <2>2. CASE over \in TrackLoops
    <3>1. container.reader = "mp4" /\ TrackRead(Loop, track) /\ InFits(container, Loop) /\ Len(loops) # 1
      BY <1>3, <1>4, <2>1, <2>2 DEF TrackLoops, Tops
    <3>2. \A o \in {"tkhd", "mdia", "minf"} : o \in Overs(container.reader) /\ o \notin Tops
      BY <3>1 DEF Overs, Tops
    <3>3. ASSUME NEW o \in {"tkhd", "mdia", "minf"}, NEW a, NEW b, Snug(container, a, b),
                 NEW i \in DOMAIN container.whole, i = a, b = Until(container.whole, i),
                 <<o, container.whole[i].name>> \in LoopNames,
                 loops' = <<LoopOver(o, a, b)>> \o Tail(loops)
          PROVE  LoopsFit(container, loops')
      <4>1. LoopIn(container.whole, LoopOver(o, a, b), i)
        BY <3>3 DEF LoopIn, LoopOver
      <4>2. OverBox(container, LoopOver(o, a, b))
        BY <4>1 DEF OverBox
      <4> QED BY <1>1, <1>5, <3>1, <3>2, <3>3, <4>2, InsteadOne
    <3>4. CASE over = "findMedia" /\ loops' = <<LoopOver("tkhd", Loop.start, Loop.end)>> \o Tail(loops)
      <4>1. Snug(container, Loop.start, Loop.end) /\ OverBox(container, Loop)
        BY <3>1 DEF InFits
      <4>2. PICK i \in DOMAIN container.whole : LoopIn(container.whole, Loop, i)
        BY <4>1 DEF OverBox
      <4>3. /\ i = Loop.start /\ Loop.end = Until(container.whole, i)
            /\ <<"findMedia", container.whole[i].name>> \in LoopNames
        BY <3>4, <4>2 DEF LoopIn
      <4>4. <<"tkhd", container.whole[i].name>> \in LoopNames
        BY <4>3, TrackLoopNames
      <4> QED BY <3>3, <3>4, <4>1, <4>3, <4>4
    <3>5. CASE over = "tkhd"
               /\ loops' = <<LoopOver("mdia", track.media[1], track.media[2])>> \o Tail(loops)
      <4>1. track.media # <<>>
        BY <3>1, <3>5 DEF TrackRead
      <4>2. Snug(container, track.media[1], track.media[2])
        BY <2>1, <4>1 DEF SpanFits
      <4>3. PICK i \in DOMAIN container.whole :
              /\ track.media[1] = i /\ track.media[2] = Until(container.whole, i)
              /\ container.whole[i].name = "mdia"
        BY <2>1, <4>1 DEF SpanFits
      <4>4. <<"mdia", container.whole[i].name>> \in LoopNames
        BY <4>3 DEF LoopNames
      <4> QED BY <3>3, <3>5, <4>2, <4>3, <4>4
    <3>6. CASE over = "mdia" /\ track.minf # <<>>
               /\ loops' = <<LoopOver("minf", track.minf[1], track.minf[2])>> \o Tail(loops)
      <4>1. Snug(container, track.minf[1], track.minf[2])
        BY <2>1, <3>6 DEF SpanFits
      <4>2. PICK i \in DOMAIN container.whole :
              /\ track.minf[1] = i /\ track.minf[2] = Until(container.whole, i)
              /\ container.whole[i].name = "minf"
        BY <2>1, <3>6 DEF SpanFits
      <4>3. <<"minf", container.whole[i].name>> \in LoopNames
        BY <4>2 DEF LoopNames
      <4> QED BY <3>3, <3>6, <4>1, <4>2, <4>3
    <3>7. CASE loops' = <<>> \o Tail(loops)
      <4>1. Tail(loops) \in Seq(Laps)
        BY <1>1, HeadTailProperties DEF LoopsInv, MediaTyped
      <4>2. loops' = Tail(loops)
        BY <3>7, <4>1
      <4> QED BY <1>1, <1>5, <4>2, PoppedProper
    <3> QED BY <1>2, <3>4, <3>5, <3>6, <3>7
  <2>3. CASE over \notin TrackLoops
    <3>1. Tail(loops) \in Seq(Laps)
      BY <1>1, HeadTailProperties DEF LoopsInv, MediaTyped
    <3>2. loops' = Tail(loops)
      BY <1>2, <2>3, <3>1 DEF TrackLoops
    <3> QED BY <1>1, <1>5, <3>2, PoppedProper
  <2> QED BY <2>2, <2>3
<1>6. AsMeant(container) => SpanFits(container, track.media, "mdia") /\ SpanFits(container, track.minf, "minf")
  BY <1>1, HeadFits
<1> QED BY <1>1, <1>5, <1>6, ProperStep

LEMMA HaltProper ==
  ASSUME ProperInv, UNCHANGED <<container, loops, track>>, parse' \in {parse, "read", "cancelled"}
  PROVE  ProperInv'
  BY DEF ProperInv

LEMMA ProperStarts == MediaInit => ProperInv
<1> SUFFICES ASSUME NEW c \in Containers, MediaStart(c), AsMeant(c) PROVE ProperInv
  BY DEF MediaInit, ProperInv, MediaStart
<1> DEFINE x == LoopOver(FirstLoop(c.reader), 0, c.end)
<1>1. container = c /\ loops = <<x>> /\ track = NoTrack /\ parse = "reading"
  BY DEF MediaStart
<1>2. c.end = Len(c.cells)
  BY DEF AsMeant
<1>3. TopFits(c, x)
  BY <1>2 DEF TopFits, LoopOver, PastBoxes
<1> HIDE DEF x
<1>4. LoopsFit(c, loops)
  BY <1>1, <1>3 DEF LoopsFit
<1>5. SpanFits(c, track.media, "mdia") /\ SpanFits(c, track.minf, "minf")
  BY <1>1 DEF SpanFits, NoTrack
<1> QED BY <1>1, <1>4, <1>5 DEF ProperInv

LEMMA ProperReads ==
  ASSUME LoopsInv, ProperInv, AsMeant(container)
  PROVE  /\ parse \notin {"failed", "stuck"}
         /\ \A k \in 1 .. Len(loops) : IF k = Len(loops) THEN NextAtTop(container, loops[k])
                                                         ELSE NextIn(container, loops[k])
<1>1. /\ parse \notin {"failed", "stuck"} /\ LoopsFit(container, loops) /\ IsContainer(container)
      /\ loops \in Seq(Laps)
  BY ContainersAssumption DEF LoopsInv, ProperInv, MediaTyped
<1>2. ASSUME NEW k \in 1 .. Len(loops)
      PROVE  IF k = Len(loops) THEN NextAtTop(container, loops[k]) ELSE NextIn(container, loops[k])
  <2> DEFINE l == loops[k]
             w == container.whole
  <2>1. l \in Laps
    <3> HIDE DEF Laps
    <3> QED BY <1>1
  <2>2. l.pos \in Nat /\ l.end \in Nat
    BY <2>1 DEF Laps
  <2>3. IF k = Len(loops) THEN TopFits(container, l) ELSE InFits(container, l)
    BY <1>1 DEF LoopsFit
  <2> HIDE DEF l
  <2>4. CASE TopFits(container, l)
    <3>1. ASSUME l.pos < l.end, NEW i \in 1 .. l.pos PROVE ~Around(w, i, l.pos + 1)
      <4>1. Until(w, i) <= l.pos
        BY <2>2, <2>4, <3>1 DEF TopFits, PastBoxes
      <4>2. i \in 1 .. Len(w)
        <5>1. l.end <= Len(w) /\ Len(w) \in Nat
          BY <1>1, <2>4, ProperFacts DEF TopFits
        <5> QED BY <2>2, <3>1, <5>1
      <4>3. Until(w, i) \in Nat
        BY <1>1, <4>2, ProperFacts
      <4> QED BY <2>2, <4>1, <4>3 DEF Around
    <3>2. NextAtTop(container, l)
      BY <3>1 DEF NextAtTop
    <3> QED BY <2>3, <2>4, <3>2 DEF l, TopFits, InFits
  <2>5. CASE InFits(container, l)
    <3>1. PICK i \in DOMAIN w : LoopIn(w, l, i)
      BY <2>5 DEF InFits, OverBox
    <3>2. l.pos < l.end => /\ Child(w, i, l.pos + 1)
                           /\ container.cells[l.pos + 1] = w[l.pos + 1]
      BY <1>1, <2>2, <2>5, <3>1, NextIsChild
    <3>3. NextIn(container, l)
      BY <3>1, <3>2 DEF NextIn
    <3> QED BY <2>3, <2>5, <3>3 DEF l, TopFits, InFits
  <2> QED BY <2>3, <2>4, <2>5
<1> QED BY <1>1, <1>2

-----------------------------------------------------------------------------
(* A proper file is read to its end: whatever boxes it has, and however    *)
(* they are nested, its parse does not fail and is never sent back to where*)
(* it is.  Whatever the sizes in any other file say, and wherever it has   *)
(* been cut, only a box of size 0 in a sound file sends a reader back, and *)
(* the loops over a film's boxes stay within one another.                  *)
THEOREM ParseIsOrderly == MediaSpec => []ReadOrderly
<1>1. MediaInit => LoopsInv /\ ProperInv
  BY MediaStarts, ProperStarts
<1>2. LoopsInv /\ ProperInv /\ [MediaNext]_mediaVars => (LoopsInv /\ ProperInv)'
  <2> SUFFICES ASSUME LoopsInv, ProperInv, [MediaNext]_mediaVars PROVE LoopsInv' /\ ProperInv'
    OBVIOUS
  <2>1. CASE SkipBox
    BY <2>1, SkipKeeps, SkipProper
  <2>2. CASE EnterBox
    BY <2>2, EnterKeeps, EnterProper
  <2>3. CASE ReadField
    BY <2>3, ReadKeeps, ReadProper
  <2>4. CASE NoteRange
    BY <2>4, NoteKeeps, NoteProper
  <2>5. CASE ReadTimes
    BY <2>5, TimesKeep, TimesProper
  <2>6. CASE ReadFilmSample
    BY <2>6, FilmSampleKeeps, FilmSampleProper
  <2>7. CASE ReadSoundSample
    BY <2>7, SoundSampleKeeps, SoundSampleProper
  <2>8. CASE ReadStream
    BY <2>8, StreamKeeps, StreamProper
  <2>9. CASE HeaderMissing
    BY <2>9, MissingKeeps, MissingProper
  <2>10. CASE LeaveLoop
    BY <2>10, LeaveKeeps, LeaveProper
  <2>11. CASE ParseEnds \/ CancelParse
    BY <2>11, HaltKeeps, HaltProper DEF ParseEnds, CancelParse
  <2>12. CASE UNCHANGED mediaVars
    BY <2>12, MediaStays, HaltProper DEF mediaVars
  <2> QED BY <2>1, <2>2, <2>3, <2>4, <2>5, <2>6, <2>7, <2>8, <2>9, <2>10, <2>11, <2>12 DEF MediaNext
<1>3. LoopsInv /\ ProperInv => ReadOrderly
  BY ProperReads DEF LoopsInv, ReadOrderly, StuckAt, Nested
<1> QED BY <1>1, <1>2, <1>3, PTL DEF MediaSpec
=============================================================================
