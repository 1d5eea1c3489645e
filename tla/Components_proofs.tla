------------------------- MODULE Components_proofs --------------------------
(***************************************************************************)
(* Safety of the parts of a server that several processes share, for any   *)
(* number of processes: the index path (IndexOpen) and the registry of     *)
(* dashboards (PeerRegistry); of the live feed (EventBus), for any number  *)
(* of calls, browsers and events; of a server's start and shutdown         *)
(* (Server), of the decode semaphore (DecodeSlots), of the watch's         *)
(* directories (WatchTree) and of a grep's workers (FindMatches); of what  *)
(* moves files (Organize), of the comparison of trees (TreeDiff), of the   *)
(* playground's screen (Playground), of pages (Paging), of groups of equal *)
(* and of similar files (Groups) and of the reports on symbols             *)
(* (UnusedExports).                                                        *)
(***************************************************************************)
EXTENDS IndexOpen, PeerRegistry, EventBus, Server, DecodeSlots, WatchTree, FindMatches,
        Organize, TreeDiff, Playground, Paging, Groups, UnusedExports, DataLemmas,
        FiniteSetTheorems, TLAPS

-----------------------------------------------------------------------------
(* The index path.  Open files and locks belong together: ...              *)
HasOpen(p) == opening[p] \in {"locking", "locked", "persistent"}
HasLock(p) == opening[p] \in {"locked", "persistent"}

Locking ==
  \A p \in Procs :
    /\ HasOpen(p) <=> fd[p] # 0
    /\ HasLock(p) => lock[fd[p]] = p
    /\ \A f \in FileIds : lock[f] = p => HasLock(p) /\ fd[p] = f

(* ... a process works with a file of its schema, ...                      *)
OwnContent == \A p \in Procs : opening[p] = "persistent" => content[fd[p]] = BuildOf[p]

(* ... an open file has lost its name only to a process that had found a   *)
(* file of another schema there, unless two have rebuilt, ...              *)
NameLost ==
  \A p \in Procs : fd[p] # 0 /\ fd[p] # path =>
    \E q \in removers \ {p} :
      \/ removers \ {q} # {}
      \/ BuildOf[q] # BuildOf[p]
      \/ content[fd[p]] \notin {"blank", BuildOf[p]}

(* ... and one that is about to rebuild has found such a file, which is    *)
(* still under the path if nobody has rebuilt.                             *)
StaleFound ==
  \A q \in Procs : opening[q] = "stale" =>
    /\ q \notin removers
    /\ removers # {} \/ (path # 0 /\ content[path] \notin {"blank", BuildOf[q]})

OpenInv == OpenTypeOK /\ Locking /\ OwnContent /\ NameLost /\ StaleFound

LEMMA OpenInitInv == OpenInit => OpenInv
  <1> SUFFICES ASSUME NEW c \in FirstFile, OpenStart(c) PROVE OpenInv
    BY DEF OpenInit
  <1> USE IndexOpenAssumption DEF OpenStart
  <1>1. OpenTypeOK
    BY DEF OpenTypeOK, FileIds, Contents, Stages
  <1>2. Locking /\ OwnContent /\ NameLost /\ StaleFound
    BY DEF Locking, OwnContent, NameLost, StaleFound, HasOpen, HasLock, FileIds
  <1> QED BY <1>1, <1>2 DEF OpenInv

LEMMA OpenStepInv == OpenInv /\ [OpenNext]_openVars => OpenInv'
  <1> SUFFICES ASSUME OpenInv, [OpenNext]_openVars PROVE OpenInv'
    OBVIOUS
  <1> USE IndexOpenAssumption DEF OpenInv, HasOpen, HasLock
  <1>1. ASSUME NEW p \in Procs, NoIndex(p) PROVE OpenInv'
    <2>1. OpenTypeOK'
      BY <1>1 DEF NoIndex, GoMemory, Goto, OpenTypeOK, FileIds, Contents, Stages
    <2>2. Locking'
      BY <1>1 DEF NoIndex, GoMemory, Goto, OpenTypeOK, Locking, FileIds, Stages
    <2>3. OwnContent'
      BY <1>1 DEF NoIndex, GoMemory, Goto, OpenTypeOK, Locking, OwnContent,
         FileIds, Stages
    <2>4. NameLost'
      BY <1>1 DEF NoIndex, GoMemory, Goto, OpenTypeOK, Locking, NameLost,
         StaleFound, FileIds, Stages
    <2>5. StaleFound'
      BY <1>1 DEF NoIndex, GoMemory, Goto, OpenTypeOK, Locking, NameLost,
         StaleFound, FileIds, Stages
    <2> QED BY <2>1, <2>2, <2>3, <2>4, <2>5
  <1>2. ASSUME NEW p \in Procs, OpenPath(p) PROVE OpenInv'
    <2>1. OpenTypeOK'
      BY <1>2 DEF OpenPath, Goto, OpenTypeOK, FileIds, Contents, Stages
    <2>2. Locking'
      BY <1>2 DEF OpenPath, Goto, OpenTypeOK, Locking, FileIds, Stages
    <2>3. OwnContent'
      BY <1>2 DEF OpenPath, Goto, OpenTypeOK, Locking, OwnContent, FileIds, Stages
    <2>4. NameLost'
      <3> SUFFICES ASSUME NEW q \in Procs, fd'[q] # 0, fd'[q] # path'
                   PROVE  \E x \in removers \ {q} :
                            \/ removers \ {x} # {}
                            \/ BuildOf[x] # BuildOf[q]
                            \/ content[fd'[q]] \notin {"blank", BuildOf[q]}
        BY <1>2 DEF OpenPath, NameLost
      <3>1. q # p /\ fd'[q] = fd[q]
        BY <1>2 DEF OpenPath, OpenTypeOK
      <3>2. fd[q] # path
        BY <1>2, <3>1 DEF OpenPath
      <3> QED BY <3>1, <3>2 DEF NameLost
    <2>5. StaleFound'
      BY <1>2 DEF OpenPath, Goto, OpenTypeOK, Locking, NameLost, StaleFound,
         FileIds, Stages
    <2> QED BY <2>1, <2>2, <2>3, <2>4, <2>5
  <1>3. ASSUME NEW p \in Procs, TakeLock(p) PROVE OpenInv'
    <2>1. OpenTypeOK'
      BY <1>3 DEF TakeLock, Goto, OpenTypeOK, FileIds, Contents, Stages
    <2>2. Locking'
      BY <1>3 DEF TakeLock, Goto, OpenTypeOK, Locking, FileIds, Stages
    <2>3. OwnContent'
      BY <1>3 DEF TakeLock, Goto, OpenTypeOK, Locking, OwnContent, FileIds, Stages
    <2>4. NameLost'
      BY <1>3 DEF TakeLock, Goto, OpenTypeOK, Locking, NameLost, StaleFound,
         FileIds, Stages
    <2>5. StaleFound'
      BY <1>3 DEF TakeLock, Goto, OpenTypeOK, Locking, NameLost, StaleFound,
         FileIds, Stages
    <2> QED BY <2>1, <2>2, <2>3, <2>4, <2>5
  <1>4. ASSUME NEW p \in Procs, LockTimeout(p) PROVE OpenInv'
    <2>1. OpenTypeOK'
      BY <1>4 DEF LockTimeout, GoMemory, Goto, OpenTypeOK, FileIds, Contents, Stages
    <2>2. Locking'
      BY <1>4 DEF LockTimeout, GoMemory, Goto, OpenTypeOK, Locking, FileIds, Stages
    <2>3. OwnContent'
      BY <1>4 DEF LockTimeout, GoMemory, Goto, OpenTypeOK, Locking, OwnContent,
         FileIds, Stages
    <2>4. NameLost'
      BY <1>4 DEF LockTimeout, GoMemory, Goto, OpenTypeOK, Locking, NameLost,
         StaleFound, FileIds, Stages
    <2>5. StaleFound'
      BY <1>4 DEF LockTimeout, GoMemory, Goto, OpenTypeOK, Locking, NameLost,
         StaleFound, FileIds, Stages
    <2> QED BY <2>1, <2>2, <2>3, <2>4, <2>5
  <1>5. ASSUME NEW p \in Procs, Adopt(p) PROVE OpenInv'
    <2>1. OpenTypeOK'
      BY <1>5 DEF Adopt, Adopted, Goto, OpenTypeOK, FileIds, Contents, Stages
    <2>2. Locking'
      BY <1>5 DEF Adopt, Adopted, Goto, OpenTypeOK, Locking, FileIds, Stages
    <2>3. OwnContent'
      BY <1>5 DEF Adopt, Adopted, Goto, OpenTypeOK, Locking, OwnContent, FileIds,
         Stages
    <2>4. NameLost'
      <3> SUFFICES ASSUME NEW q \in Procs, fd[q] # 0, fd[q] # path
                   PROVE  \E x \in removers \ {q} :
                            \/ removers \ {x} # {}
                            \/ BuildOf[x] # BuildOf[q]
                            \/ content'[fd[q]] \notin {"blank", BuildOf[q]}
        BY <1>5 DEF Adopt, NameLost
      <3>1. PICK x \in removers \ {q} :
              \/ removers \ {x} # {}
              \/ BuildOf[x] # BuildOf[q]
              \/ content[fd[q]] \notin {"blank", BuildOf[q]}
        BY DEF NameLost
      <3>2. fd[p] \in FileIds /\ fd[q] \in FileIds
        BY <1>5 DEF Adopt, Locking, OpenTypeOK, FileIds
      <3>3. content'[fd[q]] = content[fd[q]] \/ content[fd[q]] = "blank"
        <4>1. CASE fd[q] = fd[p]
          BY <1>5, <3>2, <4>1 DEF Adopt, OpenTypeOK
        <4>2. CASE fd[q] # fd[p]
          BY <1>5, <3>2, <4>2 DEF Adopt, OpenTypeOK
        <4> QED BY <4>1, <4>2
      <3> QED BY <3>1, <3>3
    <2>5. StaleFound'
      BY <1>5 DEF Adopt, Adopted, Goto, OpenTypeOK, Locking, NameLost, StaleFound,
         FileIds, Stages
    <2> QED BY <2>1, <2>2, <2>3, <2>4, <2>5
  <1>6. ASSUME NEW p \in Procs, Reject(p) PROVE OpenInv'
    <2>1. OpenTypeOK'
      BY <1>6 DEF Reject, Adopted, LocksWithout, Goto, OpenTypeOK, FileIds,
         Contents, Stages
    <2>2. Locking'
      BY <1>6 DEF Reject, Adopted, LocksWithout, Goto, OpenTypeOK, Locking,
         FileIds, Stages
    <2>3. OwnContent'
      BY <1>6 DEF Reject, Adopted, LocksWithout, Goto, OpenTypeOK, Locking,
         OwnContent, FileIds, Stages
    <2>4. NameLost'
      BY <1>6 DEF Reject, Adopted, LocksWithout, Goto, OpenTypeOK, Locking,
         NameLost, StaleFound, FileIds, Stages
    <2>5. StaleFound'
      BY <1>6 DEF Reject, Adopted, LocksWithout, Goto, OpenTypeOK, Locking,
         NameLost, StaleFound, FileIds, Stages
    <2> QED BY <2>1, <2>2, <2>3, <2>4, <2>5
  <1>7. ASSUME NEW p \in Procs, Rebuild(p) PROVE OpenInv'
    <2>1. OpenTypeOK'
      BY <1>7 DEF Rebuild, Goto, OpenTypeOK, FileIds, Contents, Stages
    <2>2. Locking'
      BY <1>7 DEF Rebuild, Goto, OpenTypeOK, Locking, FileIds, Stages
    <2>3. OwnContent'
      BY <1>7 DEF Rebuild, Goto, OpenTypeOK, Locking, OwnContent, FileIds, Stages
    <2>4. NameLost'
      <3> SUFFICES ASSUME NEW q \in Procs, fd[q] # 0
                   PROVE  \E x \in removers' \ {q} :
                            \/ removers' \ {x} # {}
                            \/ BuildOf[x] # BuildOf[q]
                            \/ content[fd[q]] \notin {"blank", BuildOf[q]}
        BY <1>7 DEF Rebuild, NameLost
      <3>1. q # p /\ p \notin removers /\ removers' = removers \cup {p}
        BY <1>7 DEF Rebuild, OpenTypeOK, Locking, StaleFound
      <3>2. CASE removers # {}
        BY <3>1, <3>2
      <3>3. CASE removers = {} /\ fd[q] = path
        <4>1. content[fd[q]] \notin {"blank", BuildOf[p]}
          BY <1>7, <3>3 DEF Rebuild, StaleFound
        <4> QED BY <3>1, <4>1
      <3>4. CASE removers = {} /\ fd[q] # path
        BY <3>4 DEF NameLost
      <3> QED BY <3>2, <3>3, <3>4
    <2>5. StaleFound'
      BY <1>7 DEF Rebuild, Goto, OpenTypeOK, Locking, NameLost, StaleFound,
         FileIds, Stages
    <2> QED BY <2>1, <2>2, <2>3, <2>4, <2>5
  <1>8. ASSUME NEW p \in Procs, OpenFails(p) PROVE OpenInv'
    <2>1. OpenTypeOK'
      BY <1>8 DEF OpenFails, LocksWithout, Goto, OpenTypeOK, FileIds, Contents, Stages
    <2>2. Locking'
      BY <1>8 DEF OpenFails, LocksWithout, Goto, OpenTypeOK, Locking, FileIds, Stages
    <2>3. OwnContent'
      BY <1>8 DEF OpenFails, LocksWithout, Goto, OpenTypeOK, Locking, OwnContent,
         FileIds, Stages
    <2>4. NameLost'
      BY <1>8 DEF OpenFails, LocksWithout, Goto, OpenTypeOK, Locking, NameLost,
         StaleFound, FileIds, Stages
    <2>5. StaleFound'
      BY <1>8 DEF OpenFails, LocksWithout, Goto, OpenTypeOK, Locking, NameLost,
         StaleFound, FileIds, Stages
    <2> QED BY <2>1, <2>2, <2>3, <2>4, <2>5
  <1>9. ASSUME NEW p \in Procs, Leave(p) PROVE OpenInv'
    <2>1. OpenTypeOK'
      BY <1>9 DEF Leave, LocksWithout, Goto, OpenTypeOK, FileIds, Contents, Stages
    <2>2. Locking'
      BY <1>9 DEF Leave, LocksWithout, Goto, OpenTypeOK, Locking, FileIds, Stages
    <2>3. OwnContent'
      BY <1>9 DEF Leave, LocksWithout, Goto, OpenTypeOK, Locking, OwnContent,
         FileIds, Stages
    <2>4. NameLost'
      BY <1>9 DEF Leave, LocksWithout, Goto, OpenTypeOK, Locking, NameLost,
         StaleFound, FileIds, Stages
    <2>5. StaleFound'
      BY <1>9 DEF Leave, LocksWithout, Goto, OpenTypeOK, Locking, NameLost,
         StaleFound, FileIds, Stages
    <2> QED BY <2>1, <2>2, <2>3, <2>4, <2>5
  <1>10. CASE UNCHANGED openVars
    BY <1>10 DEF openVars, OpenTypeOK, Locking, OwnContent, NameLost, StaleFound
   <1> QED BY <1>1, <1>2, <1>3, <1>4, <1>5, <1>6, <1>7, <1>8, <1>9, <1>10 DEF
             OpenNext, OpenStep

(* A process serves cached attributes only out of a file of its own schema *)
(* that it alone has open, and loses the file's name only to a race of two *)
(* schemas or two rebuilds: for any processes, binaries and files.         *)
LEMMA OpenInvSafe == OpenInv => IndexSafe
   BY DEF OpenInv, IndexSafe, OwnSchema, UnlinkedByRace, Unlinked, Locking,
      OwnContent, NameLost, HasOpen, HasLock

THEOREM OpenSafe == OpenSpec => [](OpenTypeOK /\ IndexSafe)
  <1>1. OpenInit => OpenInv
    BY OpenInitInv
  <1>2. OpenInv /\ [OpenNext]_openVars => OpenInv'
    BY OpenStepInv
  <1>3. OpenInv => OpenTypeOK /\ IndexSafe
    BY OpenInvSafe DEF OpenInv
  <1> QED BY <1>1, <1>2, <1>3, PTL DEF OpenSpec
-----------------------------------------------------------------------------
(* The registry.  What may vanish from under a process is what some scan   *)
(* has read half-written, or has taken for its dead predecessor's: ...     *)
EntryTypes ==
  /\ entry \in [Pids -> {"none", "torn", "full"}]
  /\ proc \in [Pids -> {"free", "up", "writing", "registered"}]
  /\ todo \in [Pids -> SUBSET Pids] /\ doomed \in [Pids -> SUBSET Pids]
  /\ listed \in [Pids -> SUBSET Pids] /\ steady \in [Pids -> SUBSET Pids]
  /\ raced \subseteq Pids

DoomedRaced ==
  \A r, p \in Pids : p \in doomed[r] /\ proc[p] \in {"writing", "registered"} => p \in raced

(* ... a file that is gone before it is written is one of these, ...       *)
TornStays == \A p \in Pids : proc[p] = "writing" /\ entry[p] = "none" => p \in raced

(* ... and what a scan counts on is registered all the time.               *)
SteadyUp == \A r, p \in Pids : p \in steady[r] => proc[p] = "registered"

RegInv ==
  /\ EntryTypes /\ DoomedRaced /\ TornStays /\ SteadyUp /\ StaysListed /\ SteadyListed

LEMMA RegInitInv == RegInit => RegInv
   BY DEF RegInit, RegInv, EntryTypes, DoomedRaced, TornStays, SteadyUp,
      StaysListed, SteadyListed

LEMMA RegStepInv == RegInv /\ [RegNext]_regVars => RegInv'
  <1> SUFFICES ASSUME RegInv, [RegNext]_regVars PROVE RegInv'
    OBVIOUS
  <1> USE DEF RegInv, ScanVars
  <1>1. ASSUME NEW p \in Pids, Launch(p) PROVE RegInv'
    <2>1. EntryTypes'
      BY <1>1 DEF Launch, EntryTypes, DoomedRaced, TornStays, SteadyUp,
         StaysListed, SteadyListed
    <2>2. DoomedRaced'
      BY <1>1 DEF Launch, EntryTypes, DoomedRaced, TornStays, SteadyUp,
         StaysListed, SteadyListed
    <2>3. TornStays'
      BY <1>1 DEF Launch, EntryTypes, DoomedRaced, TornStays, SteadyUp,
         StaysListed, SteadyListed
    <2>4. SteadyUp'
      BY <1>1 DEF Launch, EntryTypes, DoomedRaced, TornStays, SteadyUp,
         StaysListed, SteadyListed
    <2>5. StaysListed'
      BY <1>1 DEF Launch, EntryTypes, DoomedRaced, TornStays, SteadyUp,
         StaysListed, SteadyListed
    <2>6. SteadyListed'
      BY <1>1 DEF Launch, EntryTypes, DoomedRaced, TornStays, SteadyUp,
         StaysListed, SteadyListed
    <2> QED BY <2>1, <2>2, <2>3, <2>4, <2>5, <2>6
  <1>2. ASSUME NEW p \in Pids, CreateEntry(p) PROVE RegInv'
    <2>1. EntryTypes'
      BY <1>2 DEF CreateEntry, EntryTypes, DoomedRaced, TornStays, SteadyUp,
         StaysListed, SteadyListed
    <2>2. DoomedRaced'
      BY <1>2 DEF CreateEntry, EntryTypes, DoomedRaced, TornStays, SteadyUp,
         StaysListed, SteadyListed
    <2>3. TornStays'
      BY <1>2 DEF CreateEntry, EntryTypes, DoomedRaced, TornStays, SteadyUp,
         StaysListed, SteadyListed
    <2>4. SteadyUp'
      BY <1>2 DEF CreateEntry, EntryTypes, DoomedRaced, TornStays, SteadyUp,
         StaysListed, SteadyListed
    <2>5. StaysListed'
      BY <1>2 DEF CreateEntry, EntryTypes, DoomedRaced, TornStays, SteadyUp,
         StaysListed, SteadyListed
    <2>6. SteadyListed'
      BY <1>2 DEF CreateEntry, EntryTypes, DoomedRaced, TornStays, SteadyUp,
         StaysListed, SteadyListed
    <2> QED BY <2>1, <2>2, <2>3, <2>4, <2>5, <2>6
  <1>3. ASSUME NEW p \in Pids, WriteEntry(p) PROVE RegInv'
    <2>1. EntryTypes'
      BY <1>3 DEF WriteEntry, EntryTypes, DoomedRaced, TornStays, SteadyUp,
         StaysListed, SteadyListed
    <2>2. DoomedRaced'
      BY <1>3 DEF WriteEntry, EntryTypes, DoomedRaced, TornStays, SteadyUp,
         StaysListed, SteadyListed
    <2>3. TornStays'
      BY <1>3 DEF WriteEntry, EntryTypes, DoomedRaced, TornStays, SteadyUp,
         StaysListed, SteadyListed
    <2>4. SteadyUp'
      BY <1>3 DEF WriteEntry, EntryTypes, DoomedRaced, TornStays, SteadyUp,
         StaysListed, SteadyListed
    <2>5. StaysListed'
      BY <1>3 DEF WriteEntry, EntryTypes, DoomedRaced, TornStays, SteadyUp,
         StaysListed, SteadyListed
    <2>6. SteadyListed'
      BY <1>3 DEF WriteEntry, EntryTypes, DoomedRaced, TornStays, SteadyUp,
         StaysListed, SteadyListed
    <2> QED BY <2>1, <2>2, <2>3, <2>4, <2>5, <2>6
  <1>4. ASSUME NEW p \in Pids, Deregister(p) PROVE RegInv'
    <2>1. EntryTypes'
      BY <1>4 DEF Deregister, Gone, EntryTypes, DoomedRaced, TornStays, SteadyUp,
         StaysListed, SteadyListed
    <2>2. DoomedRaced'
      BY <1>4 DEF Deregister, Gone, EntryTypes, DoomedRaced, TornStays, SteadyUp,
         StaysListed, SteadyListed
    <2>3. TornStays'
      BY <1>4 DEF Deregister, Gone, EntryTypes, DoomedRaced, TornStays, SteadyUp,
         StaysListed, SteadyListed
    <2>4. SteadyUp'
      BY <1>4 DEF Deregister, Gone, EntryTypes, DoomedRaced, TornStays, SteadyUp,
         StaysListed, SteadyListed
    <2>5. StaysListed'
      BY <1>4 DEF Deregister, Gone, EntryTypes, DoomedRaced, TornStays, SteadyUp,
         StaysListed, SteadyListed
    <2>6. SteadyListed'
      BY <1>4 DEF Deregister, Gone, EntryTypes, DoomedRaced, TornStays, SteadyUp,
         StaysListed, SteadyListed
    <2> QED BY <2>1, <2>2, <2>3, <2>4, <2>5, <2>6
  <1>5. ASSUME NEW p \in Pids, Kill(p) PROVE RegInv'
    <2>1. EntryTypes'
      BY <1>5 DEF Kill, Gone, EntryTypes, DoomedRaced, TornStays, SteadyUp,
         StaysListed, SteadyListed
    <2>2. DoomedRaced'
      BY <1>5 DEF Kill, Gone, EntryTypes, DoomedRaced, TornStays, SteadyUp,
         StaysListed, SteadyListed
    <2>3. TornStays'
      BY <1>5 DEF Kill, Gone, EntryTypes, DoomedRaced, TornStays, SteadyUp,
         StaysListed, SteadyListed
    <2>4. SteadyUp'
      BY <1>5 DEF Kill, Gone, EntryTypes, DoomedRaced, TornStays, SteadyUp,
         StaysListed, SteadyListed
    <2>5. StaysListed'
      BY <1>5 DEF Kill, Gone, EntryTypes, DoomedRaced, TornStays, SteadyUp,
         StaysListed, SteadyListed
    <2>6. SteadyListed'
      BY <1>5 DEF Kill, Gone, EntryTypes, DoomedRaced, TornStays, SteadyUp,
         StaysListed, SteadyListed
    <2> QED BY <2>1, <2>2, <2>3, <2>4, <2>5, <2>6
  <1>6. ASSUME NEW r \in Pids, Glob(r) PROVE RegInv'
    <2>1. EntryTypes'
      BY <1>6 DEF Glob, Present, Alive, Scanning, EntryTypes, DoomedRaced,
         TornStays, SteadyUp, StaysListed, SteadyListed
    <2>2. DoomedRaced'
      BY <1>6 DEF Glob, Present, Alive, Scanning, EntryTypes, DoomedRaced,
         TornStays, SteadyUp, StaysListed, SteadyListed
    <2>3. TornStays'
      BY <1>6 DEF Glob, Present, Alive, Scanning, EntryTypes, DoomedRaced,
         TornStays, SteadyUp, StaysListed, SteadyListed
    <2>4. SteadyUp'
      BY <1>6 DEF Glob, Present, Alive, Scanning, EntryTypes, DoomedRaced,
         TornStays, SteadyUp, StaysListed, SteadyListed
    <2>5. StaysListed'
      BY <1>6 DEF Glob, Present, Alive, Scanning, EntryTypes, DoomedRaced,
         TornStays, SteadyUp, StaysListed, SteadyListed
    <2>6. SteadyListed'
      BY <1>6 DEF Glob, Present, Alive, Scanning, EntryTypes, DoomedRaced,
         TornStays, SteadyUp, StaysListed, SteadyListed
    <2> QED BY <2>1, <2>2, <2>3, <2>4, <2>5, <2>6
  <1>7. ASSUME NEW r \in Pids, Prune(r) PROVE RegInv'
    <2>1. EntryTypes'
      BY <1>7 DEF Prune, EntryTypes, DoomedRaced, TornStays, SteadyUp,
         StaysListed, SteadyListed
    <2>2. DoomedRaced'
      BY <1>7 DEF Prune, EntryTypes, DoomedRaced, TornStays, SteadyUp,
         StaysListed, SteadyListed
    <2>3. TornStays'
      BY <1>7 DEF Prune, EntryTypes, DoomedRaced, TornStays, SteadyUp,
         StaysListed, SteadyListed
    <2>4. SteadyUp'
      BY <1>7 DEF Prune, EntryTypes, DoomedRaced, TornStays, SteadyUp,
         StaysListed, SteadyListed
    <2>5. StaysListed'
      BY <1>7 DEF Prune, EntryTypes, DoomedRaced, TornStays, SteadyUp,
         StaysListed, SteadyListed
    <2>6. SteadyListed'
      BY <1>7 DEF Prune, EntryTypes, DoomedRaced, TornStays, SteadyUp,
         StaysListed, SteadyListed
    <2> QED BY <2>1, <2>2, <2>3, <2>4, <2>5, <2>6
  <1>8. ASSUME NEW r \in Pids, NEW p \in Pids, ReadEntry(r, p) PROVE RegInv'
    <2>1. EntryTypes'
      BY <1>8 DEF ReadEntry, Verdict, Alive, EntryTypes, DoomedRaced, TornStays,
         SteadyUp, StaysListed, SteadyListed
    <2>2. DoomedRaced'
      BY <1>8 DEF ReadEntry, Verdict, Alive, EntryTypes, DoomedRaced, TornStays,
         SteadyUp, StaysListed, SteadyListed
    <2>3. TornStays'
      BY <1>8 DEF ReadEntry, Verdict, Alive, EntryTypes, DoomedRaced, TornStays,
         SteadyUp, StaysListed, SteadyListed
    <2>4. SteadyUp'
      BY <1>8 DEF ReadEntry, Verdict, Alive, EntryTypes, DoomedRaced, TornStays,
         SteadyUp, StaysListed, SteadyListed
    <2>5. StaysListed'
      BY <1>8 DEF ReadEntry, Verdict, Alive, EntryTypes, DoomedRaced, TornStays,
         SteadyUp, StaysListed, SteadyListed
    <2>6. SteadyListed'
      BY <1>8 DEF ReadEntry, Verdict, Alive, EntryTypes, DoomedRaced, TornStays,
         SteadyUp, StaysListed, SteadyListed
    <2> QED BY <2>1, <2>2, <2>3, <2>4, <2>5, <2>6
  <1>9. CASE UNCHANGED regVars
     BY <1>9 DEF regVars, EntryTypes, DoomedRaced, TornStays, SteadyUp,
        StaysListed, SteadyListed
  <1> QED BY <1>1, <1>2, <1>3, <1>4, <1>5, <1>6, <1>7, <1>8, <1>9 DEF RegNext

(* Types.                                                                  *)
LEMMA RegTyped == RegInit => RegTypeOK
  BY PeerRegistryAssumption, FS_EmptySet DEF RegInit, RegTypeOK

LEMMA RegStepTyped == RegTypeOK /\ [RegNext]_regVars => RegTypeOK'
  <1> SUFFICES ASSUME RegTypeOK, [RegNext]_regVars PROVE RegTypeOK'
    OBVIOUS
  <1> USE PeerRegistryAssumption DEF RegTypeOK, ScanVars
  <1>e. Cardinality({}) = 0 /\ \A p : Cardinality({p}) = 1
    BY FS_EmptySet, FS_Singleton
  <1>1. ASSUME NEW p \in Pids, Launch(p) \/ CreateEntry(p) \/ WriteEntry(p) PROVE RegTypeOK'
    BY <1>1 DEF Launch, CreateEntry, WriteEntry
  <1>2. ASSUME NEW p \in Pids, Deregister(p) \/ Kill(p) PROVE RegTypeOK'
    <2>1. Gone(p) /\ entry' \in [Pids -> {"none", "torn", "full"}]
      BY <1>2 DEF Deregister, Kill
    <2>2. \A q \in Pids : doomed'[q] = {} \/ doomed'[q] = doomed[q]
      BY <2>1 DEF Gone
    <2>3. \A q \in Pids : Cardinality(doomed'[q]) <= 1
      <3> TAKE q \in Pids
      <3>1. Cardinality(doomed[q]) <= 1
        OBVIOUS
      <3>2. CASE doomed'[q] = {}
        BY <1>e, <3>2
      <3>3. CASE doomed'[q] = doomed[q]
        BY <3>1, <3>3
      <3> QED
        BY <2>2, <3>2, <3>3
    <2> QED
      BY <2>1, <2>3 DEF Gone
  <1>3. ASSUME NEW r \in Pids, Glob(r) PROVE RegTypeOK'
    BY <1>3 DEF Glob, Present
  <1>4. ASSUME NEW r \in Pids, Prune(r) PROVE RegTypeOK'
    BY <1>4, <1>e DEF Prune
  <1>5. ASSUME NEW r \in Pids, NEW p \in Pids, ReadEntry(r, p) PROVE RegTypeOK'
    <2>1. doomed' \in [Pids -> SUBSET Pids] /\ \A q \in Pids : Cardinality(doomed'[q]) <= 1
      <3> DEFINE d == IF Verdict(p) = "remove" THEN {p} ELSE {}
      <3>1. doomed' = [doomed EXCEPT ![r] = d] /\ (d = {} \/ d = {p})
        BY <1>5 DEF ReadEntry
      <3> HIDE DEF d
      <3>2. /\ doomed' \in [Pids -> SUBSET Pids]
            /\ \A q \in Pids : doomed'[q] = IF q = r THEN d ELSE doomed[q]
        BY <3>1
      <3>3. Cardinality(d) <= 1
        <4>1. CASE d = {}
          <5>1. Cardinality(d) = 0
            BY ONLY <4>1, <1>e
          <5> QED
            BY ONLY <5>1
        <4>2. CASE d = {p}
          <5>1. Cardinality(d) = 1
            BY ONLY <4>2, <1>e
          <5> QED
            BY ONLY <5>1
        <4> QED
          BY <3>1, <4>1, <4>2
      <3>4. \A q \in Pids : Cardinality(doomed[q]) <= 1
        OBVIOUS
      <3>5. \A q \in Pids : Cardinality(doomed'[q]) <= 1
        <4> TAKE q \in Pids
        <4>1. CASE q = r
          BY <3>2, <3>3, <4>1
        <4>2. CASE q # r
          BY <3>2, <3>4, <4>2
        <4> QED
          BY <4>1, <4>2
      <3> QED
        BY <3>2, <3>5
    <2>2. listed' \in [Pids -> SUBSET Pids]
      <3>1. listed' = [listed EXCEPT ![r] = listed[r] \cup {p}] \/ listed' = listed
        BY <1>5 DEF ReadEntry
      <3> QED
        BY <3>1
    <2>3. /\ todo' \in [Pids -> SUBSET Pids] /\ raced' \subseteq Pids
          /\ UNCHANGED <<entry, proc, steady, scans>>
      BY <1>5 DEF ReadEntry
    <2> QED
      BY <2>1, <2>2, <2>3
  <1>6. CASE UNCHANGED regVars
    BY <1>6 DEF regVars
  <1> QED
    BY <1>1, <1>2, <1>3, <1>4, <1>5, <1>6 DEF RegNext

(* However many processes start, scan, prune and crash, a live dashboard   *)
(* stays in the directory and in every answer, but for the two races named *)
(* with StaysListed.                                                       *)
THEOREM RegistrySafe == RegSpec => [](RegTypeOK /\ PeersListed)
  <1>1. RegInit => RegInv
    BY RegInitInv
  <1>2. RegInv /\ [RegNext]_regVars => RegInv'
    BY RegStepInv
  <1>3. RegInv => PeersListed
    BY DEF RegInv, PeersListed
  <1> QED BY <1>1, <1>2, <1>3, RegTyped, RegStepTyped, PTL DEF RegSpec
-----------------------------------------------------------------------------
(* The live feed.  What Append and Tail do to a queue of events that       *)
(* increase from m on, up to b.                                            *)
Increasing(q, m) ==
  \A i, j \in 1 .. Len(q) : m < q[i] /\ (i < j => q[i] < q[j])
UpTo(q, b) == \A i \in 1 .. Len(q) : q[i] <= b
Newest(q, m) == IF q = <<>> THEN m ELSE q[Len(q)]

LEMMA QueueElements ==
  ASSUME NEW q \in Seq(Nat)
  PROVE  /\ Len(q) \in Nat /\ (q = <<>> <=> Len(q) = 0)
         /\ \A i \in 1 .. Len(q) : q[i] \in Nat
  BY LenProperties, EmptySeq, ElementOfSeq

LEMMA AppendEvent ==
  ASSUME NEW q \in Seq(Nat), NEW m \in Int, NEW b \in Int, NEW e \in Nat,
         Increasing(q, m), UpTo(q, b), m <= b, b < e
  PROVE  /\ Append(q, e) \in Seq(Nat) /\ Len(Append(q, e)) = Len(q) + 1 /\ Len(q) \in Nat
         /\ Increasing(Append(q, e), m) /\ UpTo(Append(q, e), e)
         /\ Newest(Append(q, e), m) = e
  <1> DEFINE r == Append(q, e)
  <1>1. /\ r \in Seq(Nat) /\ Len(r) = Len(q) + 1 /\ Len(q) \in Nat
        /\ \A i \in 1 .. Len(q) : r[i] = q[i]
        /\ r[Len(q) + 1] = e
    BY AppendProperties, LenProperties
  <1>2. \A i \in 1 .. Len(q) : q[i] \in Nat
    BY QueueElements
  <1>3. r # <<>>
    BY <1>1, QueueElements
  <1> HIDE DEF r
  <1>4. Increasing(r, m)
    <2> SUFFICES ASSUME NEW i \in 1 .. Len(r), NEW j \in 1 .. Len(r)
                 PROVE  m < r[i] /\ (i < j => r[i] < r[j])
      BY DEF Increasing
    <2>1. CASE i = Len(q) + 1
      BY <1>1, <2>1
    <2>2. CASE i # Len(q) + 1 /\ j = Len(q) + 1
      <3>1. r[i] = q[i] /\ m < q[i] /\ q[i] <= b /\ q[i] \in Nat
        BY <1>1, <1>2, <2>2 DEF Increasing, UpTo
      <3> QED BY <1>1, <2>2, <3>1
    <2>3. CASE i # Len(q) + 1 /\ j # Len(q) + 1
      <3>1. i \in 1 .. Len(q) /\ j \in 1 .. Len(q)
        BY <1>1, <2>3
      <3> QED BY <1>1, <3>1 DEF Increasing
    <2> QED BY <2>1, <2>2, <2>3
  <1>5. UpTo(r, e)
    <2> SUFFICES ASSUME NEW i \in 1 .. Len(r) PROVE r[i] <= e
      BY DEF UpTo
    <2>1. CASE i = Len(q) + 1
      BY <1>1, <2>1
    <2>2. CASE i # Len(q) + 1
      <3>1. r[i] = q[i] /\ q[i] <= b /\ q[i] \in Nat
        BY <1>1, <1>2, <2>2 DEF UpTo
      <3> QED BY <3>1
    <2> QED BY <2>1, <2>2
  <1> QED BY <1>1, <1>3, <1>4, <1>5 DEF Newest, r

LEMMA TailEvent ==
  ASSUME NEW q \in Seq(Nat), NEW m \in Int, NEW b \in Int, q # <<>>,
         Increasing(q, m), UpTo(q, b)
  PROVE  /\ Tail(q) \in Seq(Nat) /\ Len(Tail(q)) = Len(q) - 1 /\ Len(q) \in Nat
         /\ Increasing(Tail(q), m) /\ Increasing(Tail(q), Head(q)) /\ UpTo(Tail(q), b)
         /\ Head(q) \in Nat /\ Head(q) <= b
         /\ Newest(Tail(q), Head(q)) = Newest(q, m)
  <1> DEFINE r == Tail(q)
  <1>1. /\ r \in Seq(Nat) /\ Len(r) = Len(q) - 1 /\ Len(q) \in Nat
        /\ Head(q) = q[1] /\ \A i \in 1 .. Len(q) - 1 : r[i] = q[i + 1]
    BY HeadTailProperties, LenProperties
  <1>2. /\ \A i \in 1 .. Len(q) : q[i] \in Nat
        /\ Len(q) # 0 /\ (r = <<>> <=> Len(r) = 0)
    BY <1>1, QueueElements
  <1> HIDE DEF r
  <1>3. Increasing(r, m) /\ Increasing(r, q[1])
    <2> SUFFICES ASSUME NEW i \in 1 .. Len(r), NEW j \in 1 .. Len(r)
                 PROVE  m < r[i] /\ q[1] < r[i] /\ (i < j => r[i] < r[j])
      BY DEF Increasing
    <2>1. /\ 1 \in 1 .. Len(q) /\ i + 1 \in 1 .. Len(q) /\ j + 1 \in 1 .. Len(q)
          /\ r[i] = q[i + 1] /\ r[j] = q[j + 1] /\ 1 < i + 1 /\ (i < j => i + 1 < j + 1)
      <3>1. i \in 1 .. Len(q) - 1 /\ j \in 1 .. Len(q) - 1 /\ Len(q) \in Nat
        BY <1>1
      <3>2. r[i] = q[i + 1] /\ r[j] = q[j + 1]
        BY <1>1, <3>1
      <3> QED BY <3>1, <3>2
    <2> QED BY <2>1 DEF Increasing
  <1>4. UpTo(r, b) /\ q[1] \in Nat /\ q[1] <= b
    <2>1. 1 \in 1 .. Len(q)
      BY <1>1, <1>2
    <2>2. ASSUME NEW i \in 1 .. Len(r) PROVE r[i] <= b
      <3>1. i + 1 \in 1 .. Len(q) /\ r[i] = q[i + 1]
        BY <1>1
      <3> QED BY <3>1 DEF UpTo
    <2> QED BY <1>2, <2>1, <2>2 DEF UpTo
  <1>5. Newest(r, q[1]) = Newest(q, m)
    <2>1. CASE Len(q) = 1
      BY <2>1, <1>1, <1>2 DEF Newest
    <2>2. CASE Len(q) # 1
      BY <2>2, <1>1, <1>2 DEF Newest
    <2> QED BY <2>1, <2>2
  <1> QED BY <1>1, <1>3, <1>4, <1>5 DEF r

(* One call at a time records and publishes, and the mutex of the bus is   *)
(* held from Publish to Published, ...                                     *)
Exclusive ==
  /\ \A c, d \in Calls :
       call[c] \in {"recorded", "publishing"} /\ call[d] \in {"recorded", "publishing"} => c = d
  /\ \A c \in Calls : mu = c <=> call[c] = "publishing"
  /\ \A c \in Calls : call[c] \in {"recorded", "publishing"} => recorded > 0
  /\ \A s \in Streams : fan[s] # "none" => mu # Nobody

(* ... a browser that has not subscribed has nothing queued, ...           *)
NewEmpty == \A s \in Streams : handler[s] = "new" => outbox[s] = <<>> /\ s \notin subs

(* ... an outbox is in order and within its size, ...                      *)
SentInOrder == \A s \in Streams : Increasing(outbox[s], sent[s]) /\ Len(outbox[s]) <= Outbox

(* ... and holds nothing that the fan-out has not reached.                 *)
Reached == \A s \in subs : sent[s] <= FannedOut(s) /\ UpTo(outbox[s], FannedOut(s))

(* The feed of recent calls is within its cap.                             *)
FeedCap == Len(recent) <= RecentCap

BusInv ==
  /\ BusTypeOK /\ FeedCap /\ Exclusive /\ NewEmpty /\ SentInOrder /\ Reached
  /\ SendsOpen /\ FreshestKept /\ ActivityExact

LEMMA BusInitInv == BusInit => BusInv
  <1> SUFFICES ASSUME BusInit PROVE BusInv
    OBVIOUS
  <1> USE EventBusAssumption DEF BusInit
  <1>1. BusTypeOK /\ FeedCap
    BY DEF BusTypeOK, FeedCap
  <1>2. Exclusive /\ NewEmpty /\ SentInOrder /\ Reached /\ SendsOpen /\ FreshestKept
    BY DEF Exclusive, NewEmpty, SentInOrder, Increasing, Reached, SendsOpen, FreshestKept
  <1>3. ActivityExact
    <2>1. {c \in Calls : call[c] = "running"} = {}
      OBVIOUS
    <2> QED BY <2>1, FS_EmptySet DEF ActivityExact
  <1> QED BY <1>1, <1>2, <1>3 DEF BusInv

LEMMA BusStepInv == BusInv /\ [BusNext]_busVars => BusInv'
  <1> SUFFICES ASSUME BusInv, [BusNext]_busVars PROVE BusInv'
    OBVIOUS
  <1> USE EventBusAssumption DEF callVars, streamVars
  <1>t. BusTypeOK /\ FeedCap /\ Exclusive /\ NewEmpty /\ SentInOrder /\ Reached /\ SendsOpen /\ FreshestKept /\ ActivityExact
    BY DEF BusInv
  <1>1. ASSUME NEW c \in Calls, Begin(c) PROVE BusInv'
    <2>1. BusTypeOK'
      BY <1>1, <1>t DEF Begin, BusTypeOK
    <2>2. Exclusive'
      BY <1>1, <1>t DEF Begin, Exclusive, BusTypeOK
    <2>3. NewEmpty'
      BY <1>1, <1>t DEF Begin, NewEmpty, BusTypeOK, SendsOpen
    <2>4. SentInOrder'
      BY <1>1, <1>t DEF Begin, SentInOrder, BusTypeOK
    <2>5. Reached'
      BY <1>1, <1>t DEF Begin, Reached, BusTypeOK, Exclusive, FannedOut, SendsOpen
    <2>6. SendsOpen'
      BY <1>1, <1>t DEF Begin, SendsOpen, BusTypeOK, Exclusive
    <2>7. FreshestKept'
      BY <1>1, <1>t DEF Begin, FreshestKept, BusTypeOK, Exclusive, FannedOut,
         LastOf, SendsOpen, Room
    <2>8. ActivityExact'
      <3>1. {x \in Calls : call'[x] = "running"} = {x \in Calls : call[x] = "running"} \cup {c}
        BY <1>1, <1>t DEF Begin, BusTypeOK
      <3>2. IsFiniteSet({x \in Calls : call[x] = "running"})
        BY FS_Subset
      <3>c. c \in Calls /\ (call[c] = "running" <=> c \in {x \in Calls : call[x] = "running"})
        OBVIOUS
      <3>i. inflight = Cardinality({x \in Calls : call[x] = "running"}) /\ inflight \in Int
        BY <1>t DEF ActivityExact, BusTypeOK
      <3> DEFINE alive == {x \in Calls : call[x] = "running"}
      <3>d. Cardinality(alive \cup {c}) = Cardinality(alive) + 1
        <4>1. c \notin alive
          BY <1>1, <3>c DEF Begin
        <4> HIDE DEF alive
        <4> QED BY <3>2, <4>1, FS_AddElement DEF alive
      <3>3. Cardinality({x \in Calls : call'[x] = "running"}) = inflight'
        BY <1>1, <3>1, <3>i, <3>d DEF Begin
      <3> QED BY <1>1, <1>t, <3>3 DEF Begin, ActivityExact
    <2>9. FeedCap'
      BY <1>1, <1>t DEF Begin, FeedCap
    <2> QED BY <2>1, <2>2, <2>3, <2>4, <2>5, <2>6, <2>7, <2>8, <2>9 DEF BusInv
  <1>2. ASSUME NEW c \in Calls, End(c) PROVE BusInv'
    <2>1. BusTypeOK'
      BY <1>2, <1>t DEF End, BusTypeOK
    <2>2. Exclusive'
      BY <1>2, <1>t DEF End, Exclusive, BusTypeOK
    <2>3. NewEmpty'
      BY <1>2, <1>t DEF End, NewEmpty, BusTypeOK, SendsOpen
    <2>4. SentInOrder'
      BY <1>2, <1>t DEF End, SentInOrder, BusTypeOK
    <2>5. Reached'
      BY <1>2, <1>t DEF End, Reached, BusTypeOK, Exclusive, FannedOut, SendsOpen
    <2>6. SendsOpen'
      BY <1>2, <1>t DEF End, SendsOpen, BusTypeOK, Exclusive
    <2>7. FreshestKept'
      BY <1>2, <1>t DEF End, FreshestKept, BusTypeOK, Exclusive, FannedOut,
         LastOf, SendsOpen, Room
    <2>8. ActivityExact'
      <3>1. {x \in Calls : call'[x] = "running"} = {x \in Calls : call[x] = "running"} \ {c}
        BY <1>2, <1>t DEF End, BusTypeOK
      <3>2. IsFiniteSet({x \in Calls : call[x] = "running"})
        BY FS_Subset
      <3>c. c \in Calls /\ (call[c] = "running" <=> c \in {x \in Calls : call[x] = "running"})
        OBVIOUS
      <3>i. inflight = Cardinality({x \in Calls : call[x] = "running"}) /\ inflight \in Int
        BY <1>t DEF ActivityExact, BusTypeOK
      <3> DEFINE alive == {x \in Calls : call[x] = "running"}
      <3>d. Cardinality(alive \ {c}) = Cardinality(alive) - 1
        <4>1. c \in alive
          BY <1>2, <3>c DEF End
        <4> HIDE DEF alive
        <4> QED BY <3>2, <4>1, FS_RemoveElement DEF alive
      <3>3. Cardinality({x \in Calls : call'[x] = "running"}) = inflight'
        BY <1>2, <3>1, <3>i, <3>d DEF End
      <3> QED BY <1>2, <1>t, <3>3 DEF End, ActivityExact
    <2>9. FeedCap'
      BY <1>2, <1>t DEF End, FeedCap
    <2> QED BY <2>1, <2>2, <2>3, <2>4, <2>5, <2>6, <2>7, <2>8, <2>9 DEF BusInv
  <1>3. ASSUME NEW c \in Calls, Record(c) PROVE BusInv'
    <2> DEFINE e == recorded + 1
               q == Append(recent, e)
    <2>t. recent \in Seq(Nat) /\ recorded \in Nat /\ e \in Nat
      BY <1>t DEF BusTypeOK
    <2>q. /\ q \in Seq(Nat) /\ Len(q) = Len(recent) + 1 /\ Len(recent) \in Nat
          /\ \A k \in 1 .. Len(recent) : q[k] = recent[k]
          /\ q[Len(recent) + 1] = e
      BY <2>t, AppendProperties, LenProperties
    <2>r. recent' = Capped(q) /\ recorded' = e
      BY <1>3 DEF Record
    <2>u. q # <<>>
      BY <2>t, AppendType
    <2>v. /\ Tail(q) \in Seq(Nat) /\ Len(Tail(q)) = Len(q) - 1
          /\ \A k \in 1 .. Len(q) - 1 : Tail(q)[k] = q[k + 1]
      BY <2>q, <2>u, HeadTailProperties
    <2>w. /\ \A k \in 1 .. Len(recent) : recent[k] = recorded - Len(recent) + k
          /\ Len(recent) = RecentCap \/ Len(recent) = recorded
      BY <1>t DEF ActivityExact
    <2>1. BusTypeOK'
      <3> HIDE DEF q
      <3>1. recent' \in Seq(Nat)
        BY <2>q, <2>r, <2>v DEF Capped
      <3> QED BY <1>3, <1>t, <3>1 DEF Record, BusTypeOK
    <2>2. Exclusive'
      BY <1>3, <1>t DEF Record, Recording, Exclusive, BusTypeOK
    <2>3. NewEmpty'
      BY <1>3, <1>t DEF Record, Recording, NewEmpty, BusTypeOK, SendsOpen
    <2>4. SentInOrder'
      BY <1>3, <1>t DEF Record, Recording, SentInOrder, BusTypeOK
    <2>5. Reached'
      BY <1>3, <1>t DEF Record, Recording, Reached, BusTypeOK, Exclusive,
         FannedOut, SendsOpen
    <2>6. SendsOpen'
      BY <1>3, <1>t DEF Record, Recording, SendsOpen, BusTypeOK, Exclusive
    <2>7. FreshestKept'
      BY <1>3, <1>t DEF Record, Recording, FreshestKept, BusTypeOK, Exclusive,
         FannedOut, LastOf, SendsOpen, Room
    <2>8. ActivityExact'
      <3> HIDE DEF q
      <3>1. \A k \in 1 .. Len(q) : q[k] = e - Len(q) + k
        BY <2>t, <2>q, <2>w
      <3>2. \A k \in 1 .. Len(q) - 1 : Tail(q)[k] = e - (Len(q) - 1) + k
        BY <2>t, <2>q, <2>v, <3>1
      <3>3. /\ \A k \in 1 .. Len(recent') : recent'[k] = recorded' - Len(recent') + k
            /\ Len(recent') = RecentCap \/ Len(recent') = recorded'
        <4>0. RecentCap \in Nat /\ RecentCap > 0 /\ Len(recent) <= RecentCap
          BY <1>t DEF FeedCap
        <4>1. CASE Len(q) > RecentCap
          <5>1. recent' = Tail(q) /\ Len(recent') = Len(q) - 1
            BY <2>r, <2>v, <4>1 DEF Capped
          <5>2. Len(recent') = RecentCap
            BY <2>t, <2>q, <2>w, <4>0, <4>1, <5>1
          <5> QED BY <2>r, <3>2, <5>1, <5>2
        <4>2. CASE ~(Len(q) > RecentCap)
          <5>1. recent' = q
            BY <2>r, <4>2 DEF Capped
          <5>2. Len(q) = RecentCap \/ Len(q) = e
            BY <2>t, <2>q, <2>w, <4>0, <4>2
          <5> QED BY <2>r, <3>1, <5>1, <5>2
        <4> QED BY <4>1, <4>2
      <3>4. {x \in Calls : call'[x] = "running"} = {x \in Calls : call[x] = "running"}
        BY <1>3, <1>t DEF Record, BusTypeOK
      <3> QED BY <1>3, <1>t, <3>3, <3>4 DEF Record, ActivityExact
    <2>9. FeedCap'
      <3> HIDE DEF q
      <3>1. RecentCap \in Nat /\ Len(recent) <= RecentCap
        BY <1>t DEF FeedCap
      <3>2. CASE Len(q) > RecentCap
        BY <2>q, <2>r, <2>v, <3>1, <3>2 DEF Capped, FeedCap
      <3>3. CASE ~(Len(q) > RecentCap)
        BY <2>q, <2>r, <3>1, <3>3 DEF Capped, FeedCap
      <3> QED BY <3>2, <3>3
    <2> QED BY <2>1, <2>2, <2>3, <2>4, <2>5, <2>6, <2>7, <2>8, <2>9 DEF BusInv
  <1>4. ASSUME NEW c \in Calls, Publish(c) PROVE BusInv'
    <2>1. BusTypeOK'
      BY <1>4, <1>t DEF Publish, BusTypeOK
    <2>2. Exclusive'
      BY <1>4, <1>t DEF Publish, Exclusive, BusTypeOK
    <2>3. NewEmpty'
      BY <1>4, <1>t DEF Publish, NewEmpty, BusTypeOK, SendsOpen
    <2>4. SentInOrder'
      BY <1>4, <1>t DEF Publish, SentInOrder, BusTypeOK
    <2>5. Reached'
      BY <1>4, <1>t DEF Publish, Reached, BusTypeOK, Exclusive, FannedOut, SendsOpen
    <2>6. SendsOpen'
      BY <1>4, <1>t DEF Publish, SendsOpen, BusTypeOK, Exclusive
    <2>7. FreshestKept'
      BY <1>4, <1>t DEF Publish, FreshestKept, BusTypeOK, Exclusive, FannedOut,
         LastOf, SendsOpen, Room
    <2>8. ActivityExact'
      <3>1. {x \in Calls : call'[x] = "running"} = {x \in Calls : call[x] = "running"}
        BY <1>4, <1>t DEF Publish, BusTypeOK
      <3> QED BY <1>4, <1>t, <3>1 DEF Publish, ActivityExact
    <2>9. FeedCap'
      BY <1>4, <1>t DEF Publish, FeedCap
    <2> QED BY <2>1, <2>2, <2>3, <2>4, <2>5, <2>6, <2>7, <2>8, <2>9 DEF BusInv
  <1>5. ASSUME NEW s \in Streams, Offer(s) PROVE BusInv'
    <2>t. /\ outbox[s] \in Seq(Nat) /\ sent[s] \in Int /\ recorded \in Nat /\ Outbox \in Nat
          /\ Increasing(outbox[s], sent[s]) /\ Len(outbox[s]) <= Outbox
          /\ Len(outbox[s]) \in Nat /\ (outbox[s] = <<>> <=> Len(outbox[s]) = 0)
      BY <1>t, QueueElements DEF BusTypeOK, SentInOrder
    <2>u. UNCHANGED <<call, recorded, recent, inflight, mu, subs, handler, gone>>
      BY <1>5 DEF Offer, Send, At, Room
    <2>f. /\ s \in subs /\ fan[s] = "offer" /\ FannedOut(s) = recorded - 1
          /\ sent[s] <= recorded - 1 /\ UpTo(outbox[s], recorded - 1)
          /\ ~(\E c \in Calls : call[c] = "recorded")
      BY <1>5, <1>t DEF Offer, Send, At, Room, SendsOpen, Reached, FannedOut,
         Exclusive, BusTypeOK
    <2>1. CASE Room(s)
      <3>1. /\ outbox' = [outbox EXCEPT ![s] = Append(outbox[s], recorded)]
            /\ fan' = [fan EXCEPT ![s] = "none"] /\ sent' = sent /\ Len(outbox[s]) < Outbox
        BY <1>5, <1>t, <2>1, <2>t DEF Offer, Send, At, Room, BusTypeOK
      <3>p. recorded - 1 \in Int /\ recorded - 1 < recorded
        BY <2>t
      <3>2. /\ outbox'[s] \in Seq(Nat) /\ Increasing(outbox'[s], sent'[s]) /\ Len(outbox'[s]) <= Outbox
            /\ UpTo(outbox'[s], recorded) /\ Newest(outbox'[s], sent'[s]) = recorded
            /\ fan'[s] = "none" /\ sent'[s] <= recorded
        BY <3>p, <1>5, <1>t, <2>1, <2>t, <2>f, <3>1, AppendEvent DEF BusTypeOK
      <3>3. BusTypeOK'
        BY <1>t, <2>u, <3>1, <3>2 DEF BusTypeOK
      <3>4. Exclusive' /\ SendsOpen' /\ NewEmpty' /\ ActivityExact' /\ FeedCap'
        BY <1>5, <1>t, <2>u, <3>1 DEF Offer, Send, At, Room, Exclusive, SendsOpen,
           NewEmpty, ActivityExact, FeedCap, BusTypeOK
      <3>5. SentInOrder'
        BY <1>t, <2>u, <3>1, <3>2 DEF SentInOrder, BusTypeOK
      <3>6. Reached'
        BY <1>t, <2>u, <2>f, <3>1, <3>2 DEF Reached, FannedOut, BusTypeOK
      <3>7. FreshestKept'
        BY <1>t, <2>u, <2>f, <3>1, <3>2 DEF FreshestKept, FannedOut, LastOf,
           Newest, Room, BusTypeOK
      <3> QED BY <3>3, <3>4, <3>5, <3>6, <3>7 DEF BusInv
    <2>2. CASE ~Room(s)
      <3>1. /\ outbox' = outbox /\ fan' = [fan EXCEPT ![s] = "drop"] /\ sent' = sent
        BY <1>5, <1>t, <2>2, <2>t DEF Offer, Send, At, Room, BusTypeOK
      <3>p. recorded - 1 \in Int /\ recorded - 1 < recorded
        BY <2>t
      <3>2. outbox'[s] = outbox[s] /\ sent'[s] = sent[s] /\ fan'[s] = "drop"
        BY <3>p, <1>5, <1>t, <2>2, <2>t, <2>f, <3>1 DEF BusTypeOK
      <3>3. BusTypeOK'
        BY <1>t, <2>u, <3>1, <3>2 DEF BusTypeOK
      <3>4. Exclusive' /\ SendsOpen' /\ NewEmpty' /\ ActivityExact' /\ FeedCap'
        BY <1>5, <1>t, <2>u, <3>1 DEF Offer, Send, At, Room, Exclusive, SendsOpen,
           NewEmpty, ActivityExact, FeedCap, BusTypeOK
      <3>5. SentInOrder'
        BY <1>t, <2>u, <3>1, <3>2 DEF SentInOrder, BusTypeOK
      <3>6. Reached'
        BY <1>t, <2>u, <2>f, <3>1, <3>2 DEF Reached, FannedOut, BusTypeOK
      <3>7. FreshestKept'
        BY <1>t, <2>u, <2>f, <3>1, <3>2 DEF FreshestKept, FannedOut, LastOf,
           Newest, Room, BusTypeOK
      <3> QED BY <3>3, <3>4, <3>5, <3>6, <3>7 DEF BusInv
    <2> QED BY <1>5, <2>1, <2>2 DEF Offer, Send, At, Room
  <1>6. ASSUME NEW s \in Streams, Drop(s) PROVE BusInv'
    <2>t. /\ outbox[s] \in Seq(Nat) /\ sent[s] \in Int /\ recorded \in Nat /\ Outbox \in Nat
          /\ Increasing(outbox[s], sent[s]) /\ Len(outbox[s]) <= Outbox
          /\ Len(outbox[s]) \in Nat /\ (outbox[s] = <<>> <=> Len(outbox[s]) = 0)
      BY <1>t, QueueElements DEF BusTypeOK, SentInOrder
    <2>u. UNCHANGED <<call, recorded, recent, inflight, mu, subs, handler, gone>>
      BY <1>6 DEF Drop, At
    <2>f. /\ s \in subs /\ fan[s] = "drop" /\ FannedOut(s) = recorded - 1
          /\ sent[s] <= recorded - 1 /\ UpTo(outbox[s], recorded - 1)
          /\ ~(\E c \in Calls : call[c] = "recorded")
      BY <1>6, <1>t DEF Drop, At, SendsOpen, Reached, FannedOut, Exclusive, BusTypeOK
    <2>1. CASE outbox[s] = <<>>
      <3>1. /\ outbox' = outbox /\ fan' = [fan EXCEPT ![s] = "retry"] /\ sent' = sent
        BY <1>6, <1>t, <2>1, <2>t DEF Drop, At, BusTypeOK
      <3>p. recorded - 1 \in Int /\ recorded - 1 < recorded
        BY <2>t
      <3>2. outbox'[s] = outbox[s] /\ sent'[s] = sent[s] /\ fan'[s] = "retry" /\ Len(outbox'[s]) < Outbox
        BY <3>p, <1>6, <1>t, <2>1, <2>t, <2>f, <3>1 DEF BusTypeOK
      <3>3. BusTypeOK'
        BY <1>t, <2>u, <3>1, <3>2 DEF BusTypeOK
      <3>4. Exclusive' /\ SendsOpen' /\ NewEmpty' /\ ActivityExact' /\ FeedCap'
        BY <1>6, <1>t, <2>u, <3>1 DEF Drop, At, Exclusive, SendsOpen, NewEmpty,
           ActivityExact, FeedCap, BusTypeOK
      <3>5. SentInOrder'
        BY <1>t, <2>u, <3>1, <3>2 DEF SentInOrder, BusTypeOK
      <3>6. Reached'
        BY <1>t, <2>u, <2>f, <3>1, <3>2 DEF Reached, FannedOut, BusTypeOK
      <3>7. FreshestKept'
        BY <1>t, <2>u, <2>f, <3>1, <3>2 DEF FreshestKept, FannedOut, LastOf,
           Newest, Room, BusTypeOK
      <3> QED BY <3>3, <3>4, <3>5, <3>6, <3>7 DEF BusInv
    <2>2. CASE outbox[s] # <<>>
      <3>1. /\ outbox' = [outbox EXCEPT ![s] = Tail(outbox[s])]
            /\ fan' = [fan EXCEPT ![s] = "retry"] /\ sent' = sent
        BY <1>6, <1>t, <2>2, <2>t DEF Drop, At, BusTypeOK
      <3>p. recorded - 1 \in Int /\ recorded - 1 < recorded
        BY <2>t
      <3>2. /\ outbox'[s] \in Seq(Nat) /\ Increasing(outbox'[s], sent'[s]) /\ Len(outbox'[s]) < Outbox
            /\ UpTo(outbox'[s], recorded - 1) /\ fan'[s] = "retry" /\ sent'[s] = sent[s]
        BY <3>p, <1>6, <1>t, <2>2, <2>t, <2>f, <3>1, TailEvent DEF BusTypeOK
      <3>3. BusTypeOK'
        BY <1>t, <2>u, <3>1, <3>2 DEF BusTypeOK
      <3>4. Exclusive' /\ SendsOpen' /\ NewEmpty' /\ ActivityExact' /\ FeedCap'
        BY <1>6, <1>t, <2>u, <3>1 DEF Drop, At, Exclusive, SendsOpen, NewEmpty,
           ActivityExact, FeedCap, BusTypeOK
      <3>5. SentInOrder'
        BY <1>t, <2>u, <3>1, <3>2 DEF SentInOrder, BusTypeOK
      <3>6. Reached'
        BY <1>t, <2>u, <2>f, <3>1, <3>2 DEF Reached, FannedOut, BusTypeOK
      <3>7. FreshestKept'
        BY <1>t, <2>u, <2>f, <3>1, <3>2 DEF FreshestKept, FannedOut, LastOf,
           Newest, Room, BusTypeOK
      <3> QED BY <3>3, <3>4, <3>5, <3>6, <3>7 DEF BusInv
    <2> QED BY <1>6, <2>1, <2>2 DEF Drop, At
  <1>7. ASSUME NEW s \in Streams, Retry(s) PROVE BusInv'
    <2>t. /\ outbox[s] \in Seq(Nat) /\ sent[s] \in Int /\ recorded \in Nat /\ Outbox \in Nat
          /\ Increasing(outbox[s], sent[s]) /\ Len(outbox[s]) <= Outbox
          /\ Len(outbox[s]) \in Nat /\ (outbox[s] = <<>> <=> Len(outbox[s]) = 0)
      BY <1>t, QueueElements DEF BusTypeOK, SentInOrder
    <2>u. UNCHANGED <<call, recorded, recent, inflight, mu, subs, handler, gone>>
      BY <1>7 DEF Retry, Send, At, Room
    <2>f. /\ s \in subs /\ fan[s] = "retry" /\ FannedOut(s) = recorded - 1
          /\ sent[s] <= recorded - 1 /\ UpTo(outbox[s], recorded - 1)
          /\ ~(\E c \in Calls : call[c] = "recorded")
      BY <1>7, <1>t DEF Retry, Send, At, Room, SendsOpen, Reached, FannedOut,
         Exclusive, BusTypeOK
    <2>1. CASE Room(s)
      <3>1. /\ outbox' = [outbox EXCEPT ![s] = Append(outbox[s], recorded)]
            /\ fan' = [fan EXCEPT ![s] = "none"] /\ sent' = sent /\ Len(outbox[s]) < Outbox
        BY <1>7, <1>t, <2>1, <2>t DEF Retry, Send, At, Room, BusTypeOK
      <3>p. recorded - 1 \in Int /\ recorded - 1 < recorded
        BY <2>t
      <3>2. /\ outbox'[s] \in Seq(Nat) /\ Increasing(outbox'[s], sent'[s]) /\ Len(outbox'[s]) <= Outbox
            /\ UpTo(outbox'[s], recorded) /\ Newest(outbox'[s], sent'[s]) = recorded
            /\ fan'[s] = "none" /\ sent'[s] <= recorded
        BY <3>p, <1>7, <1>t, <2>1, <2>t, <2>f, <3>1, AppendEvent DEF BusTypeOK
      <3>3. BusTypeOK'
        BY <1>t, <2>u, <3>1, <3>2 DEF BusTypeOK
      <3>4. Exclusive' /\ SendsOpen' /\ NewEmpty' /\ ActivityExact' /\ FeedCap'
        BY <1>7, <1>t, <2>u, <3>1 DEF Retry, Send, At, Room, Exclusive, SendsOpen,
           NewEmpty, ActivityExact, FeedCap, BusTypeOK
      <3>5. SentInOrder'
        BY <1>t, <2>u, <3>1, <3>2 DEF SentInOrder, BusTypeOK
      <3>6. Reached'
        BY <1>t, <2>u, <2>f, <3>1, <3>2 DEF Reached, FannedOut, BusTypeOK
      <3>7. FreshestKept'
        BY <1>t, <2>u, <2>f, <3>1, <3>2 DEF FreshestKept, FannedOut, LastOf,
           Newest, Room, BusTypeOK
      <3> QED BY <3>3, <3>4, <3>5, <3>6, <3>7 DEF BusInv
    <2>2. CASE ~Room(s)
      <3>1. /\ outbox' = outbox /\ fan' = [fan EXCEPT ![s] = "none"] /\ sent' = sent
        BY <1>7, <1>t, <2>2, <2>t DEF Retry, Send, At, Room, BusTypeOK
      <3>p. recorded - 1 \in Int /\ recorded - 1 < recorded
        BY <2>t
      <3>2. FALSE
        BY <3>p, <1>7, <1>t, <2>2, <2>t, <2>f, <3>1, <1>t DEF BusTypeOK, FreshestKept
      <3>3. BusTypeOK'
        BY <1>t, <2>u, <3>1, <3>2 DEF BusTypeOK
      <3>4. Exclusive' /\ SendsOpen' /\ NewEmpty' /\ ActivityExact' /\ FeedCap'
        BY <1>7, <1>t, <2>u, <3>1 DEF Retry, Send, At, Room, Exclusive, SendsOpen,
           NewEmpty, ActivityExact, FeedCap, BusTypeOK
      <3>5. SentInOrder'
        BY <1>t, <2>u, <3>1, <3>2 DEF SentInOrder, BusTypeOK
      <3>6. Reached'
        BY <1>t, <2>u, <2>f, <3>1, <3>2 DEF Reached, FannedOut, BusTypeOK
      <3>7. FreshestKept'
        BY <1>t, <2>u, <2>f, <3>1, <3>2 DEF FreshestKept, FannedOut, LastOf,
           Newest, Room, BusTypeOK
      <3> QED BY <3>3, <3>4, <3>5, <3>6, <3>7 DEF BusInv
    <2> QED BY <1>7, <2>1, <2>2 DEF Retry, Send, At, Room
  <1>8. ASSUME NEW c \in Calls, Published(c) PROVE BusInv'
    <2>1. BusTypeOK'
      BY <1>8, <1>t DEF Published, BusTypeOK
    <2>2. Exclusive'
      BY <1>8, <1>t DEF Published, Exclusive, BusTypeOK
    <2>3. NewEmpty'
      BY <1>8, <1>t DEF Published, NewEmpty, BusTypeOK, SendsOpen
    <2>4. SentInOrder'
      BY <1>8, <1>t DEF Published, SentInOrder, BusTypeOK
    <2>5. Reached'
      BY <1>8, <1>t DEF Published, Reached, BusTypeOK, Exclusive, FannedOut, SendsOpen
    <2>6. SendsOpen'
      BY <1>8, <1>t DEF Published, SendsOpen, BusTypeOK, Exclusive
    <2>7. FreshestKept'
      BY <1>8, <1>t DEF Published, FreshestKept, BusTypeOK, Exclusive, FannedOut,
         LastOf, SendsOpen, Room
    <2>8. ActivityExact'
      <3>1. {x \in Calls : call'[x] = "running"} = {x \in Calls : call[x] = "running"}
        BY <1>8, <1>t DEF Published, BusTypeOK
      <3> QED BY <1>8, <1>t, <3>1 DEF Published, ActivityExact
    <2>9. FeedCap'
      BY <1>8, <1>t DEF Published, FeedCap
    <2> QED BY <2>1, <2>2, <2>3, <2>4, <2>5, <2>6, <2>7, <2>8, <2>9 DEF BusInv
  <1>9. ASSUME NEW s \in Streams, Subscribe(s) PROVE BusInv'
    <2>1. BusTypeOK'
      BY <1>9, <1>t DEF Subscribe, Recording, BusTypeOK
    <2>2. Exclusive'
      BY <1>9, <1>t DEF Subscribe, Recording, Exclusive, BusTypeOK
    <2>3. NewEmpty'
      BY <1>9, <1>t DEF Subscribe, Recording, NewEmpty, BusTypeOK, SendsOpen
    <2>4. SentInOrder'
      <3>1. outbox'[s] = <<>>
        BY <1>9, <1>t DEF Subscribe, NewEmpty
      <3>2. outbox' = outbox /\ \A x \in Streams \ {s} : sent'[x] = sent[x]
        BY <1>9, <1>t DEF Subscribe, BusTypeOK
      <3>3. Increasing(outbox'[s], sent'[s]) /\ Len(outbox'[s]) <= Outbox
        BY <3>1, <1>t, EmptyBatch DEF Increasing, SentInOrder, Subscribe
      <3> QED BY <1>t, <3>2, <3>3 DEF SentInOrder
    <2>5. Reached'
      <3>1. /\ outbox'[s] = <<>> /\ sent'[s] <= FannedOut(s)'
        BY <1>9, <1>t DEF Subscribe, Recording, FannedOut, BusTypeOK, Exclusive,
           NewEmpty, SendsOpen
      <3>2. UpTo(outbox'[s], FannedOut(s)')
        BY <3>1 DEF UpTo
      <3>3. ASSUME NEW x \in subs', x # s PROVE sent'[x] <= FannedOut(x)' /\ UpTo(outbox'[x], FannedOut(x)')
        BY <1>9, <1>t, <3>3 DEF Subscribe, FannedOut, BusTypeOK, Reached
      <3> QED BY <3>1, <3>2, <3>3 DEF Reached
    <2>6. SendsOpen'
      BY <1>9, <1>t DEF Subscribe, Recording, SendsOpen, BusTypeOK, Exclusive
    <2>7. FreshestKept'
      <3>1. LastOf(s)' = FannedOut(s)' /\ fan'[s] = "none"
        BY <1>9, <1>t DEF Subscribe, Recording, FannedOut, LastOf, BusTypeOK,
           Exclusive, NewEmpty, SendsOpen
      <3>2. ASSUME NEW x \in subs', x # s
            PROVE IF fan'[x] = "retry" THEN Room(x)' ELSE LastOf(x)' = FannedOut(x)'
        BY <1>9, <1>t, <3>2 DEF Subscribe, FannedOut, LastOf, Room, BusTypeOK,
           FreshestKept
      <3> QED BY <3>1, <3>2 DEF FreshestKept
    <2>8. ActivityExact'
      BY <1>9, <1>t DEF Subscribe, Recording, ActivityExact
    <2>9. FeedCap'
      BY <1>9, <1>t DEF Subscribe, Recording, FeedCap
    <2> QED BY <2>1, <2>2, <2>3, <2>4, <2>5, <2>6, <2>7, <2>8, <2>9 DEF BusInv
  <1>10. ASSUME NEW s \in Streams, Receive(s) PROVE BusInv'
    <2>t. /\ outbox[s] \in Seq(Nat) /\ sent[s] \in Int /\ recorded \in Nat /\ Outbox \in Nat
          /\ Increasing(outbox[s], sent[s]) /\ Len(outbox[s]) <= Outbox
          /\ Len(outbox[s]) \in Nat /\ (outbox[s] = <<>> <=> Len(outbox[s]) = 0)
      BY <1>t, QueueElements DEF BusTypeOK, SentInOrder
    <2>u. UNCHANGED <<call, recorded, recent, inflight, mu, subs, handler, gone>>
      BY <1>10 DEF Receive
    <2>1. CASE handler[s] = "running"
      <3>1. /\ outbox' = [outbox EXCEPT ![s] = Tail(outbox[s])] /\ outbox[s] # <<>>
            /\ fan' = fan /\ sent' = [sent EXCEPT ![s] = Head(outbox[s])]
        BY <1>10, <1>t, <2>1, <2>t DEF Receive, BusTypeOK
      <3>p. recorded - 1 \in Int /\ recorded - 1 < recorded
        BY <2>t
      <3>2. /\ outbox'[s] \in Seq(Nat) /\ Increasing(outbox'[s], sent'[s]) /\ Len(outbox'[s]) < Outbox
            /\ sent'[s] \in Nat /\ Newest(outbox'[s], sent'[s]) = Newest(outbox[s], sent[s])
            /\ \A b \in Int : UpTo(outbox[s], b) => UpTo(outbox'[s], b) /\ sent'[s] <= b
        <4>1. outbox'[s] = Tail(outbox[s]) /\ sent'[s] = Head(outbox[s])
          BY <1>t, <3>1 DEF BusTypeOK
        <4>2. ASSUME NEW b \in Int, UpTo(outbox[s], b) PROVE UpTo(outbox'[s], b) /\ sent'[s] <= b
          BY <2>t, <3>1, <4>1, <4>2, TailEvent
        <4>3. UpTo(outbox[s], outbox[s][Len(outbox[s])]) /\ outbox[s][Len(outbox[s])] \in Int
          <5>1. Len(outbox[s]) \in 1 .. Len(outbox[s])
            BY <2>t, <3>1
          <5>2. ASSUME NEW i \in 1 .. Len(outbox[s]) PROVE outbox[s][i] <= outbox[s][Len(outbox[s])]
            <6>1. outbox[s][i] \in Nat /\ (i < Len(outbox[s]) \/ i = Len(outbox[s]))
              BY <2>t, QueueElements
            <6> QED BY <2>t, <5>1, <6>1 DEF Increasing
          <5> QED BY <2>t, <5>1, <5>2, QueueElements DEF UpTo
        <4>4. /\ Tail(outbox[s]) \in Seq(Nat) /\ Len(Tail(outbox[s])) = Len(outbox[s]) - 1
              /\ Increasing(Tail(outbox[s]), Head(outbox[s])) /\ Head(outbox[s]) \in Nat
              /\ Newest(Tail(outbox[s]), Head(outbox[s])) = Newest(outbox[s], sent[s])
          BY <2>t, <3>1, <4>3, TailEvent
        <4> QED BY <2>t, <4>1, <4>2, <4>4
      <3>3. BusTypeOK'
        BY <1>t, <2>u, <3>1, <3>2 DEF BusTypeOK
      <3>4. Exclusive' /\ SendsOpen' /\ NewEmpty' /\ ActivityExact' /\ FeedCap'
        BY <1>10, <1>t, <2>u, <3>1 DEF Receive, Exclusive, SendsOpen, NewEmpty,
           ActivityExact, FeedCap, BusTypeOK
      <3>5. SentInOrder'
        BY <1>t, <2>u, <3>1, <3>2 DEF SentInOrder, BusTypeOK
      <3>6. Reached'
        BY <1>t, <2>u, <3>1, <3>2 DEF Reached, FannedOut, BusTypeOK
      <3>7. FreshestKept'
        BY <1>t, <2>u, <3>1, <3>2 DEF FreshestKept, FannedOut, LastOf, Newest,
           Room, BusTypeOK
      <3> QED BY <3>3, <3>4, <3>5, <3>6, <3>7 DEF BusInv
    <2> QED BY <1>10, <2>1 DEF Receive
  <1>11. ASSUME NEW s \in Streams, Disconnect(s) PROVE BusInv'
    <2>1. BusTypeOK'
      BY <1>11, <1>t DEF Disconnect, BusTypeOK
    <2>2. Exclusive'
      BY <1>11, <1>t DEF Disconnect, Exclusive, BusTypeOK
    <2>3. NewEmpty'
      BY <1>11, <1>t DEF Disconnect, NewEmpty, BusTypeOK, SendsOpen
    <2>4. SentInOrder'
      BY <1>11, <1>t DEF Disconnect, SentInOrder, BusTypeOK
    <2>5. Reached'
      BY <1>11, <1>t DEF Disconnect, Reached, BusTypeOK, Exclusive, FannedOut,
         SendsOpen
    <2>6. SendsOpen'
      BY <1>11, <1>t DEF Disconnect, SendsOpen, BusTypeOK, Exclusive
    <2>7. FreshestKept'
      BY <1>11, <1>t DEF Disconnect, FreshestKept, BusTypeOK, Exclusive,
         FannedOut, LastOf, SendsOpen, Room
    <2>8. ActivityExact'
      BY <1>11, <1>t DEF Disconnect, ActivityExact
    <2>9. FeedCap'
      BY <1>11, <1>t DEF Disconnect, FeedCap
    <2> QED BY <2>1, <2>2, <2>3, <2>4, <2>5, <2>6, <2>7, <2>8, <2>9 DEF BusInv
  <1>12. ASSUME NEW s \in Streams, StreamReturns(s) PROVE BusInv'
    <2>1. BusTypeOK'
      BY <1>12, <1>t DEF StreamReturns, BusTypeOK
    <2>2. Exclusive'
      BY <1>12, <1>t DEF StreamReturns, Exclusive, BusTypeOK
    <2>3. NewEmpty'
      BY <1>12, <1>t DEF StreamReturns, NewEmpty, BusTypeOK, SendsOpen
    <2>4. SentInOrder'
      BY <1>12, <1>t DEF StreamReturns, SentInOrder, BusTypeOK
    <2>5. Reached'
      BY <1>12, <1>t DEF StreamReturns, Reached, BusTypeOK, Exclusive, FannedOut,
         SendsOpen
    <2>6. SendsOpen'
      BY <1>12, <1>t DEF StreamReturns, SendsOpen, BusTypeOK, Exclusive
    <2>7. FreshestKept'
      BY <1>12, <1>t DEF StreamReturns, FreshestKept, BusTypeOK, Exclusive,
         FannedOut, LastOf, SendsOpen, Room
    <2>8. ActivityExact'
      BY <1>12, <1>t DEF StreamReturns, ActivityExact
    <2>9. FeedCap'
      BY <1>12, <1>t DEF StreamReturns, FeedCap
    <2> QED BY <2>1, <2>2, <2>3, <2>4, <2>5, <2>6, <2>7, <2>8, <2>9 DEF BusInv
  <1>13. ASSUME NEW s \in Streams, Unsubscribe(s) PROVE BusInv'
    <2>1. BusTypeOK'
      BY <1>13, <1>t DEF Unsubscribe, MayUnsubscribe, BusTypeOK
    <2>2. Exclusive'
      BY <1>13, <1>t DEF Unsubscribe, MayUnsubscribe, Exclusive, BusTypeOK
    <2>3. NewEmpty'
      BY <1>13, <1>t DEF Unsubscribe, MayUnsubscribe, NewEmpty, BusTypeOK, SendsOpen
    <2>4. SentInOrder'
      BY <1>13, <1>t DEF Unsubscribe, MayUnsubscribe, SentInOrder, BusTypeOK
    <2>5. Reached'
      BY <1>13, <1>t DEF Unsubscribe, MayUnsubscribe, Reached, BusTypeOK,
         Exclusive, FannedOut, SendsOpen
    <2>6. SendsOpen'
      BY <1>13, <1>t DEF Unsubscribe, MayUnsubscribe, SendsOpen, BusTypeOK, Exclusive
    <2>7. FreshestKept'
      BY <1>13, <1>t DEF Unsubscribe, MayUnsubscribe, FreshestKept, BusTypeOK,
         Exclusive, FannedOut, LastOf, SendsOpen, Room
    <2>8. ActivityExact'
      BY <1>13, <1>t DEF Unsubscribe, MayUnsubscribe, ActivityExact
    <2>9. FeedCap'
      BY <1>13, <1>t DEF Unsubscribe, MayUnsubscribe, FeedCap
    <2> QED BY <2>1, <2>2, <2>3, <2>4, <2>5, <2>6, <2>7, <2>8, <2>9 DEF BusInv
  <1>14. CASE UNCHANGED busVars
    BY <1>t, <1>14 DEF busVars, BusInv, BusTypeOK, Exclusive, NewEmpty, SentInOrder,
       Reached, SendsOpen, FreshestKept, ActivityExact, FeedCap, FannedOut,
       LastOf, Room
  <1> QED BY <1>1, <1>2, <1>3, <1>4, <1>5, <1>6, <1>7, <1>8, <1>9, <1>10, <1>11,
             <1>12, <1>13, <1>14
          DEF BusNext, CallStep, FanStep

(* Whatever calls and browsers do: no event is sent to a closed channel,   *)
(* every browser sees the events in order and the newest one in the end,   *)
(* and the activity panel is the last calls and the number still running.  *)
THEOREM FeedSafe == BusSpec => [](BusTypeOK /\ LiveFeed)
  <1>1. BusInit => BusInv
    BY BusInitInv
  <1>2. BusInv /\ [BusNext]_busVars => BusInv'
    BY BusStepInv
  <1>3. BusInv => BusTypeOK /\ LiveFeed
    BY DEF BusInv, LiveFeed, SentInOrder, Increasing, Ordered
  <1> QED BY <1>1, <1>2, <1>3, PTL DEF BusSpec

-----------------------------------------------------------------------------
(* The life of a server.  The index closes after the watcher has ended and *)
(* the dashboard the command knows of is out of the registry, ...          *)
BeforeLaunch == main \in {"monitor", "launch"}
AfterJoin == main \in {"joined", "cancelled", "drained", "exited"} \/ index = "closed"
AfterWait == main \in {"drained", "exited"} \/ index = "closed"

ClosedLate == index = "closed" => main \in {"drained", "exited", "panicked"}
WatcherOut ==
  /\ BeforeLaunch => user["watch"] = "off"
  /\ AfterJoin => user["watch"] \in {"off", "done"}
DashboardOut ==
  /\ dash = "done" => ~registered
  /\ AfterWait /\ known = "set" => dash = "done"

(* ... and at most one warm request is past its check, with the state set  *)
(* from its start to its end.                                              *)
OnePost ==
  /\ \A q, r \in Posts : post[q] # "idle" /\ post[r] # "idle" => q = r
  /\ \A q \in Posts : post[q] \in {"running", "finished"} => warming = "inflight"

SrvTypes ==
  /\ user \in [Users -> {"off", "idle", "putting", "done"}]
  /\ post \in [Posts -> {"idle", "checked", "running", "finished"}]
  /\ index \in {"open", "closed"} /\ warming \in {"idle", "inflight"}

SrvInv == SrvTypes /\ ClosedLate /\ WatcherOut /\ DashboardOut /\ OnePost

LEMMA SrvInitInv == SrvInit => SrvInv
  BY ServerAssumption
     DEF SrvInit, SrvStart, SrvInv, SrvTypes, ClosedLate, WatcherOut, DashboardOut, OnePost,
         BeforeLaunch, AfterJoin, AfterWait, Users

LEMMA SrvStepInv == SrvInv /\ [SrvNext]_srvVars => SrvInv'
  <1> SUFFICES ASSUME SrvInv, [SrvNext]_srvVars PROVE SrvInv'
    OBVIOUS
  <1> USE DEF SrvInv, SrvTypes, ClosedLate, WatcherOut, DashboardOut, OnePost, BeforeLaunch,
              AfterJoin, AfterWait, mainVars, useVars, dashVars, webVars, Up, Over
  <1>u. /\ "watch" \in Users /\ "warm" \in Users /\ Posts \subseteq Users
        /\ "watch" \notin Posts /\ "warm" \notin Posts
    BY ServerAssumption DEF Users
  <1>1. CASE StartMonitor
    BY <1>1, <1>u DEF StartMonitor, Ensure, Bind
  <1>2. CASE LaunchAll
    BY <1>2, <1>u DEF LaunchAll
  <1>3. CASE Return
    BY <1>3, <1>u DEF Return
  <1>4. CASE StopWatch
    BY <1>4, <1>u DEF StopWatch
  <1>5. CASE JoinWatch
    BY <1>5, <1>u DEF JoinWatch, WatcherDone
  <1>6. CASE CancelMonitor
    BY <1>6, <1>u DEF CancelMonitor
  <1>7. CASE ReadDone
    BY <1>7, <1>u DEF ReadDone
  <1>8. CASE Wait
    BY <1>8, <1>u DEF Wait, Waited
  <1>9. CASE CloseIndex
    BY <1>9, <1>u DEF CloseIndex
  <1>10. CASE Exit
    BY <1>10, <1>u DEF Exit
  <1>11. CASE Register
    BY <1>11, <1>u DEF Register
  <1>12. CASE Shutdown
    BY <1>12, <1>u DEF Shutdown
  <1>13. CASE Drained
    BY <1>13, <1>u DEF Drained, ServeReturns
  <1>14. CASE ShutdownTimesOut
    BY <1>14, <1>u DEF ShutdownTimesOut, ServeReturns
  <1>15. ASSUME NEW u \in Users, BeginPut(u) PROVE SrvInv'
    BY <1>15, <1>u DEF BeginPut, SeesCancel
  <1>16. ASSUME NEW u \in Users, Put(u) PROVE SrvInv'
    BY <1>16, <1>u DEF Put, PutPanics
  <1>17. ASSUME NEW u \in Users, Done(u) PROVE SrvInv'
    BY <1>17, <1>u DEF Done, SeesCancel
  <1>18. ASSUME NEW t \in Tools, MonitorInfo(t) PROVE SrvInv'
    BY <1>18, <1>u DEF MonitorInfo, Ensure, Bind
  <1>19. ASSUME NEW c \in Tools \cup {"main"}, Started(c) PROVE SrvInv'
    BY <1>19, <1>u DEF Started
  <1>20. ASSUME NEW s \in Browsers, OpenStream(s) PROVE SrvInv'
    BY <1>20, <1>u DEF OpenStream
  <1>21. ASSUME NEW s \in Browsers, CloseStream(s) PROVE SrvInv'
    BY <1>21, <1>u DEF CloseStream
  <1>22. ASSUME NEW q \in Posts, CheckWarm(q) PROVE SrvInv'
    BY <1>22, <1>u DEF CheckWarm, MayCheck
  <1>23. ASSUME NEW q \in Posts, StartWarm(q) PROVE SrvInv'
    BY <1>23, <1>u DEF StartWarm
  <1>24. ASSUME NEW q \in Posts, EndWarm(q) PROVE SrvInv'
    BY <1>24, <1>u DEF EndWarm
  <1>25. ASSUME NEW q \in Posts, StoreIdle(q) PROVE SrvInv'
    BY <1>25, <1>u DEF StoreIdle
  <1>26. CASE UNCHANGED srvVars
    BY <1>26 DEF srvVars
  <1> QED BY <1>1, <1>2, <1>3, <1>4, <1>5, <1>6, <1>7, <1>8, <1>9, <1>10, <1>11, <1>12,
             <1>13, <1>14, <1>15, <1>16, <1>17, <1>18, <1>19, <1>20, <1>21, <1>22, <1>23,
             <1>24, <1>25, <1>26
          DEF SrvNext, MainStep, ServeStep

(* Types.                                                                  *)
LEMMA SrvTyped == SrvInit => SrvTypeOK
  BY ServerAssumption DEF SrvInit, SrvStart, SrvTypeOK, MainStages, Over

LEMMA SrvStepTyped == SrvTypeOK /\ [SrvNext]_srvVars => SrvTypeOK'
  <1> SUFFICES ASSUME SrvTypeOK, [SrvNext]_srvVars PROVE SrvTypeOK'
    OBVIOUS
  <1> USE DEF SrvTypeOK, MainStages, Over, mainVars, useVars, dashVars, webVars
  <1>u. "watch" \in Users /\ "warm" \in Users /\ Posts \subseteq Users
    BY DEF Users
  <1>1. CASE StartMonitor
    BY <1>1 DEF StartMonitor, Ensure, Bind
  <1>2. CASE LaunchAll
    BY <1>2, <1>u DEF LaunchAll
  <1>3. CASE Return \/ StopWatch \/ JoinWatch \/ CancelMonitor
    BY <1>3 DEF Return, StopWatch, JoinWatch, CancelMonitor
  <1>4. CASE ReadDone \/ Wait \/ CloseIndex \/ Exit
    BY <1>4 DEF ReadDone, Wait, CloseIndex, Exit
  <1>5. CASE Register \/ Shutdown
    BY <1>5 DEF Register, Shutdown
  <1>6. CASE Drained \/ ShutdownTimesOut
    BY <1>6 DEF Drained, ShutdownTimesOut, ServeReturns
  <1>7. ASSUME NEW u \in Users, BeginPut(u) \/ Done(u) PROVE SrvTypeOK'
    BY <1>7 DEF BeginPut, Done
  <1>8. ASSUME NEW u \in Users, Put(u) PROVE SrvTypeOK'
    BY <1>8 DEF Put
  <1>9. ASSUME NEW t \in Tools, MonitorInfo(t) PROVE SrvTypeOK'
    BY <1>9 DEF MonitorInfo, Ensure, Bind
  <1>10. ASSUME NEW c \in Tools \cup {"main"}, Started(c) PROVE SrvTypeOK'
    BY <1>10 DEF Started
  <1>11. ASSUME NEW s \in Browsers, OpenStream(s) \/ CloseStream(s) PROVE SrvTypeOK'
    BY <1>11 DEF OpenStream, CloseStream
  <1>12. ASSUME NEW q \in Posts, CheckWarm(q) \/ StartWarm(q) \/ EndWarm(q) \/ StoreIdle(q)
         PROVE  SrvTypeOK'
    BY <1>12, <1>u DEF CheckWarm, StartWarm, EndWarm, StoreIdle
  <1>13. CASE UNCHANGED srvVars
    BY <1>13 DEF srvVars
  <1> QED
    BY <1>1, <1>2, <1>3, <1>4, <1>5, <1>6, <1>7, <1>8, <1>9, <1>10, <1>11, <1>12, <1>13
       DEF SrvNext, MainStep, ServeStep
(* The index closes after every maintenance call and after the dashboard   *)
(* that ran, and one warm runs at a time: for any users of the index, tool *)
(* calls, browsers and warm requests, however they interleave.             *)
THEOREM ServerStaysSafe == SrvSpec => [](SrvTypeOK /\ ServerSafe)
  <1>1. SrvInv => ServerSafe
    <2> SUFFICES ASSUME SrvInv PROVE ServerSafe
      OBVIOUS
    <2>1. ShutdownOrder
      BY DEF SrvInv, ClosedLate, WatcherOut, DashboardOut, AfterJoin, AfterWait, ShutdownOrder
    <2>2. Cardinality({q \in Posts : post[q] = "running"}) <= 1
      <3> DEFINE Running == {q \in Posts : post[q] = "running"}
      <3>1. Running = {} \/ \E q \in Running : Running = {q}
        BY DEF SrvInv, OnePost
      <3>2. CASE Running = {}
        BY <3>2, FS_EmptySet
      <3>3. ASSUME NEW q \in Running, Running = {q} PROVE Cardinality(Running) <= 1
        <4>1. Cardinality({q}) = 1
          BY FS_Singleton
        <4> QED
          BY <3>3, <4>1
      <3> QED
        BY <3>1, <3>2, <3>3
    <2> QED
      BY <2>1, <2>2 DEF SrvInv, OnePost, OneWarm, ServerSafe
  <1> QED BY <1>1, SrvInitInv, SrvStepInv, SrvTyped, SrvStepTyped, PTL DEF SrvSpec

-----------------------------------------------------------------------------
(* The decode slots.  A lookup that waits is owed one answer, by the slot  *)
(* that works for it or in its channel; any other lookup none.             *)
SlotsOf(r) == {i \in Slots : owner[i] = r}
OwedOne ==
  \A r \in Readers :
    IF reader[r] = "waiting"
      THEN IF r \in ready THEN SlotsOf(r) = {} ELSE \E i \in Slots : SlotsOf(r) = {i}
      ELSE r \notin ready /\ SlotsOf(r) = {}

(* Only a slot that decodes works for anybody.                             *)
IdleUnowned == \A i \in Slots : slot[i] \in {"free", "sent"} => owner[i] = NoReader

SlotTypes ==
  /\ reader \in [Readers -> Ends \cup {"idle", "waiting"}]
  /\ slot \in [Slots -> {"free", "decoding", "stuck", "sent"}]
  /\ owner \in [Slots -> Readers \cup {NoReader}]
  /\ ready \subseteq Readers

SlotInv == SlotTypes /\ OwedOne /\ IdleUnowned

LEMMA SlotInitInv == SlotInit => SlotInv
  BY DecodeSlotsAssumption DEF SlotInit, SlotInv, SlotTypes, OwedOne, IdleUnowned, SlotsOf

LEMMA SlotStepInv == SlotInv /\ [SlotNext]_slotVars => SlotInv'
  <1> SUFFICES ASSUME SlotInv, [SlotNext]_slotVars PROVE SlotInv'
    OBVIOUS
  <1> USE DecodeSlotsAssumption DEF SlotInv
  <1>1. ASSUME NEW r \in Readers, Acquire(r) PROVE SlotInv'
    <2>1. PICK i \in FreeSlots, s \in {"decoding", "stuck"} :
            slot' = [slot EXCEPT ![i] = s] /\ owner' = [owner EXCEPT ![i] = r]
      BY <1>1 DEF Acquire
    <2>2. i \in Slots /\ slot[i] = "free" /\ owner[i] = NoReader
      BY <2>1 DEF FreeSlots, IdleUnowned
    <2>3. SlotTypes'
      BY <1>1, <2>1, <2>2 DEF Acquire, Ask, SlotTypes
    <2>4. IdleUnowned'
      BY <2>1, <2>2 DEF SlotTypes, IdleUnowned
    <2>5. \A q \in Readers \ {r} : SlotsOf(q)' = SlotsOf(q)
      BY <2>1, <2>2 DEF SlotTypes, SlotsOf
    <2>6. r \notin ready /\ SlotsOf(r)' = {i}
      BY <1>1, <2>1, <2>2 DEF Acquire, Ask, SlotTypes, OwedOne, SlotsOf
    <2>7. OwedOne'
      BY <1>1, <2>2, <2>5, <2>6 DEF Acquire, Ask, SlotTypes, OwedOne
    <2> QED
      BY <2>3, <2>4, <2>7
  <1>2. ASSUME NEW r \in Readers, Refused(r) PROVE SlotInv'
    BY <1>2 DEF Refused, Ask, SlotTypes, OwedOne, IdleUnowned, SlotsOf, Ends
  <1>3. ASSUME NEW i \in Slots, slot[i] \in {"decoding", "stuck"}, Sends(i) PROVE SlotInv'
    <2>1. SlotTypes' /\ IdleUnowned'
      BY <1>3 DEF Sends, SlotTypes, IdleUnowned
    <2>2. \A q \in Readers : SlotsOf(q)' = SlotsOf(q) \ {i}
      BY <1>3 DEF Sends, SlotTypes, SlotsOf
    <2>3. \A q \in Readers : q \in ready' <=> q \in ready \/ i \in SlotsOf(q)
      BY <1>3 DEF Sends, SlotTypes, SlotsOf
    <2>4. OwedOne'
      BY <1>3, <2>2, <2>3 DEF Sends, SlotTypes, OwedOne
    <2> QED
      BY <2>1, <2>4
  <1>4. ASSUME NEW i \in Slots, Release(i) PROVE SlotInv'
    BY <1>4 DEF Release, SlotTypes, OwedOne, IdleUnowned, SlotsOf
  <1>5. ASSUME NEW r \in Readers, Take(r) PROVE SlotInv'
    BY <1>5 DEF Take, SlotTypes, OwedOne, IdleUnowned, SlotsOf, Ends
  <1>6. ASSUME NEW r \in Readers, TimeUp(r) PROVE SlotInv'
    <2>1. SlotTypes' /\ IdleUnowned'
      BY <1>6 DEF TimeUp, NoLonger, SlotTypes, IdleUnowned, Ends
    <2>2. SlotsOf(r)' = {} /\ \A q \in Readers \ {r} : SlotsOf(q)' = SlotsOf(q)
      BY <1>6 DEF TimeUp, NoLonger, SlotTypes, SlotsOf
    <2>3. OwedOne'
      BY <1>6, <2>2 DEF TimeUp, SlotTypes, OwedOne
    <2> QED
      BY <2>1, <2>3
  <1>7. CASE UNCHANGED slotVars
    BY <1>7 DEF slotVars, SlotTypes, OwedOne, IdleUnowned, SlotsOf
  <1> QED
    BY <1>1, <1>2, <1>3, <1>4, <1>5, <1>6, <1>7 DEF SlotNext, Decode, StuckReturns

(* Types.                                                                  *)
LEMMA SlotTyped == SlotInit => SlotTypeOK
  BY DecodeSlotsAssumption DEF SlotInit, SlotTypeOK

LEMMA SlotStepTyped == SlotTypeOK /\ [SlotNext]_slotVars => SlotTypeOK'
  <1> SUFFICES ASSUME SlotTypeOK, [SlotNext]_slotVars PROVE SlotTypeOK'
    OBVIOUS
  <1> USE DecodeSlotsAssumption DEF SlotTypeOK, Ends
  <1>1. ASSUME NEW r \in Readers, Acquire(r) PROVE SlotTypeOK'
    BY <1>1 DEF Acquire, Ask, FreeSlots
  <1>2. ASSUME NEW r \in Readers, Refused(r) PROVE SlotTypeOK'
    BY <1>2 DEF Refused, Ask
  <1>3. ASSUME NEW r \in Readers, Take(r) \/ TimeUp(r) PROVE SlotTypeOK'
    BY <1>3 DEF Take, TimeUp, NoLonger
  <1>4. ASSUME NEW i \in Slots, Decode(i) \/ StuckReturns(i) \/ Release(i) PROVE SlotTypeOK'
    BY <1>4 DEF Decode, StuckReturns, Release, Sends
  <1>5. CASE UNCHANGED slotVars
    BY <1>5 DEF slotVars
  <1> QED
    BY <1>1, <1>2, <1>3, <1>4, <1>5 DEF SlotNext

(* Whoever decodes, is stuck and gives up, with any number of slots: no    *)
(* lookup gets another's answer, or a late one of its own.                 *)
THEOREM OneAnswerEach == SlotSpec => [](SlotTypeOK /\ OneAnswer)
  <1>1. SlotInv => OneAnswer
    <2> SUFFICES ASSUME SlotInv, NEW r \in Readers
                 PROVE  Cardinality(SlotsOf(r)) + (IF r \in ready THEN 1 ELSE 0)
                          = IF reader[r] = "waiting" THEN 1 ELSE 0
      BY DEF OneAnswer, SlotsOf
    <2>1. CASE SlotsOf(r) = {}
      BY <2>1, FS_EmptySet DEF SlotInv, OwedOne
    <2>2. ASSUME NEW i \in Slots, SlotsOf(r) = {i} PROVE Cardinality(SlotsOf(r)) = 1
      BY <2>2, FS_Singleton
    <2>3. CASE SlotsOf(r) # {}
      BY <2>2, <2>3 DEF SlotInv, OwedOne
    <2> QED
      BY <2>1, <2>3
  <1> QED BY <1>1, SlotInitInv, SlotStepInv, SlotTyped, SlotStepTyped, PTL DEF SlotSpec

-----------------------------------------------------------------------------
(* The watch's tree.  What exists is a tree, a step that is to register a  *)
(* directory is the next one and paid for, and is followed by its listing, *)
(* and an overdrawn budget leaves at most a directory to begin with.       *)
Steps == [does : {"visit", "add", "list"}, node : Nodes]

ThenListed ==
  \A i \in DOMAIN toVisit : toVisit[i].does = "add" =>
    /\ i = 1 /\ remaining > 0 /\ toVisit[i].node \in Dirs
    /\ 2 \in DOMAIN toVisit /\ toVisit[2] = Todo("list", toVisit[i].node)

Overdrawn ==
  remaining = -1 =>
    \/ toVisit = <<>>
    \/ Len(toVisit) = 1 /\ toVisit[1].does = "visit" /\ toVisit[1].node \in Dirs

TreeInv ==
  /\ TreeTypeOK
  /\ Whole(exists) /\ watched \subseteq exists
  /\ Range(toRegister) \subseteq RootSet
  /\ ThenListed /\ Overdrawn
  /\ NothingSlips /\ WithinFDs

-----------------------------------------------------------------------------
(* Subtrees and what exists.                                               *)
LEMMA SubtreeType ==
  ASSUME NEW n \in Nodes
  PROVE  Subtree(n) \subseteq Nodes /\ n \in Subtree(n)
BY DEF Subtree, Above

LEMMA SubtreeGone ==
  ASSUME NEW n \in Nodes, NEW S \in SUBSET Nodes, Whole(S), n \notin S
  PROVE  Subtree(n) \cap S = {}
BY DEF Subtree, Above

LEMMA SubtreeParent ==
  ASSUME NEW n \in Nodes, NEW m \in Subtree(n), m # n
  PROVE  Parent[m] \in Subtree(n)
<1>1. m \in Nodes /\ Parent[m] \in Nodes
  BY WatchTreeAssumption DEF Subtree
<1>2. SUFFICES ASSUME NEW S \in SUBSET Nodes, Parent[m] \in S, Whole(S) PROVE n \in S
  BY <1>1 DEF Subtree, Above
<1>3. Whole(S \cup {m}) /\ S \cup {m} \in SUBSET Nodes
  BY <1>1, <1>2 DEF Whole
<1>4. n \in S \cup {m}
  BY <1>1, <1>3 DEF Subtree, Above
<1> QED
  BY <1>4

LEMMA WholeLeft ==
  ASSUME NEW n \in Nodes, NEW S \in SUBSET Nodes, Whole(S)
  PROVE  Whole(S \ Subtree(n))
<1> SUFFICES ASSUME NEW m \in S, Parent[m] \in Subtree(n) PROVE m \in Subtree(n)
  BY DEF Whole
<1> SUFFICES ASSUME NEW U \in SUBSET Nodes, m \in U, Whole(U) PROVE n \in U
  BY DEF Subtree, Above
<1>1. Parent[m] \in U /\ Parent[m] \in Nodes
  BY DEF Whole
<1> QED
  BY <1>1 DEF Subtree, Above

-----------------------------------------------------------------------------
(* A listing holds every child.                                            *)
LEMMA SetToSeqElements ==
  ASSUME NEW S, IsFiniteSet(S)
  PROVE  SetToSeq(S) \in Seq(S) /\ Range(SetToSeq(S)) = S
<1> DEFINE N == Cardinality(S)
           f == SetToSeq(S)
<1>1. N \in Nat /\ ExistsBijection(1 .. N, S)
  BY FS_CardinalityType
<1>2. \E g \in [1 .. N -> S] : IsInjective(g)
  BY <1>1 DEF ExistsBijection, Bijection, Injection
<1>3. f \in [1 .. N -> S] /\ IsInjective(f)
  BY <1>2 DEF SetToSeq
<1>4. f \in Injection(1 .. N, S)
  BY <1>3 DEF Injection
<1>5. Cardinality(1 .. N) = N
  BY <1>1, FS_Interval
<1>6. f \in Surjection(1 .. N, S)
  BY <1>4, <1>5, FS_Injection
<1>7. Range(f) = S
  BY <1>3, <1>6 DEF Surjection, Range
<1>8. f \in Seq(S)
  BY <1>1, <1>3, IsASeq
<1> QED
  BY <1>7, <1>8

LEMMA KnownIs ==
  ASSUME NEW d
  PROVE  Known(d) <=>
           \/ d \in Range(arrivals) \/ d \in Range(toRegister)
           \/ \E t \in Range(toVisit) : \/ t.node = d /\ t.does # "list"
                                        \/ t = Todo("list", Parent[d])
BY DEF Known, Range

(* What a step takes off toVisit is its head.                              *)
LEMMA VisitTail ==
  ASSUME toVisit \in Seq(Steps), toVisit # <<>>, ThenListed
  PROVE  LET t == Tail(toVisit) IN
         /\ t \in Seq(Steps) /\ Range(toVisit) = {Head(toVisit)} \cup Range(t)
         /\ Head(toVisit) \in Steps
         /\ \A i \in DOMAIN t : t[i].does = "add" => FALSE
         /\ Head(toVisit).does = "add" => Todo("list", Head(toVisit).node) \in Range(t)
         /\ Len(toVisit) = 1 => t = <<>>
<1> DEFINE t == Tail(toVisit)
<1>1. /\ t \in Seq(Steps) /\ Len(t) = Len(toVisit) - 1 /\ Len(toVisit) \in Nat \ {0}
      /\ Head(toVisit) \in Steps /\ Head(toVisit) = toVisit[1]
      /\ DOMAIN t = 1 .. Len(t) /\ DOMAIN toVisit = 1 .. Len(toVisit)
      /\ \A i \in 1 .. Len(t) : t[i] = toVisit[i + 1] /\ i + 1 \in DOMAIN toVisit
  BY HeadTailProperties, LenProperties, EmptyBatch
<1>2. \A i \in DOMAIN t : t[i].does = "add" => FALSE
  <2> SUFFICES ASSUME NEW i \in DOMAIN t, t[i].does = "add" PROVE FALSE
    OBVIOUS
  <2>1. toVisit[i + 1].does = "add" /\ i + 1 \in DOMAIN toVisit /\ i \in Nat \ {0}
    BY <1>1
  <2>2. i + 1 = 1
    BY <2>1 DEF ThenListed
  <2> QED
    BY <2>1, <2>2
<1>3. Head(toVisit).does = "add" => Todo("list", Head(toVisit).node) \in Range(t)
  <2> SUFFICES ASSUME toVisit[1].does = "add" PROVE Todo("list", toVisit[1].node) \in Range(t)
    BY <1>1
  <2>1. 1 \in DOMAIN toVisit
    BY <1>1
  <2>2. 2 \in DOMAIN toVisit /\ toVisit[2] = Todo("list", toVisit[1].node)
    BY <2>1 DEF ThenListed
  <2>3. 1 \in DOMAIN t /\ t[1] = toVisit[2]
    BY <1>1, <2>2
  <2> QED
    BY <2>2, <2>3 DEF Range
<1>4. Len(toVisit) = 1 => t = <<>>
  BY <1>1, EmptySeq
<1> QED
  BY <1>1, <1>2, <1>3, <1>4, RangeSplit

(* The same of what follows it when nothing is prepended.                  *)
LEMMA TreeInitInv == TreeInit => TreeInv
<1> SUFFICES ASSUME TreeInit PROVE TreeInv
  OBVIOUS
<1>1. PICK S \in SUBSET Nodes, costs \in FileCosts : Whole(S) /\ RootSet \subseteq S /\ TreeStart(S, costs)
  BY DEF TreeInit
<1>2. Roots \in Seq(Nodes) /\ Head(Roots) \in Nodes
  BY WatchTreeAssumption, HeadTail
<1>3. TreeTypeOK
  <2>1. /\ exists \subseteq Nodes /\ watched = {} /\ arrivals = <<>> /\ toVisit = <<>>
        /\ moves = 0 /\ toRegister = Roots /\ top = Head(Roots) /\ remaining = MaxWatchFDs
        /\ truncated = FALSE /\ costly = costs /\ setup = "ok"
    BY <1>1 DEF TreeStart
  <2>2. costs \in BOOLEAN
    BY <1>1, WatchTreeAssumption
  <2>3. moves \in 0 .. MaxMoves /\ remaining \in -1 .. MaxWatchFDs
    BY <2>1, WatchTreeAssumption
  <2> QED
    BY <1>2, <2>1, <2>2, <2>3, EmptyBatch DEF TreeTypeOK
<1>4. /\ exists = S /\ watched = {} /\ toRegister = Roots
  BY <1>1 DEF TreeStart
<1>8. Whole(exists) /\ watched \subseteq exists /\ NothingSlips /\ Range(toRegister) \subseteq RootSet
  BY <1>1, <1>4 DEF NothingSlips, Range, RootSet
<1>6. toVisit = <<>>
  BY <1>1 DEF TreeStart
<1>7. ThenListed /\ Overdrawn
  BY <1>6 DEF ThenListed, Overdrawn
<1>5. WithinFDs
  BY <1>1, WatchTreeAssumption, FS_EmptySet DEF TreeStart, WithinFDs
<1> QED
  BY <1>3, <1>5, <1>7, <1>8 DEF TreeInv

(* A change of the tree.                                                   *)
LEMMA AppearKeeps ==
  ASSUME TreeInv, NEW n \in Nodes, Appear(n)
  PROVE  TreeInv'
<1> USE DEF TreeInv, TreeTypeOK
<1>1. PICK S \in SUBSET Subtree(n) : n \in S /\ Whole(S \cup exists) /\ exists' = exists \cup S
  BY DEF Appear
<1>2. Subtree(n) \subseteq Nodes /\ Subtree(n) \cap exists = {}
  BY SubtreeType, SubtreeGone DEF Appear
<1>3. /\ UNCHANGED <<watched, toRegister, toVisit, top, budgetVars, setup>>
      /\ arrivals' = IF n \in Dirs /\ Parent[n] \in watched THEN Append(arrivals, n) ELSE arrivals
  BY DEF Appear
<1>4. TreeTypeOK'
  <2>1. moves' \in 0 .. MaxMoves
    BY WatchTreeAssumption DEF Appear
  <2>2. arrivals' \in Seq(Dirs)
    BY <1>3, AppendType
  <2> QED
    BY <1>1, <1>2, <1>3, <2>1, <2>2 DEF budgetVars
<1>5. /\ Whole(exists') /\ watched' \subseteq exists' /\ Range(toRegister') \subseteq RootSet
      /\ ThenListed' /\ Overdrawn' /\ WithinFDs'
  BY <1>1, <1>3 DEF budgetVars, Whole, ThenListed, Overdrawn, WithinFDs, FileRootDirs
<1>6. ASSUME NEW d \in (Dirs \cap exists') \ (Hidden \cup Ignored),
             Parent[d] \in watched \ FileRootDirs, d \notin watched, ~truncated
      PROVE  d \in Range(arrivals') \/ Known(d)
  <2>1. CASE d \in exists
    BY <1>6, <2>1 DEF NothingSlips
  <2>2. CASE d # n /\ d \notin exists
    BY <1>1, <1>2, <1>6, <2>2, SubtreeParent
  <2>3. CASE d = n
    BY <1>3, <1>6, <2>3, RangeAppend
  <2> QED
    BY <2>1, <2>2, <2>3
<1>7. Range(arrivals) \subseteq Range(arrivals')
  BY <1>3, RangeAppend
<1>8. ASSUME NEW d, d \in Range(arrivals') \/ Known(d)
      PROVE  Known(d)'
  <2>1. d \in Range(arrivals') \/ d \in Range(toRegister')
           \/ \E t \in Range(toVisit') : (t.node = d /\ t.does # "list") \/ t = Todo("list", Parent[d])
    BY <1>3, <1>7, <1>8, KnownIs
  <2> QED
    BY <2>1 DEF Known, Range
<1>9. NothingSlips'
  BY <1>3, <1>6, <1>8 DEF NothingSlips, budgetVars, FileRootDirs
<1> QED
  BY <1>4, <1>5, <1>9

LEMMA VanishKeeps ==
  ASSUME TreeInv, NEW n \in Nodes, Vanish(n)
  PROVE  TreeInv'
<1> USE DEF TreeInv, TreeTypeOK
<1>1. TreeTypeOK'
  BY WatchTreeAssumption DEF Vanish, budgetVars
<1>2. Whole(exists') /\ watched' \subseteq exists' /\ Range(toRegister') \subseteq RootSet /\ ThenListed' /\ Overdrawn'
  BY WholeLeft DEF Vanish, budgetVars, Whole, ThenListed, Overdrawn
<1>3. WithinFDs'
  <2>1. IsFiniteSet(watched \ FileRootDirs)
    BY WatchTreeAssumption, FS_Subset DEF Dirs
  <2>2. watched' \ FileRootDirs \subseteq watched \ FileRootDirs /\ remaining' = remaining
    BY DEF Vanish, budgetVars
  <2>3. /\ Cardinality(watched' \ FileRootDirs) <= Cardinality(watched \ FileRootDirs)
        /\ Cardinality(watched' \ FileRootDirs) \in Nat /\ Cardinality(watched \ FileRootDirs) \in Nat
    BY <2>1, <2>2, FS_Subset, FS_CardinalityType
  <2>4. remaining \in Int /\ MaxWatchFDs \in Nat
    BY WatchTreeAssumption
  <2> QED
    BY <2>2, <2>3, <2>4 DEF WithinFDs, FileRootDirs
<1>4. NothingSlips'
  BY DEF Vanish, budgetVars, NothingSlips, Known, FileRootDirs
<1> QED
  BY <1>1, <1>2, <1>3, <1>4

(* The watcher takes a root or an event, which starts a walk or nothing.   *)
LEMMA WalkStarts ==
  ASSUME NEW n \in Nodes
  PROVE  LET s == <<Todo("visit", n)>> IN
         /\ s \in Seq(Steps) /\ Len(s) = 1 /\ s[1] = Todo("visit", n)
         /\ Range(s) = {Todo("visit", n)}
         /\ \A i \in DOMAIN s : s[i].does # "add"
BY DEF Steps, Todo, Range

LEMMA RegisterKeeps ==
  ASSUME TreeInv, RegisterRoot
  PROVE  TreeInv'
<1> USE DEF TreeInv, TreeTypeOK
<1> DEFINE r == Head(toRegister)
<1>1. /\ r \in Nodes /\ toRegister' \in Seq(Nodes) /\ toVisit = <<>>
      /\ Range(toRegister) = {r} \cup Range(toRegister')
      /\ UNCHANGED <<exists, moves, arrivals, remaining, truncated, costly>>
  BY HeadTail, RangeSplit DEF RegisterRoot, Idle, budgetVars
<1>2. Overdrawn' /\ TreeTypeOK' /\ ThenListed' /\ watched' \subseteq exists'
  <2>1. CASE r \notin exists
    BY <1>1, <2>1 DEF RegisterRoot, ThenListed, Overdrawn
  <2>2. CASE r \in Files \cap exists
    <3>1. watched' = watched \cup {Parent[r]} /\ UNCHANGED <<toVisit, top, setup>>
      BY <2>2 DEF RegisterRoot
    <3>2. Parent[r] \in exists /\ Parent[r] \in Dirs
      BY <1>1, <2>2, WatchTreeAssumption DEF Whole, Dirs
    <3> QED
      BY <1>1, <3>1, <3>2 DEF ThenListed, Overdrawn
  <2>3. CASE r \in exists \ Files
    <3>1. top' = r /\ toVisit' = <<Todo("visit", r)>> /\ UNCHANGED <<watched, setup>>
      BY <2>3 DEF RegisterRoot, WalkFrom
    <3>2. r \in Dirs /\ Todo("visit", r).does = "visit" /\ Todo("visit", r).node = r
      BY <1>1, <2>3 DEF Dirs, Todo
    <3> QED
      BY <1>1, <3>1, <3>2, WalkStarts DEF ThenListed, Overdrawn, Steps
  <2> QED
    BY <2>1, <2>2, <2>3
<1>3. watched' \ FileRootDirs = watched \ FileRootDirs /\ Range(toVisit) = {}
  <2>1. CASE r \in Files \cap exists
    <3>1. r \in RootSet
      BY <1>1
    <3>2. watched' = watched \cup {Parent[r]} /\ Parent[r] \in FileRootDirs
      BY <2>1, <3>1 DEF RegisterRoot, FileRootDirs
    <3> QED
      BY <1>1, <3>2, RangeEmpty
  <2>2. CASE r \notin Files \cap exists
    BY <1>1, <2>2, RangeEmpty DEF RegisterRoot
  <2> QED
    BY <2>1, <2>2
<1>4. ASSUME NEW d \in Dirs, Known(d), d \in exists
      PROVE  Known(d)'
  <2>1. CASE d \in Range(arrivals) \cup Range(toRegister')
    BY <1>1, <2>1 DEF Known, Range
  <2>2. CASE d = r
    <3>1. toVisit' = <<Todo("visit", r)>>
      BY <1>4, <2>2 DEF RegisterRoot, WalkFrom, Dirs
    <3>2. Todo("visit", r) \in Range(toVisit')
      BY <1>1, <3>1, WalkStarts
    <3>3. Todo("visit", r).node = d /\ Todo("visit", r).does # "list"
      BY <2>2 DEF Todo
    <3> QED
      BY <3>2, <3>3 DEF Known, Range
  <2> QED
    BY <1>1, <1>3, <1>4, <2>1, <2>2, KnownIs
<1> QED
  <2>1. WithinFDs'
    BY <1>1, <1>3 DEF WithinFDs, FileRootDirs
  <2>4. watched \subseteq watched'
    BY DEF RegisterRoot
  <2>2. Whole(exists)' /\ (Range(toRegister) \subseteq RootSet)'
    BY <1>1 DEF Whole, RootSet
  <2>3. NothingSlips'
    <3> SUFFICES ASSUME NEW d \in (Dirs \cap exists) \ (Hidden \cup Ignored),
                        Parent[d] \in watched' \ FileRootDirs, d \notin watched', ~truncated
                 PROVE  Known(d)'
      BY <1>1 DEF NothingSlips, FileRootDirs
    <3>1. Parent[d] \in watched \ FileRootDirs /\ d \notin watched
      BY <1>3, <2>4
    <3> QED
      BY <1>4, <3>1 DEF NothingSlips
  <2> QED
    BY <1>2, <2>1, <2>2, <2>3

LEMMA ReceiveKeeps ==
  ASSUME TreeInv, ReceiveCreate
  PROVE  TreeInv'
<1> USE DEF TreeInv, TreeTypeOK
<1> DEFINE n == Head(arrivals)
<1>1. /\ n \in Dirs /\ arrivals' \in Seq(Dirs) /\ toVisit = <<>>
      /\ Range(arrivals) = {n} \cup Range(arrivals')
      /\ UNCHANGED <<exists, moves, watched, toRegister, remaining, truncated, costly, setup>>
  BY HeadTail, RangeSplit DEF ReceiveCreate, Idle, budgetVars
<1>2. CASE n \notin exists
  <2>1. UNCHANGED <<toVisit, top>>
    BY <1>2 DEF ReceiveCreate
  <2>2. TreeTypeOK' /\ Whole(exists)'
    BY <1>1, <2>1 DEF Whole
  <2>5. ThenListed' /\ Overdrawn' /\ WithinFDs'
    BY <1>1, <2>1 DEF ThenListed, Overdrawn, WithinFDs, FileRootDirs
  <2>3. ASSUME NEW d, Known(d), d \in exists PROVE Known(d)'
    <3>1. \/ d \in Range(arrivals') \/ d \in Range(toRegister')
          \/ \E t \in Range(toVisit') : (t.node = d /\ t.does # "list") \/ t = Todo("list", Parent[d])
      BY <1>1, <1>2, <2>1, <2>3, KnownIs
    <3> QED
      BY <3>1 DEF Known, Range
  <2>4. NothingSlips'
    BY <1>1, <2>3 DEF NothingSlips, FileRootDirs
  <2> QED
    BY <1>1, <2>2, <2>4, <2>5 DEF RootSet
<1>3. CASE n \in exists
  <2>1. top' = n /\ toVisit' = <<Todo("visit", n)>>
    BY <1>3 DEF ReceiveCreate, WalkFrom
  <2>2. Todo("visit", n).does = "visit" /\ Todo("visit", n).node = n /\ n \in Nodes
    BY <1>1 DEF Todo, Dirs
  <2>3. ThenListed' /\ Overdrawn' /\ TreeTypeOK'
    BY <1>1, <2>1, <2>2, WalkStarts DEF ThenListed, Overdrawn, Steps
  <2>4. WithinFDs' /\ Whole(exists)'
    BY <1>1 DEF WithinFDs, FileRootDirs, Whole
  <2>5. Todo("visit", n) \in Range(toVisit') /\ Range(toVisit) = {}
    BY <1>1, <2>1, <2>2, WalkStarts, RangeEmpty
  <2>6. ASSUME NEW d, Known(d) PROVE Known(d)'
    <3>1. d \in Range(arrivals') \cup Range(toRegister') \cup {n}
      BY <1>1, <2>5, <2>6, KnownIs
    <3> QED
      BY <2>2, <2>5, <3>1 DEF Known, Range
  <2>7. NothingSlips'
    BY <1>1, <2>6 DEF NothingSlips, FileRootDirs
  <2> QED
    BY <1>1, <2>3, <2>4, <2>7 DEF RootSet
<1> QED
  BY <1>2, <1>3

-----------------------------------------------------------------------------
(* A step of a walk.                                                       *)
LEMMA OneMore ==
  ASSUME NEW W, NEW V, NEW e, IsFiniteSet(W), V \subseteq W \cup {e}
  PROVE  Cardinality(V) \in Nat /\ Cardinality(V) <= Cardinality(W) + 1
<1>1. Cardinality(W) \in Nat
  BY FS_CardinalityType
<1>2. IsFiniteSet(W \cup {e}) /\ Cardinality(W \cup {e}) <= Cardinality(W) + 1
  BY <1>1, FS_AddElement
<1>3. /\ Cardinality(V) <= Cardinality(W \cup {e})
      /\ Cardinality(V) \in Nat /\ Cardinality(W \cup {e}) \in Nat
  BY <1>2, FS_Subset, FS_CardinalityType
<1> QED
  BY <1>1, <1>2, <1>3

LEMMA WalkKeeps ==
  ASSUME TreeInv, NEW x \in Steps, toVisit # <<>>, Head(toVisit) = x, NEW front \in Seq(Steps),
         toVisit' = front \o Tail(toVisit) \/ (toVisit' = <<>> /\ truncated'),
         watched' \subseteq watched \cup ({x.node} \cap exists),
         watched \subseteq watched',
         truncated' \in BOOLEAN, truncated => truncated',
         UNCHANGED <<exists, moves, arrivals, toRegister, top, costly, setup>>,
         remaining' \in -1 .. MaxWatchFDs,
         (* what the new steps are *)
         \A i \in DOMAIN front : front[i].does = "add" =>
           /\ i = 1 /\ remaining' > 0 /\ front[i].node \in Dirs
           /\ 2 \in DOMAIN front /\ front[2] = Todo("list", front[i].node),
         remaining' = -1 => toVisit' = <<>>,
         x.does # "add" => watched' = watched /\ remaining' <= remaining,
         x.does = "add" => x.node \in Dirs /\ remaining' = remaining - 1,
         (* what the head was for *)
         \A d \in (Dirs \cap exists) \ (Hidden \cup Ignored) :
           /\ x.does = "add" /\ d = x.node => d \in watched'
           /\ x.does = "visit" /\ d = x.node /\ ~truncated' =>
                \E t \in Range(front) : t.node = d /\ t.does # "list"
           /\ x = Todo("list", Parent[d]) /\ d # Parent[d] =>
                \E t \in Range(front) : t.node = d /\ t.does # "list"
  PROVE  TreeInv'
<1> USE DEF TreeInv, TreeTypeOK
<1> DEFINE t == Tail(toVisit)
<1>1. /\ t \in Seq(Steps) /\ Range(toVisit) = {x} \cup Range(t)
      /\ \A i \in DOMAIN t : t[i].does = "add" => FALSE
      /\ x.does = "add" => Todo("list", x.node) \in Range(t)
  BY VisitTail DEF Steps
<1>2. front \o t \in Seq(Steps) /\ Range(front \o t) = Range(front) \cup Range(t)
  <2>1. t \in Seq(Steps)
    BY <1>1
  <2> HIDE DEF t, TreeInv
  <2> QED
    BY ONLY <2>1, front \in Seq(Steps), RangeConcat, ConcatProperties
<1>3. toVisit' \in Seq(Steps)
  BY <1>2, EmptyBatch
<1>4. TreeTypeOK'
  <2>1. watched' \subseteq Dirs
    BY DEF Dirs
  <2> QED
    BY <1>3, <2>1 DEF Steps
<1>5. ThenListed'
  <2>1. CASE toVisit' = <<>>
    BY <2>1 DEF ThenListed
  <2>2. CASE toVisit' = front \o t
    <3>1. /\ DOMAIN (front \o t) = 1 .. Len(front) + Len(t) /\ Len(front) \in Nat /\ Len(t) \in Nat
          /\ DOMAIN front = 1 .. Len(front) /\ DOMAIN t = 1 .. Len(t)
          /\ \A i \in 1 .. Len(front) + Len(t) :
               (front \o t)[i] = IF i <= Len(front) THEN front[i] ELSE t[i - Len(front)]
      BY <1>1, <1>2, ConcatProperties, LenProperties
    <3>2. ASSUME NEW i \in DOMAIN (front \o t), (front \o t)[i].does = "add"
          PROVE  i \in DOMAIN front /\ front[i] = (front \o t)[i]
      BY <1>1, <3>1, <3>2
    <3>3. ASSUME 2 \in DOMAIN front PROVE 2 \in DOMAIN (front \o t) /\ (front \o t)[2] = front[2]
      BY <3>1, <3>3
    <3> QED
      BY <2>2, <3>2, <3>3 DEF ThenListed
  <2> QED
    BY <2>1, <2>2
<1>6. Overdrawn'
  BY DEF Overdrawn
<1>7. WithinFDs'
  <2> DEFINE W == watched \ FileRootDirs
             V == watched' \ FileRootDirs
  <2>1. IsFiniteSet(W) /\ Cardinality(W) \in Nat
    BY WatchTreeAssumption, FS_Subset, FS_CardinalityType DEF Dirs
  <2>4. /\ remaining \in Int /\ remaining' \in Int /\ MaxWatchFDs \in Int
        /\ Cardinality(W) + remaining <= MaxWatchFDs
    BY WatchTreeAssumption DEF WithinFDs
  <2>5. SUFFICES Cardinality(V) + remaining' <= MaxWatchFDs
    BY DEF WithinFDs, FileRootDirs
  <2>2. CASE x.does # "add"
    <3>1. V = W /\ remaining' <= remaining
      BY <2>2
    <3> HIDE DEF V, W
    <3> QED
      BY ONLY <2>1, <2>4, <3>1
  <2>3. CASE x.does = "add"
    <3>1. V \subseteq W \cup {x.node} /\ remaining' = remaining - 1
      BY <2>3
    <3>2. Cardinality(V) \in Nat /\ Cardinality(V) <= Cardinality(W) + 1
      BY <2>1, <3>1, OneMore
    <3> HIDE DEF V, W
    <3> QED
      BY ONLY <2>1, <2>4, <3>1, <3>2
  <2> QED
    BY <2>2, <2>3
<1>8. NothingSlips'
  <2> SUFFICES ASSUME NEW d \in (Dirs \cap exists) \ (Hidden \cup Ignored),
                      Parent[d] \in watched' \ FileRootDirs, d \notin watched', ~truncated'
               PROVE  Known(d)'
    BY DEF NothingSlips, FileRootDirs
  <2>1. toVisit' = front \o t /\ Range(toVisit') = Range(front) \cup Range(t)
    BY <1>2
  <2>2. \/ d \in Range(arrivals) \/ d \in Range(toRegister)
        \/ \E s \in {x} \cup Range(t) : (s.node = d /\ s.does # "list") \/ s = Todo("list", Parent[d])
    <3>1. CASE Parent[d] \in watched
      BY <1>1, <3>1, KnownIs DEF NothingSlips
    <3>2. CASE Parent[d] \notin watched
      BY <1>1, <3>2
    <3> QED
      BY <3>1, <3>2
  <2>3. \/ d \in Range(arrivals') \/ d \in Range(toRegister')
        \/ \E s \in Range(toVisit') : (s.node = d /\ s.does # "list") \/ s = Todo("list", Parent[d])
    <3>1. x.does \in {"visit", "add", "list"}
      BY DEF Steps
    <3>2. CASE x.node = d /\ x.does # "list"
      BY <2>1, <3>1, <3>2
    <3>3. CASE x = Todo("list", Parent[d])
      <4>1. d # Parent[d]
        OBVIOUS
      <4> QED
        BY <2>1, <3>3, <4>1
    <3> QED
      BY <2>1, <2>2, <3>2, <3>3
  <2> QED
    BY <2>3 DEF Known, Range
<1> QED
  BY <1>4, <1>5, <1>6, <1>7, <1>8 DEF Whole, RootSet

LEMMA HeadStep ==
  ASSUME TreeInv, toVisit # <<>>
  PROVE  Head(toVisit) \in Steps /\ toVisit \in Seq(Steps) /\ Len(toVisit) \in Nat /\ toVisit[1] = Head(toVisit)
         /\ Len(toVisit) # 0 /\ 1 \in DOMAIN toVisit
<1>1. toVisit \in Seq(Steps)
  BY DEF TreeInv, TreeTypeOK, Steps
<1> QED
  BY <1>1, HeadTailProperties, LenProperties, EmptySeq

LEMMA NoFront ==
  ASSUME NEW s \in Seq(Steps)
  PROVE  <<>> \o s = s /\ <<>> \in Seq(Steps) /\ DOMAIN <<>> = {} /\ Range(<<>>) = {}
BY RangeEmpty, EmptyBatch, ConcatEmptySeq

LEMMA VisitFileKeeps ==
  ASSUME TreeInv, NEW n \in Nodes, VisitFile(n)
  PROVE  TreeInv'
<1> DEFINE x == Todo("visit", n)
<1>1. /\ toVisit # <<>> /\ Head(toVisit) = x /\ n \in Files
      /\ UNCHANGED <<exists, moves, watched, arrivals, toRegister, top, costly, setup>>
      /\ remaining' = IF costly THEN remaining - 1 ELSE remaining
      /\ IF costly /\ remaining <= 1 THEN truncated' = TRUE /\ toVisit' = <<>>
                                     ELSE toVisit' = Tail(toVisit) /\ UNCHANGED truncated
  BY DEF VisitFile, Doing, Stop, treeVars
<1>2. x \in Steps /\ x.does = "visit" /\ x.node = n
  BY DEF Todo, Steps
<1>3. remaining \in 0 .. MaxWatchFDs /\ costly \in BOOLEAN /\ truncated \in BOOLEAN
  <2>1. remaining # -1
    BY <1>1, <1>2, HeadStep DEF TreeInv, Overdrawn, Dirs
  <2> QED
    BY <2>1, WatchTreeAssumption DEF TreeInv, TreeTypeOK
<1>4. Tail(toVisit) \in Seq(Steps)
  BY <1>1, HeadStep, HeadTail
<1>5. /\ toVisit' = <<>> \o Tail(toVisit) \/ (toVisit' = <<>> /\ truncated')
      /\ <<>> \in Seq(Steps) /\ DOMAIN <<>> = {}
  BY <1>1, <1>4, NoFront
<1>6. /\ remaining' \in -1 .. MaxWatchFDs /\ remaining' <= remaining
      /\ remaining' = -1 => toVisit' = <<>>
  BY <1>1, <1>3, WatchTreeAssumption
<1>7. truncated' \in BOOLEAN /\ (truncated => truncated')
  BY <1>1, <1>3
<1>8. \A d \in Dirs : d # n /\ x # Todo("list", Parent[d])
  BY <1>1, <1>2 DEF Dirs, Todo
<1> HIDE DEF x
<1> QED
  BY <1>1, <1>2, <1>5, <1>6, <1>7, <1>8, WalkKeeps

LEMMA VisitDirKeeps ==
  ASSUME TreeInv, NEW n \in Nodes, VisitDir(n)
  PROVE  TreeInv'
<1> DEFINE x == Todo("visit", n)
<1>1. /\ toVisit # <<>> /\ Head(toVisit) = x /\ n \in Dirs
      /\ UNCHANGED <<exists, moves, watched, arrivals, toRegister, top, costly, setup, remaining>>
  BY DEF VisitDir, Doing, treeVars
<1>2. x \in Steps /\ x.does = "visit" /\ x.node = n
  BY DEF Todo, Steps
<1>3. /\ remaining \in -1 .. MaxWatchFDs /\ truncated \in BOOLEAN
      /\ remaining' \in -1 .. MaxWatchFDs /\ remaining' <= remaining
  BY <1>1 DEF TreeInv, TreeTypeOK
<1>4. Tail(toVisit) \in Seq(Steps)
  BY <1>1, HeadStep, HeadTail
<1>5. \A d \in Dirs : x # Todo("list", Parent[d])
  BY DEF Todo
<1>6. CASE Excluded(n) \/ (n = top /\ n \notin exists)
  <2>1. toVisit' = <<>> \o Tail(toVisit) /\ UNCHANGED truncated /\ <<>> \in Seq(Steps) /\ DOMAIN <<>> = {}
    BY <1>4, <1>6, NoFront DEF VisitDir
  <2>2. \A d \in (Dirs \cap exists) \ (Hidden \cup Ignored) : d # n
    BY <1>6 DEF Excluded
  <2>3. remaining' = -1 => toVisit' = <<>>
    <3>1. remaining = -1 => Len(toVisit) = 1
      BY <1>1 DEF TreeInv, Overdrawn
    <3>2. Len(toVisit) = 1 => Tail(toVisit) = <<>>
      BY <1>1, HeadStep, VisitTail DEF TreeInv
    <3> QED
      BY <1>1, <1>4, <2>1, <3>1, <3>2, NoFront
  <2>4. truncated' \in BOOLEAN /\ (truncated => truncated')
    BY <1>3, <2>1
  <2> HIDE DEF x
  <2> QED
    BY <1>1, <1>2, <1>3, <1>5, <2>1, <2>2, <2>3, <2>4, WalkKeeps
<1>7. CASE ~(Excluded(n) \/ (n = top /\ n \notin exists)) /\ remaining <= 0
  <2>1. /\ toVisit' = <<>> /\ truncated' = TRUE
        /\ truncated' \in BOOLEAN /\ (truncated => truncated')
        /\ <<>> \in Seq(Steps) /\ DOMAIN <<>> = {}
    BY <1>7, EmptyBatch DEF VisitDir, Stop
  <2> HIDE DEF x
  <2> QED
    BY <1>1, <1>2, <1>3, <1>5, <2>1, WalkKeeps
<1>8. CASE ~(Excluded(n) \/ (n = top /\ n \notin exists)) /\ ~(remaining <= 0)
  <2>1. toVisit' = Opened(n) \o Tail(toVisit) /\ UNCHANGED truncated
    BY <1>8 DEF VisitDir
  <2>2. /\ Opened(n) \in Seq(Steps) /\ DOMAIN Opened(n) = 1 .. 2
        /\ Opened(n)[1] = Todo("add", n) /\ Opened(n)[2] = Todo("list", n)
    BY DEF Opened, Todo, Steps
  <2>3. Todo("add", n).does = "add" /\ Todo("list", n).does = "list" /\ Todo("add", n).node = n
    BY DEF Todo
  <2>4. Todo("add", n) \in Range(Opened(n))
    BY <2>2 DEF Range
  <2>5. remaining' > 0 /\ remaining' # -1
    BY <1>1, <1>3, <1>8
  <2>6. \A i \in DOMAIN Opened(n) : Opened(n)[i].does = "add" =>
           /\ i = 1 /\ remaining' > 0 /\ Opened(n)[i].node \in Dirs
           /\ 2 \in DOMAIN Opened(n) /\ Opened(n)[2] = Todo("list", Opened(n)[i].node)
    BY <1>1, <2>2, <2>3, <2>5
  <2>7. truncated' \in BOOLEAN /\ (truncated => truncated')
    BY <1>3, <2>1
  <2>8. \E t \in Range(Opened(n)) : t.node = n /\ t.does # "list"
    BY <2>3, <2>4
  <2> DEFINE front == Opened(n)
  <2>9. \A d \in (Dirs \cap exists) \ (Hidden \cup Ignored) :
          /\ x.does = "add" /\ d = x.node => d \in watched'
          /\ x.does = "visit" /\ d = x.node /\ ~truncated' =>
               \E t \in Range(front) : t.node = d /\ t.does # "list"
          /\ x = Todo("list", Parent[d]) /\ d # Parent[d] =>
               \E t \in Range(front) : t.node = d /\ t.does # "list"
    BY <1>2, <1>5, <2>8
  <2>10. front \in Seq(Steps) /\ toVisit' = front \o Tail(toVisit)
    BY <2>1, <2>2
  <2> HIDE DEF x, front
  <2> QED
    BY <1>1, <1>2, <1>3, <2>5, <2>6, <2>7, <2>9, <2>10, WalkKeeps DEF front
<1> QED
  BY <1>6, <1>7, <1>8

LEMMA AddWatchKeeps ==
  ASSUME TreeInv, NEW n \in Nodes, AddWatch(n)
  PROVE  TreeInv'
<1> DEFINE x == Todo("add", n)
<1>1. /\ toVisit # <<>> /\ Head(toVisit) = x
      /\ UNCHANGED <<exists, moves, arrivals, toRegister, top, costly, setup, truncated>>
      /\ watched' = watched \cup ({n} \cap exists) /\ remaining' = remaining - 1
      /\ toVisit' = Tail(toVisit)
  BY DEF AddWatch, Doing
<1>2. x \in Steps /\ x.does = "add" /\ x.node = n
  BY DEF Todo, Steps
<1>4. n \in Dirs /\ remaining > 0 /\ remaining \in -1 .. MaxWatchFDs /\ truncated \in BOOLEAN
  BY <1>1, <1>2, HeadStep DEF TreeInv, TreeTypeOK, ThenListed
<1>5. Tail(toVisit) \in Seq(Steps)
  BY <1>1, HeadStep, HeadTail
<1>6. toVisit' = <<>> \o Tail(toVisit) /\ <<>> \in Seq(Steps) /\ DOMAIN <<>> = {}
  BY <1>1, <1>5, NoFront
<1>7. remaining' \in -1 .. MaxWatchFDs /\ remaining' # -1
  BY <1>1, <1>4, WatchTreeAssumption
<1>8. \A d \in Dirs : x # Todo("list", Parent[d])
  BY DEF Todo
<1> HIDE DEF x
<1> QED
  BY <1>1, <1>2, <1>4, <1>6, <1>7, <1>8, WalkKeeps

LEMMA ListDirKeeps ==
  ASSUME TreeInv, NEW n \in Nodes, ListDir(n)
  PROVE  TreeInv'
<1> DEFINE x == Todo("list", n)
           found == SetToSeq(Children(n) \cap exists)
           front == [i \in DOMAIN found |-> Todo("visit", found[i])]
<1>1. /\ toVisit # <<>> /\ Head(toVisit) = x
      /\ UNCHANGED <<exists, moves, watched, arrivals, toRegister, top, costly, setup, remaining, truncated>>
      /\ toVisit' = front \o Tail(toVisit)
  BY DEF ListDir, Doing, treeVars, budgetVars
<1>2. x \in Steps /\ x.does = "list" /\ x.node = n
  BY DEF Todo, Steps
<1>3. remaining \in -1 .. MaxWatchFDs /\ truncated \in BOOLEAN /\ remaining # -1
  <2>1. toVisit[1] = x /\ toVisit # <<>>
    BY <1>1, HeadStep
  <2> QED
    BY <1>2, <2>1 DEF TreeInv, TreeTypeOK, Overdrawn
<1>4. IsFiniteSet(Children(n) \cap exists)
  BY WatchTreeAssumption, FS_Subset DEF Children
<1>5. found \in Seq(Children(n) \cap exists) /\ Range(found) = Children(n) \cap exists
  BY <1>4, SetToSeqElements
<1>6. /\ DOMAIN found = 1 .. Len(found) /\ Len(found) \in Nat
      /\ \A i \in DOMAIN found : found[i] \in Nodes /\ Todo("visit", found[i]) \in Steps
  <2>1. \A m \in Nodes : Todo("visit", m) \in Steps
    BY DEF Todo, Steps
  <2>2. DOMAIN found = 1 .. Len(found) /\ Len(found) \in Nat
    BY <1>5, LenProperties
  <2>3. \A i \in DOMAIN found : found[i] \in Range(found)
    BY DEF Range
  <2> QED
    BY <1>5, <2>1, <2>2, <2>3 DEF Children
<1>7. front \in Seq(Steps)
  <2>1. front \in [1 .. Len(found) -> Steps]
    BY <1>6
  <2> HIDE DEF found, front
  <2> QED
    BY <1>6, <2>1, SeqDef
<1>8. \A i \in DOMAIN front : front[i].does # "add"
  BY DEF Todo
<1>9. \A d \in Children(n) \cap exists : \E t \in Range(front) : t.node = d /\ t.does # "list"
  <2> SUFFICES ASSUME NEW d \in Children(n) \cap exists
               PROVE  \E t \in Range(front) : t.node = d /\ t.does # "list"
    OBVIOUS
  <2>1. PICK i \in DOMAIN found : found[i] = d
    BY <1>5 DEF Range
  <2>2. Todo("visit", d) \in Range(front)
    BY <2>1 DEF Range
  <2> QED
    BY <2>2 DEF Todo
<1>10. \A d \in Dirs \cap exists : x = Todo("list", Parent[d]) /\ d # Parent[d] => d \in Children(n) \cap exists
  BY DEF Todo, Children, Dirs
<1>11. /\ remaining' \in -1 .. MaxWatchFDs /\ remaining' <= remaining /\ remaining' # -1
       /\ truncated' \in BOOLEAN /\ (truncated => truncated')
  BY <1>1, <1>3
<1>12. \A d \in (Dirs \cap exists) \ (Hidden \cup Ignored) :
         /\ x.does = "add" /\ d = x.node => d \in watched'
         /\ x.does = "visit" /\ d = x.node /\ ~truncated' =>
              \E t \in Range(front) : t.node = d /\ t.does # "list"
         /\ x = Todo("list", Parent[d]) /\ d # Parent[d] =>
              \E t \in Range(front) : t.node = d /\ t.does # "list"
  <2> HIDE DEF front, x
  <2> QED
    BY <1>2, <1>9, <1>10
<1>13. \A i \in DOMAIN front : front[i].does = "add" =>
         /\ i = 1 /\ remaining' > 0 /\ front[i].node \in Dirs
         /\ 2 \in DOMAIN front /\ front[2] = Todo("list", front[i].node)
  BY <1>8
<1> HIDE DEF x, front
<1> QED
  BY <1>1, <1>2, <1>7, <1>11, <1>12, <1>13, WalkKeeps

-----------------------------------------------------------------------------
LEMMA TreeStepInv == TreeInv /\ [TreeNext]_treeWatchVars => TreeInv'
<1> SUFFICES ASSUME TreeInv, [TreeNext]_treeWatchVars PROVE TreeInv'
  OBVIOUS
<1>1. CASE TreeNext
  BY <1>1, AppearKeeps, VanishKeeps, RegisterKeeps, ReceiveKeeps, VisitFileKeeps, VisitDirKeeps,
     AddWatchKeeps, ListDirKeeps DEF TreeNext, WatchStep
<1>2. CASE UNCHANGED treeWatchVars
  BY <1>2 DEF treeWatchVars, treeVars, budgetVars, TreeInv, TreeTypeOK, Whole, ThenListed, Overdrawn,
              NothingSlips, Known, WithinFDs, FileRootDirs
<1> QED
  BY <1>1, <1>2

(* Any tree, changed anyhow while its directories are registered: one that *)
(* exists in a watched directory is watched too, or somewhere between the  *)
(* kernel and the walk, or the budget was spent; and it is never exceeded. *)
THEOREM TreeStaysWatched == TreeSpec => [](TreeTypeOK /\ TreeWatched)
<1>1. TreeInv => TreeTypeOK /\ TreeWatched
  BY DEF TreeInv, TreeWatched
<1> QED
  BY <1>1, TreeInitInv, TreeStepInv, PTL DEF TreeSpec

-----------------------------------------------------------------------------
(* The grep.  What a scan has found when it has read n lines of a file ... *)
Seen(d, n) == {i \in HitLines(d) : i <= n}
Upto(d, n) == {i \in Reported(d) : i <= n}
Window(d, i, n) ==
  [doc |-> d, line |-> i, before |-> Min({i - 1, CtxBefore}), after |-> Min({n - i, CtxAfter})]
Partly(d, n) == {Window(d, i, n) : i \in Upto(d, n)}

(* ... which is all matching lines so far unless the cap is reached.       *)
BelowCap(d, n) == PerFile = 0 \/ Cardinality(Upto(d, n)) < PerFile

OnTrack(d, n) ==
  /\ n \in 0 .. Readable(d)
  /\ BelowCap(d, n) => Upto(d, n) = Seen(d, n)
  /\ PerFile > 0 => Cardinality(Upto(d, n)) <= PerFile

ScanInv ==
  \A w \in Scanners : Reading(w) =>
    /\ OnTrack(job[w], at[w])
    /\ hits[w] = Partly(job[w], at[w])
    /\ cut[w] => at[w] = Readable(job[w]) /\ ~AtEnd(w)

(* While nobody cancels, each file is in one place, and all of what has    *)
(* been found in those that are nowhere any more has been added up.        *)
Busy == {job[w] : w \in {v \in Scanners : Reading(v)}}
DocsDone == Docs \ (feed \cup Range(queue) \cup Busy)

OnePlace ==
  /\ feed \cap Range(queue) = {} /\ Busy \cap (feed \cup Range(queue)) = {}
  /\ \A i, j \in DOMAIN queue : queue[i] = queue[j] => i = j
  /\ \A v, w \in Scanners : Reading(w) /\ job[v] = job[w] => v = w

Hides(d) == \E i \in DOMAIN Texts[d] : i > Readable(d) /\ Texts[d][i] = "hit"

AddedUp ==
  /\ matches = UNION {Expected(d) : d \in DocsDone}
  /\ scanned = Cardinality(DocsDone)
  /\ withHits = Cardinality({d \in DocsDone : Expected(d) # {}})
  /\ \A d \in DocsDone : Hides(d) => d \in overlong \/ Cardinality(Reported(d)) = PerFile

LiveInv ==
  grepCtx = "live" =>
    /\ IF stage = "walking"
         THEN /\ feed = {} /\ queue = <<>> /\ \A w \in Scanners : job[w] = "idle"
              /\ matches = {} /\ scanned = 0 /\ withHits = 0
         ELSE OnePlace /\ AddedUp
    /\ stage \in {"closed", "returned"} => feed = {}
    /\ \A w \in Scanners : job[w] = "left" => queue = <<>> /\ stage \in {"closed", "returned"}

TrueMatches == \A m \in matches : \E e \in Expected(m.doc) : SameLine(m, e) /\ m.after <= e.after

GrepInv ==
  /\ GrepTypeOK /\ ScanInv /\ LiveInv /\ TrueMatches
  /\ stage = "returned" => /\ \A w \in Scanners : job[w] = "left"
                           /\ cancelled \/ grepCtx = "live"

-----------------------------------------------------------------------------
LEMMA MinOfTwo ==
  ASSUME NEW a \in Int, NEW b \in Int
  PROVE  /\ Min({a, b}) \in {a, b} /\ Min({a, b}) <= a /\ Min({a, b}) <= b
BY DEF Min

(* The lines a scan can read.                                              *)
LEMMA ReadableLines ==
  ASSUME NEW d \in Docs
  PROVE  /\ Len(Texts[d]) \in Nat /\ DOMAIN Texts[d] = 1 .. Len(Texts[d])
         /\ \A i \in 1 .. Len(Texts[d]) : Texts[d][i] \in {"hit", "plain", "long"}
         /\ Readable(d) \in 0 .. Len(Texts[d])
         /\ \A i \in 1 .. Readable(d) : Texts[d][i] # "long"
         /\ Readable(d) < Len(Texts[d]) => Texts[d][Readable(d) + 1] = "long"
<1> DEFINE long == {i \in DOMAIN Texts[d] : Texts[d][i] = "long"}
<1>1. /\ Len(Texts[d]) \in Nat /\ DOMAIN Texts[d] = 1 .. Len(Texts[d])
      /\ \A i \in 1 .. Len(Texts[d]) : Texts[d][i] \in {"hit", "plain", "long"}
  BY FindMatchesAssumption, LenProperties, ElementOfSeq
<1>2. CASE long = {}
  <2>1. Readable(d) = Len(Texts[d])
    BY <1>2 DEF Readable
  <2> QED
    BY <1>1, <1>2, <2>1
<1>3. CASE long # {}
  <2>1. Readable(d) = Min(long) - 1
    BY <1>3 DEF Readable
  <2>2. Min(long) \in long /\ \A i \in long : Min(long) <= i
    <3>1. long \in SUBSET Nat
      BY <1>1
    <3> HIDE DEF long
    <3> QED
      BY <1>3, <3>1, LeastNat
  <2> HIDE DEF long
  <2>3. Min(long) \in 1 .. Len(Texts[d]) /\ Texts[d][Min(long)] = "long"
    BY <1>1, <2>2 DEF long
  <2>4. ASSUME NEW i \in 1 .. Len(Texts[d]), Texts[d][i] = "long" PROVE Min(long) <= i
    BY <1>1, <2>2, <2>4 DEF long
  <2> QED
    BY <1>1, <2>1, <2>3, <2>4
<1> QED
  BY <1>1, <1>2, <1>3

LEMMA LineSets ==
  ASSUME NEW d \in Docs, NEW n \in Nat
  PROVE  /\ Reported(d) \subseteq HitLines(d) /\ HitLines(d) \subseteq 1 .. Readable(d)
         /\ Upto(d, n) \subseteq Seen(d, n) /\ Seen(d, n) \subseteq HitLines(d)
         /\ IsFiniteSet(Seen(d, n)) /\ IsFiniteSet(Upto(d, n)) /\ IsFiniteSet(Reported(d))
         /\ Cardinality(Seen(d, n)) \in Nat /\ Cardinality(Upto(d, n)) \in Nat
         /\ Cardinality(Upto(d, n)) <= Cardinality(Seen(d, n))
<1>1. /\ Reported(d) \subseteq HitLines(d) /\ HitLines(d) \subseteq 1 .. Readable(d)
      /\ Upto(d, n) \subseteq Seen(d, n) /\ Seen(d, n) \subseteq HitLines(d)
  BY DEF Reported, HitLines, Upto, Seen
<1>2. IsFiniteSet(1 .. Readable(d))
  <2>1. 1 \in Int /\ Readable(d) \in Int
    BY ReadableLines
  <2> QED
    BY ONLY <2>1, FS_Interval
<1>3. /\ IsFiniteSet(HitLines(d)) /\ IsFiniteSet(Seen(d, n)) /\ IsFiniteSet(Upto(d, n))
      /\ IsFiniteSet(Reported(d))
  <2>1. IsFiniteSet(HitLines(d))
    BY <1>1, <1>2, FS_Subset
  <2>2. IsFiniteSet(Seen(d, n)) /\ IsFiniteSet(Reported(d))
    BY <1>1, <2>1, FS_Subset
  <2> QED
    BY <1>1, <2>1, <2>2, FS_Subset
<1> QED
  BY <1>1, <1>3, FS_Subset, FS_CardinalityType

(* Each line it has reported is one match.                                 *)
LEMMA PartlyCount ==
  ASSUME NEW d \in Docs, NEW n \in Nat
  PROVE  IsFiniteSet(Partly(d, n)) /\ Cardinality(Partly(d, n)) = Cardinality(Upto(d, n))
<1> DEFINE f == [i \in Upto(d, n) |-> Window(d, i, n)]
<1>1. \A i, j \in Upto(d, n) : Window(d, i, n) = Window(d, j, n) => i = j
  BY DEF Window
<1>2. f \in Bijection(Upto(d, n), Partly(d, n))
  BY <1>1 DEF Bijection, Injection, Surjection, IsInjective, Partly
<1> QED
  BY <1>2, LineSets, FS_Bijection DEF ExistsBijection

-----------------------------------------------------------------------------
(* The file's next line.                                                   *)
LEMMA NextHit ==
  ASSUME NEW d \in Docs, NEW n \in Nat, n + 1 <= Readable(d), Texts[d][n + 1] = "hit",
         PerFile = 0 \/ Cardinality(Upto(d, n)) < PerFile => Upto(d, n) = Seen(d, n)
  PROVE  n + 1 \in Reported(d) <=> PerFile = 0 \/ Cardinality(Upto(d, n)) < PerFile
<1>1. Readable(d) \in Nat /\ PerFile \in Nat
  BY ReadableLines, FindMatchesAssumption
<1>2. n + 1 \in HitLines(d)
  BY <1>1 DEF HitLines
<1>3. {j \in HitLines(d) : j < n + 1} = Seen(d, n)
  <2>1. \A j \in HitLines(d) : j \in Nat
    BY <1>1, LineSets DEF HitLines
  <2>2. \A j \in HitLines(d) : j < n + 1 <=> j <= n
    BY <2>1
  <2> QED
    BY <2>2 DEF Seen
<1>4. n + 1 \in Reported(d) <=> PerFile = 0 \/ Cardinality(Seen(d, n)) < PerFile
  BY <1>2, <1>3 DEF Reported
<1>5. /\ Cardinality(Seen(d, n)) \in Nat /\ Cardinality(Upto(d, n)) \in Nat
      /\ Cardinality(Upto(d, n)) <= Cardinality(Seen(d, n))
  BY LineSets
<1>6. CASE PerFile = 0 \/ Cardinality(Upto(d, n)) < PerFile
  BY <1>4, <1>6
<1>7. CASE ~(PerFile = 0 \/ Cardinality(Upto(d, n)) < PerFile)
  BY <1>1, <1>4, <1>5, <1>7
<1> QED
  BY <1>6, <1>7

(* One line more.                                                          *)
LEMMA OneLineMore ==
  ASSUME NEW d \in Docs, NEW n \in Nat
  PROVE  /\ n + 1 \in Reported(d) => Upto(d, n + 1) = Upto(d, n) \cup {n + 1}
         /\ n + 1 \notin Reported(d) => Upto(d, n + 1) = Upto(d, n)
         /\ Seen(d, n + 1) = Seen(d, n) \cup (IF n + 1 \in HitLines(d) THEN {n + 1} ELSE {})
         /\ n + 1 \notin Seen(d, n) /\ Upto(d, n) \subseteq 1 .. n
<1>1. \A j \in HitLines(d) : j \in Nat \ {0}
  <2>1. HitLines(d) \subseteq 1 .. Readable(d) /\ Readable(d) \in Nat
    BY LineSets, ReadableLines
  <2> QED
    BY <2>1
<1>2. Reported(d) \subseteq HitLines(d)
  BY LineSets
<1>3. \A j \in Nat : j <= n + 1 <=> j <= n \/ j = n + 1
  OBVIOUS
<1>4. ~(n + 1 <= n)
  OBVIOUS
<1> QED
  BY <1>1, <1>2, <1>3, <1>4 DEF Upto, Seen

Wider(m) == [m EXCEPT !.after = IF @ < CtxAfter THEN @ + 1 ELSE @]

LEMMA Widen ==
  ASSUME NEW d \in Docs, NEW n \in Nat, NEW i \in 1 .. n
  PROVE  Window(d, i, n + 1) = Wider(Window(d, i, n))
<1>1. CtxAfter \in Int /\ n - i \in Int /\ (n + 1) - i \in Int /\ (n + 1) - i = (n - i) + 1
  BY FindMatchesAssumption
<1>2. Min({(n + 1) - i, CtxAfter})
        = IF Min({n - i, CtxAfter}) < CtxAfter THEN Min({n - i, CtxAfter}) + 1 ELSE Min({n - i, CtxAfter})
  <2> DEFINE a == Min({n - i, CtxAfter})
             b == Min({(n + 1) - i, CtxAfter})
  <2>1. a \in {n - i, CtxAfter} /\ a <= n - i /\ a <= CtxAfter
    BY ONLY <1>1, MinOfTwo
  <2>2. b \in {(n + 1) - i, CtxAfter} /\ b <= (n + 1) - i /\ b <= CtxAfter
    BY ONLY <1>1, MinOfTwo
  <2> HIDE DEF a, b
  <2>3. b = IF a < CtxAfter THEN a + 1 ELSE a
    BY <1>1, <2>1, <2>2
  <2> QED
    BY <2>3 DEF a, b
<1> DEFINE u == Min({n - i, CtxAfter})
           v == Min({(n + 1) - i, CtxAfter})
           z == Min({i - 1, CtxBefore})
<1>3. v = IF u < CtxAfter THEN u + 1 ELSE u
  BY <1>2
<1> HIDE DEF u, v, z
<1>4. /\ Window(d, i, n) = [doc |-> d, line |-> i, before |-> z, after |-> u]
      /\ Window(d, i, n + 1) = [doc |-> d, line |-> i, before |-> z, after |-> v]
  BY DEF Window, u, v, z
<1> QED
  BY <1>3, <1>4 DEF Wider

(* A scan that has found what it should goes on as it should.              *)
LEMMA PartlyMore ==
  ASSUME NEW d \in Docs, NEW n \in Nat, n + 1 <= Readable(d), Texts[d][n + 1] # "long",
         BelowCap(d, n) => Upto(d, n) = Seen(d, n),
         PerFile > 0 => Cardinality(Upto(d, n)) <= PerFile
  PROVE  /\ n + 1 \in Reported(d) <=> Texts[d][n + 1] = "hit" /\ BelowCap(d, n)
         /\ Partly(d, n + 1) =
              {Wider(m) : m \in Partly(d, n)}
                \cup (IF n + 1 \in Reported(d)
                        THEN {[doc |-> d, line |-> n + 1, before |-> Min({n, CtxBefore}), after |-> 0]}
                        ELSE {})
         /\ BelowCap(d, n + 1) => Upto(d, n + 1) = Seen(d, n + 1)
         /\ PerFile > 0 => Cardinality(Upto(d, n + 1)) <= PerFile
<1>1. /\ Readable(d) \in Nat /\ PerFile \in Nat
      /\ Upto(d, n) \subseteq 1 .. n /\ IsFiniteSet(Upto(d, n)) /\ Cardinality(Upto(d, n)) \in Nat
  <2>1. Readable(d) \in Nat /\ PerFile \in Nat
    BY ReadableLines, FindMatchesAssumption
  <2>2. Upto(d, n) \subseteq 1 .. n
    BY OneLineMore
  <2> QED
    BY <2>1, <2>2, LineSets
<1>2. n + 1 \in HitLines(d) <=> Texts[d][n + 1] = "hit"
  BY <1>1 DEF HitLines
<1>3. n + 1 \in Reported(d) <=> Texts[d][n + 1] = "hit" /\ BelowCap(d, n)
  <2>1. CASE Texts[d][n + 1] = "hit"
    BY <2>1, NextHit DEF BelowCap
  <2>2. CASE Texts[d][n + 1] # "hit"
    BY <1>2, <2>2, LineSets
  <2> QED
    BY <2>1, <2>2
<1>4. ASSUME NEW i \in Upto(d, n)
      PROVE  Window(d, i, n + 1) = Wider(Window(d, i, n))
  BY <1>1, Widen
<1>5. Window(d, n + 1, n + 1) = [doc |-> d, line |-> n + 1, before |-> Min({n, CtxBefore}), after |-> 0]
  <2>1. (n + 1) - 1 = n /\ (n + 1) - (n + 1) = 0
    OBVIOUS
  <2>2. Min({0, CtxAfter}) = 0
    <3>1. CtxAfter \in Nat
      BY FindMatchesAssumption
    <3> DEFINE z == Min({0, CtxAfter})
    <3>2. z \in {0, CtxAfter} /\ z <= 0
      BY ONLY <3>1, MinOfTwo
    <3> HIDE DEF z
    <3>3. z = 0
      BY <3>1, <3>2
    <3> QED
      BY <3>3 DEF z
  <2> QED
    BY <2>1, <2>2 DEF Window
<1>6. Partly(d, n + 1) = {Window(d, i, n + 1) : i \in Upto(d, n)}
                           \cup (IF n + 1 \in Reported(d) THEN {Window(d, n + 1, n + 1)} ELSE {})
  <2>1. CASE n + 1 \in Reported(d)
    <3>1. Upto(d, n + 1) = Upto(d, n) \cup {n + 1}
      BY <2>1, OneLineMore
    <3> QED
      BY <2>1, <3>1 DEF Partly
  <2>2. CASE n + 1 \notin Reported(d)
    <3>1. Upto(d, n + 1) = Upto(d, n)
      BY <2>2, OneLineMore
    <3> QED
      BY <2>2, <3>1 DEF Partly
  <2> QED
    BY <2>1, <2>2
<1>7. {Window(d, i, n + 1) : i \in Upto(d, n)}
        = {Wider(m) : m \in Partly(d, n)}
  BY <1>4 DEF Partly
<1>8. Cardinality(Upto(d, n + 1)) = IF n + 1 \in Reported(d) THEN Cardinality(Upto(d, n)) + 1
                                                             ELSE Cardinality(Upto(d, n))
  <2>1. n + 1 \notin Upto(d, n)
    BY <1>1
  <2>2. CASE n + 1 \in Reported(d)
    <3>1. Upto(d, n + 1) = Upto(d, n) \cup {n + 1}
      BY <2>2, OneLineMore
    <3>2. Cardinality(Upto(d, n) \cup {n + 1}) = Cardinality(Upto(d, n)) + 1
      BY <1>1, <2>1, FS_AddElement
    <3> QED
      BY <2>2, <3>1, <3>2
  <2>3. CASE n + 1 \notin Reported(d)
    BY <2>3, OneLineMore
  <2> QED
    BY <2>2, <2>3
<1>9. ASSUME BelowCap(d, n + 1) PROVE Upto(d, n + 1) = Seen(d, n + 1)
  <2>1. BelowCap(d, n)
    BY <1>1, <1>8, <1>9 DEF BelowCap
  <2>2. Upto(d, n) = Seen(d, n) /\ (n + 1 \in Reported(d) <=> n + 1 \in HitLines(d))
    BY <1>2, <1>3, <2>1
  <2>3. /\ Upto(d, n + 1) = Upto(d, n) \cup (IF n + 1 \in Reported(d) THEN {n + 1} ELSE {})
        /\ Seen(d, n + 1) = Seen(d, n) \cup (IF n + 1 \in HitLines(d) THEN {n + 1} ELSE {})
    BY OneLineMore
  <2> QED
    BY <2>2, <2>3
<1>10. PerFile > 0 => Cardinality(Upto(d, n + 1)) <= PerFile
  <2>1. CASE n + 1 \in Reported(d)
    <3>1. PerFile = 0 \/ Cardinality(Upto(d, n)) < PerFile
      BY <1>3, <2>1 DEF BelowCap
    <3> QED
      BY <1>1, <1>8, <2>1, <3>1
  <2>2. CASE n + 1 \notin Reported(d)
    BY <1>8, <2>2
  <2> QED
    BY <2>1, <2>2
<1>11. Partly(d, n + 1) =
         {Wider(m) : m \in Partly(d, n)}
           \cup (IF n + 1 \in Reported(d)
                   THEN {[doc |-> d, line |-> n + 1, before |-> Min({n, CtxBefore}), after |-> 0]}
                   ELSE {})
  BY <1>5, <1>6, <1>7
<1> QED
  BY <1>3, <1>9, <1>10, <1>11

(* A scan that begins, and one that need not go on.                        *)
LEMMA PartlyNone ==
  ASSUME NEW d \in Docs
  PROVE  Partly(d, 0) = {} /\ Upto(d, 0) = {} /\ Seen(d, 0) = {}
<1>1. \A i \in HitLines(d) : i \in 1 .. Readable(d) /\ Readable(d) \in Nat
  BY LineSets, ReadableLines
<1>2. Seen(d, 0) = {}
  BY <1>1 DEF Seen
<1> QED
  BY <1>2, LineSets DEF Partly

LEMMA PartlyAll ==
  ASSUME NEW d \in Docs
  PROVE  Partly(d, Readable(d)) = Expected(d) /\ Upto(d, Readable(d)) = Reported(d)
<1>1. Readable(d) \in Nat /\ Reported(d) \subseteq 1 .. Readable(d)
  BY LineSets, ReadableLines
<1>2. Upto(d, Readable(d)) = Reported(d)
  BY <1>1 DEF Upto
<1> QED
  BY <1>2 DEF Partly, Expected, Window

LEMMA PartlyEnough ==
  ASSUME NEW d \in Docs, NEW n \in 0 .. Readable(d), ~BelowCap(d, n), Pending(Partly(d, n)) = {}
  PROVE  Partly(d, n) = Expected(d) /\ Upto(d, n) = Reported(d)
<1>0. Readable(d) \in Nat /\ n \in Nat /\ n <= Readable(d)
  BY ReadableLines
<1>1. /\ Readable(d) \in Nat /\ n \in Nat /\ n <= Readable(d) /\ PerFile \in Nat \ {0} /\ CtxAfter \in Nat
      /\ Reported(d) \subseteq HitLines(d) /\ HitLines(d) \subseteq 1 .. Readable(d)
      /\ Upto(d, n) \subseteq Seen(d, n)
  <2>1. PerFile \in Nat \ {0} /\ CtxAfter \in Nat
    BY FindMatchesAssumption DEF BelowCap
  <2>2. /\ Reported(d) \subseteq HitLines(d) /\ HitLines(d) \subseteq 1 .. Readable(d)
        /\ Upto(d, n) \subseteq Seen(d, n)
    BY <1>0, LineSets
  <2> QED
    BY <1>0, <2>1, <2>2
<1>2. IsFiniteSet(Seen(d, n)) /\ IsFiniteSet(Upto(d, n)) /\ IsFiniteSet(HitLines(d))
  <2>1. IsFiniteSet(1 .. Readable(d))
    BY <1>1, FS_Interval
  <2> QED
    BY <1>1, <2>1, LineSets, FS_Subset
<1>3. ASSUME NEW i \in Reported(d) PROVE i <= n
  <2> SUFFICES ASSUME ~(i <= n) PROVE FALSE
    OBVIOUS
  <2> DEFINE earlier == {j \in HitLines(d) : j < i}
  <2>1. Seen(d, n) \subseteq earlier /\ IsFiniteSet(earlier)
    <3>1. \A j \in HitLines(d) : j \in Nat /\ (j <= n => j < i)
      BY <1>1
    <3> QED
      BY <1>2, <3>1, FS_Subset DEF Seen
  <2>2. Upto(d, n) \subseteq earlier
    BY <1>1, <2>1
  <2>3. Cardinality(earlier) < PerFile
    BY <1>1 DEF Reported
  <2> HIDE DEF earlier
  <2>4. Cardinality(Upto(d, n)) <= Cardinality(earlier) /\ Cardinality(earlier) \in Nat
        /\ Cardinality(Upto(d, n)) \in Nat
    BY <1>2, <2>1, <2>2, FS_Subset, FS_CardinalityType
  <2> QED
    BY <1>1, <2>3, <2>4 DEF BelowCap
<1>4. Upto(d, n) = Reported(d)
  BY <1>3 DEF Upto
<1>5. ASSUME NEW i \in Reported(d) PROVE Window(d, i, n) = Window(d, i, Readable(d))
  <2> DEFINE u == Min({n - i, CtxAfter})
             v == Min({Readable(d) - i, CtxAfter})
  <2>1. n - i \in Int /\ Readable(d) - i \in Int /\ n - i <= Readable(d) - i /\ CtxAfter \in Int
    BY <1>1
  <2>2. u \in {n - i, CtxAfter} /\ u <= n - i /\ u <= CtxAfter
    BY ONLY <2>1, MinOfTwo
  <2>3. v \in {Readable(d) - i, CtxAfter} /\ v <= Readable(d) - i /\ v <= CtxAfter
    BY ONLY <2>1, MinOfTwo
  <2>4. Window(d, i, n) \in Partly(d, n) /\ Window(d, i, n).after = u
    BY <1>4 DEF Partly, Window
  <2> HIDE DEF u, v
  <2>5. ~(u < CtxAfter)
    BY <2>4 DEF Pending
  <2>6. u = v
    BY <1>1, <2>1, <2>2, <2>3, <2>5
  <2> QED
    BY <2>6 DEF Window, u, v
<1> QED
  BY <1>4, <1>5, PartlyAll DEF Partly

(* What a scan has found at any time is true, as far as it goes.           *)
LEMMA PartlyTrue ==
  ASSUME NEW d \in Docs, NEW n \in 0 .. Readable(d), NEW m \in Partly(d, n)
  PROVE  /\ m.doc = d /\ m \in Found
         /\ \E e \in Expected(d) : SameLine(m, e) /\ m.after <= e.after
<1>1. PICK i \in Upto(d, n) : m = Window(d, i, n)
  BY DEF Partly
<1>2. /\ Readable(d) \in Nat /\ n \in Nat /\ i \in 1 .. n /\ i \in Reported(d)
      /\ CtxAfter \in Nat /\ CtxBefore \in Nat
  BY ReadableLines, FindMatchesAssumption, OneLineMore DEF Upto
<1> DEFINE u == Min({n - i, CtxAfter})
           v == Min({Readable(d) - i, CtxAfter})
           z == Min({i - 1, CtxBefore})
<1>3. n - i \in Nat /\ Readable(d) - i \in Nat /\ n - i <= Readable(d) - i /\ i - 1 \in Nat
  BY <1>2
<1>12. /\ n - i \in Int /\ Readable(d) - i \in Int /\ i - 1 \in Int
       /\ CtxAfter \in Int /\ CtxBefore \in Int
  BY <1>2
<1>4. u \in {n - i, CtxAfter} /\ u <= n - i /\ u <= CtxAfter
  BY ONLY <1>12, MinOfTwo
<1>5. v \in {Readable(d) - i, CtxAfter} /\ v <= Readable(d) - i /\ v <= CtxAfter
  BY ONLY <1>12, MinOfTwo
<1>6. z \in {i - 1, CtxBefore} /\ z <= CtxBefore
  BY ONLY <1>12, MinOfTwo
<1> DEFINE e == [doc |-> d, line |-> i, before |-> z, after |-> v]
<1>7. m = [doc |-> d, line |-> i, before |-> z, after |-> u]
  BY <1>1 DEF Window
<1>8. e \in Expected(d)
  BY <1>2 DEF Expected
<1> HIDE DEF u, v, z
<1>9. u <= v /\ u \in 0 .. CtxAfter /\ z \in 0 .. CtxBefore
  BY <1>2, <1>3, <1>4, <1>5, <1>6
<1>10. m.doc = d /\ m \in Found
  BY <1>2, <1>7, <1>9 DEF Found
<1>11. SameLine(m, e) /\ m.after <= e.after
  BY <1>7, <1>9 DEF SameLine
<1> QED
  BY <1>8, <1>10, <1>11

-----------------------------------------------------------------------------
LEMMA GrepInitInv == GrepInit => GrepInv
<1> SUFFICES ASSUME GrepInit PROVE GrepInv
  OBVIOUS
<1>1. /\ grepCtx = "live" /\ stage = "walking" /\ feed = {} /\ queue = <<>>
      /\ job = [w \in Scanners |-> "idle"] /\ at = [w \in Scanners |-> 0]
      /\ hits = [w \in Scanners |-> {}] /\ cut = [w \in Scanners |-> FALSE]
      /\ matches = {} /\ scanned = 0 /\ withHits = 0 /\ overlong = {} /\ cancelled = FALSE
  BY DEF GrepInit
<1>2. GrepTypeOK
  <2>1. queue \in Seq(Docs)
    BY <1>1, EmptyBatch
  <2>2. withHits \in 0 .. scanned /\ scanned \in Nat
    BY <1>1
  <2>3. cancelled \in BOOLEAN /\ cut \in [Scanners -> BOOLEAN]
    BY <1>1
  <2>4. /\ job \in [Scanners -> Docs \cup {"idle", "left"}] /\ at \in [Scanners -> Nat]
        /\ hits \in [Scanners -> SUBSET Found]
    BY <1>1
  <2> QED
    BY <1>1, <2>1, <2>2, <2>3, <2>4 DEF GrepTypeOK
<1>3. ScanInv /\ TrueMatches
  BY <1>1 DEF ScanInv, Reading, TrueMatches
<1>4. LiveInv
  BY <1>1 DEF LiveInv
<1> QED
  BY <1>1, <1>2, <1>3, <1>4 DEF GrepInv

(* A step that leaves the scans alone.                                     *)
LEMMA ScansStay ==
  ASSUME ScanInv, UNCHANGED scanVars,
         \A w \in Scanners : Reading(w)' => Reading(w) /\ job'[w] = job[w]
  PROVE  ScanInv'
BY DEF ScanInv, scanVars, AtEnd

LEMMA CancelKeeps == GrepInv /\ GrepCancel => GrepInv'
<1> SUFFICES ASSUME GrepInv, GrepCancel PROVE GrepInv'
  OBVIOUS
<1>1. /\ grepCtx' = "done" /\ stage # "returned"
      /\ UNCHANGED <<stage, feed, queue, job, at, hits, cut, matches, scanned, withHits, overlong, cancelled>>
  BY DEF GrepCancel, scanVars, totalVars
<1>2. ScanInv'
  BY <1>1, ScansStay DEF GrepInv, Reading, scanVars
<1>3. GrepTypeOK' /\ LiveInv' /\ TrueMatches'
  BY <1>1 DEF GrepInv, GrepTypeOK, LiveInv, TrueMatches
<1> QED
  BY <1>1, <1>2, <1>3 DEF GrepInv

LEMMA WalkDoneKeeps == GrepInv /\ WalkDone => GrepInv'
<1> SUFFICES ASSUME GrepInv, WalkDone PROVE GrepInv'
  OBVIOUS
<1>1. /\ stage = "walking" /\ stage' = "feeding" /\ feed' \subseteq Docs
      /\ UNCHANGED <<grepCtx, queue, job, at, hits, cut, matches, scanned, withHits, overlong, cancelled>>
      /\ grepCtx = "live" => feed' = Docs
  BY DEF WalkDone, scanVars, totalVars
<1>2. ScanInv'
  BY <1>1, ScansStay DEF GrepInv, Reading, scanVars
<1>3. GrepTypeOK' /\ TrueMatches'
  BY <1>1 DEF GrepInv, GrepTypeOK, TrueMatches
<1>4. LiveInv'
  <2> SUFFICES ASSUME grepCtx = "live" PROVE LiveInv'
    BY <1>1 DEF LiveInv
  <2>1. /\ queue = <<>> /\ \A w \in Scanners : job[w] = "idle"
        /\ matches = {} /\ scanned = 0 /\ withHits = 0
    BY <1>1 DEF GrepInv, LiveInv
  <2>2. Busy' = {} /\ Range(queue') = {} /\ DocsDone' = {}
    BY <1>1, <2>1, RangeEmpty DEF Busy, Reading, DocsDone
  <2>3. OnePlace'
    BY <1>1, <2>1, <2>2 DEF OnePlace, Reading
  <2>4. AddedUp'
    BY <1>1, <2>1, <2>2, FS_EmptySet DEF AddedUp
  <2> QED
    BY <1>1, <2>1, <2>3, <2>4 DEF LiveInv
<1> QED
  BY <1>1, <1>2, <1>3, <1>4 DEF GrepInv

(* A step in which every file that is somewhere stays somewhere.           *)
LEMMA SumStays ==
  ASSUME AddedUp, UNCHANGED totalVars, DocsDone' = DocsDone
  PROVE  AddedUp'
BY DEF AddedUp, totalVars

LEMMA FeedKeeps == ASSUME GrepInv, NEW d \in Docs, Feed(d) PROVE GrepInv'
<1>1. /\ stage = "feeding" /\ d \in feed /\ queue' = Append(queue, d) /\ feed' = feed \ {d}
      /\ UNCHANGED <<grepCtx, stage, job, at, hits, cut, matches, scanned, withHits, overlong, cancelled>>
  BY DEF Feed, scanVars, totalVars
<1>2. queue \in Seq(Docs) /\ queue' \in Seq(Docs) /\ Range(queue') = Range(queue) \cup {d}
  BY <1>1, AppendType, RangeAppend DEF GrepInv, GrepTypeOK
<1>3. ScanInv'
  BY <1>1, ScansStay DEF GrepInv, Reading, scanVars
<1>4. GrepTypeOK' /\ TrueMatches'
  BY <1>1, <1>2 DEF GrepInv, GrepTypeOK, TrueMatches
<1>5. LiveInv'
  <2> SUFFICES ASSUME grepCtx = "live" PROVE LiveInv'
    BY <1>1 DEF LiveInv
  <2>1. OnePlace /\ AddedUp /\ \A w \in Scanners : job[w] # "left"
    BY <1>1 DEF GrepInv, LiveInv
  <2>2. Busy' = Busy /\ DocsDone' = DocsDone
    BY <1>1, <1>2 DEF Busy, Reading, DocsDone
  <2>3. \A i, j \in DOMAIN queue' : queue'[i] = queue'[j] => i = j
    <3>1. /\ DOMAIN queue = 1 .. Len(queue) /\ DOMAIN queue' = 1 .. Len(queue) + 1 /\ Len(queue) \in Nat
          /\ \A i \in 1 .. Len(queue) : queue'[i] = queue[i]
          /\ queue'[Len(queue) + 1] = d
      BY <1>1, <1>2, AppendProperties, LenProperties
    <3>2. \A i \in 1 .. Len(queue) : queue'[i] # d /\ \A j \in 1 .. Len(queue) : queue'[i] = queue'[j] => i = j
      BY <1>1, <2>1, <3>1 DEF OnePlace, Range
    <3>3. \A i \in 1 .. Len(queue) + 1 : i \in 1 .. Len(queue) \/ i = Len(queue) + 1
      BY <3>1
    <3> QED
      BY <3>1, <3>2, <3>3
  <2>4. OnePlace'
    BY <1>1, <1>2, <2>1, <2>2, <2>3 DEF OnePlace, Reading
  <2>5. AddedUp'
    BY <1>1, <2>1, <2>2, SumStays DEF totalVars
  <2> QED
    BY <1>1, <2>1, <2>4, <2>5 DEF LiveInv
<1> QED
  BY <1>1, <1>3, <1>4, <1>5 DEF GrepInv

LEMMA CloseFeedKeeps == GrepInv /\ CloseFeed => GrepInv'
<1> SUFFICES ASSUME GrepInv, CloseFeed PROVE GrepInv'
  OBVIOUS
<1>1. /\ stage = "feeding" /\ stage' = "closed" /\ (feed = {} \/ grepCtx = "done")
      /\ UNCHANGED <<grepCtx, feed, queue, job, at, hits, cut, matches, scanned, withHits, overlong, cancelled>>
  BY DEF CloseFeed, scanVars, totalVars
<1>2. ScanInv'
  BY <1>1, ScansStay DEF GrepInv, Reading, scanVars
<1>3. GrepTypeOK' /\ TrueMatches'
  BY <1>1 DEF GrepInv, GrepTypeOK, TrueMatches
<1>4. (OnePlace /\ AddedUp) => (OnePlace /\ AddedUp)'
  BY <1>1 DEF OnePlace, AddedUp, DocsDone, Busy, Reading
<1>5. LiveInv'
  BY <1>1, <1>4 DEF GrepInv, LiveInv
<1> QED
  BY <1>1, <1>2, <1>3, <1>5 DEF GrepInv

(* The steps of a worker.                                                  *)
LEMMA TakeKeeps == ASSUME GrepInv, NEW w \in Scanners, TakeDoc(w) PROVE GrepInv'
<1> DEFINE d == Head(queue)
<1>1. /\ job[w] = "idle" /\ queue # <<>> /\ queue' = Tail(queue)
      /\ job' = [job EXCEPT ![w] = IF grepCtx = "done" THEN "left" ELSE d]
      /\ at' = [at EXCEPT ![w] = 0] /\ hits' = [hits EXCEPT ![w] = {}] /\ cut' = [cut EXCEPT ![w] = FALSE]
      /\ UNCHANGED <<grepCtx, stage, feed, matches, scanned, withHits, overlong, cancelled>>
  BY DEF TakeDoc, totalVars
<1>t. /\ job \in [Scanners -> Docs \cup {"idle", "left"}] /\ at \in [Scanners -> Nat]
      /\ hits \in [Scanners -> SUBSET Found] /\ cut \in [Scanners -> BOOLEAN] /\ queue \in Seq(Docs)
      /\ grepCtx \in {"live", "done"}
  BY DEF GrepInv, GrepTypeOK
<1>2. /\ d \in Docs /\ d \notin {"idle", "left"} /\ queue' \in Seq(Docs)
      /\ Range(queue) = {d} \cup Range(queue')
  BY <1>1, <1>t, HeadTail, RangeSplit, FindMatchesAssumption
<1>3. GrepTypeOK'
  <2>1. /\ job' \in [Scanners -> Docs \cup {"idle", "left"}] /\ at' \in [Scanners -> Nat]
        /\ hits' \in [Scanners -> SUBSET Found] /\ cut' \in [Scanners -> BOOLEAN]
    BY <1>1, <1>t, <1>2
  <2> QED
    BY <1>1, <1>2, <2>1 DEF GrepInv, GrepTypeOK
<1>4. ScanInv'
  <2> SUFFICES ASSUME NEW v \in Scanners, Reading(v)'
               PROVE  /\ OnTrack(job'[v], at'[v]) /\ hits'[v] = Partly(job'[v], at'[v])
                      /\ cut'[v] => at'[v] = Readable(job'[v]) /\ ~AtEnd(v)'
    BY DEF ScanInv
  <2>1. CASE v = w
    <3>1. job'[v] = d /\ at'[v] = 0 /\ hits'[v] = {} /\ cut'[v] = FALSE
      BY <1>1, <1>t, <2>1 DEF Reading
    <3>2. OnTrack(d, 0)
      <4>1. Readable(d) \in Nat /\ PerFile \in Nat
        BY <1>2, ReadableLines, FindMatchesAssumption
      <4>2. Cardinality(Upto(d, 0)) = 0 /\ Upto(d, 0) = Seen(d, 0)
        BY <1>2, PartlyNone, FS_EmptySet
      <4> HIDE DEF d
      <4> QED
        BY <4>1, <4>2 DEF OnTrack
    <3> QED
      BY <1>2, <3>1, <3>2, PartlyNone
  <2>2. CASE v # w
    <3>1. job'[v] = job[v] /\ at'[v] = at[v] /\ hits'[v] = hits[v] /\ cut'[v] = cut[v]
      BY <1>1, <1>t, <2>2
    <3> QED
      BY <3>1 DEF GrepInv, ScanInv, Reading, AtEnd
  <2> QED
    BY <2>1, <2>2
<1>5. LiveInv'
  <2> SUFFICES ASSUME grepCtx = "live" PROVE LiveInv'
    BY <1>1 DEF LiveInv
  <2>1. /\ stage # "walking" /\ OnePlace /\ AddedUp /\ \A v \in Scanners : job[v] # "left"
    BY <1>1 DEF GrepInv, LiveInv
  <2>2. /\ job'[w] = d /\ \A v \in Scanners \ {w} : job'[v] = job[v]
    BY <1>1, <1>t
  <2>3. d \notin Range(queue')
    <3>1. /\ DOMAIN queue = 1 .. Len(queue) /\ DOMAIN queue' = 1 .. Len(queue) - 1 /\ Len(queue) \in Nat
          /\ Len(queue) # 0 /\ d = queue[1] /\ \A i \in 1 .. Len(queue) - 1 : queue'[i] = queue[i + 1]
      BY <1>1, <1>t, <1>2, HeadTailProperties, LenProperties, EmptySeq
    <3> SUFFICES ASSUME NEW i \in 1 .. Len(queue) - 1, queue'[i] = d PROVE FALSE
      BY <3>1 DEF Range
    <3>2. i + 1 \in DOMAIN queue /\ 1 \in DOMAIN queue /\ queue[i + 1] = queue[1] /\ i + 1 # 1
      BY <3>1
    <3> QED
      BY <2>1, <3>2 DEF OnePlace
  <2>4. Busy' = Busy \cup {d}
    BY <1>1, <1>2, <2>2 DEF Busy, Reading
  <2>5. DocsDone' = DocsDone
    BY <1>1, <1>2, <2>4 DEF DocsDone
  <2>6. OnePlace'
    <3>1. \A i, j \in DOMAIN queue' : queue'[i] = queue'[j] => i = j
      <4>1. /\ DOMAIN queue = 1 .. Len(queue) /\ DOMAIN queue' = 1 .. Len(queue) - 1 /\ Len(queue) \in Nat
            /\ \A i \in 1 .. Len(queue) - 1 : queue'[i] = queue[i + 1]
        BY <1>1, <1>t, <1>2, HeadTailProperties, LenProperties
      <4> SUFFICES ASSUME NEW i \in 1 .. Len(queue) - 1, NEW j \in 1 .. Len(queue) - 1, queue'[i] = queue'[j]
                   PROVE  i = j
        BY <4>1
      <4>2. i + 1 \in DOMAIN queue /\ j + 1 \in DOMAIN queue /\ queue[i + 1] = queue[j + 1]
        BY <4>1
      <4>3. i + 1 = j + 1
        BY <2>1, <4>2 DEF OnePlace
      <4> QED
        BY <4>3
    <3>2. ASSUME NEW u \in Scanners, NEW v \in Scanners, Reading(v)', job'[u] = job'[v] PROVE u = v
      <4>1. CASE u = w /\ v # w
        <5>1. job[v] = d /\ Reading(v)
          BY <2>2, <3>2, <4>1 DEF Reading
        <5> QED
          BY <1>2, <2>1, <5>1 DEF OnePlace, Busy
      <4>2. CASE v = w /\ u # w
        <5>1. job[u] = d /\ Reading(u)
          BY <1>2, <2>2, <3>2, <4>2 DEF Reading
        <5> QED
          BY <1>2, <2>1, <5>1 DEF OnePlace, Busy
      <4>3. CASE u # w /\ v # w
        BY <2>1, <2>2, <3>2, <4>3 DEF OnePlace, Reading
      <4> QED
        BY <4>1, <4>2, <4>3
    <3>3. feed' \cap Range(queue') = {} /\ Busy' \cap (feed' \cup Range(queue')) = {}
      BY <1>1, <1>2, <2>1, <2>3, <2>4 DEF OnePlace
    <3> QED
      BY <3>1, <3>2, <3>3 DEF OnePlace
  <2>7. AddedUp'
    BY <1>1, <2>1, <2>5, SumStays DEF totalVars
  <2>8. \A v \in Scanners : job'[v] # "left"
    BY <1>2, <2>1, <2>2
  <2>9. stage' \in {"closed", "returned"} => feed' = {}
    BY <1>1 DEF GrepInv, LiveInv
  <2> QED
    BY <1>1, <2>1, <2>6, <2>7, <2>8, <2>9 DEF LiveInv
<1>6. TrueMatches' /\ stage # "returned"
  BY <1>1 DEF GrepInv, TrueMatches
<1> QED
  BY <1>1, <1>3, <1>4, <1>5, <1>6 DEF GrepInv

LEMMA LeaveKeeps == ASSUME GrepInv, NEW w \in Scanners, LeavePool(w) PROVE GrepInv'
<1>1. /\ job[w] = "idle" /\ queue = <<>> /\ stage = "closed" /\ job' = [job EXCEPT ![w] = "left"]
      /\ UNCHANGED <<grepCtx, stage, feed, queue, at, hits, cut, matches, scanned, withHits, overlong, cancelled>>
  BY DEF LeavePool, scanVars, totalVars
<1>2. /\ job \in [Scanners -> Docs \cup {"idle", "left"}]
      /\ job' \in [Scanners -> Docs \cup {"idle", "left"}]
      /\ job'[w] = "left" /\ \A v \in Scanners \ {w} : job'[v] = job[v]
  BY <1>1 DEF GrepInv, GrepTypeOK
<1>3. \A v \in Scanners : /\ Reading(v)' <=> Reading(v)
                          /\ Reading(v) => job'[v] = job[v]
  BY <1>1, <1>2 DEF Reading
<1>4. ScanInv'
  BY <1>1, <1>3, ScansStay DEF GrepInv, scanVars
<1>5. GrepTypeOK' /\ TrueMatches'
  BY <1>1, <1>2 DEF GrepInv, GrepTypeOK, TrueMatches
<1>6. LiveInv'
  <2> SUFFICES ASSUME grepCtx = "live" PROVE LiveInv'
    BY <1>1 DEF LiveInv
  <2>1. OnePlace /\ AddedUp /\ feed = {}
    BY <1>1 DEF GrepInv, LiveInv
  <2>2. Busy' = Busy /\ DocsDone' = DocsDone
    BY <1>1, <1>3 DEF Busy, DocsDone
  <2>3. OnePlace'
    <3>1. ASSUME NEW u \in Scanners, NEW v \in Scanners, Reading(v)', job'[u] = job'[v] PROVE u = v
      BY <1>2, <1>3, <2>1, <3>1 DEF OnePlace, Reading
    <3> QED
      BY <1>1, <2>1, <2>2, <3>1 DEF OnePlace
  <2>4. AddedUp'
    BY <1>1, <2>1, <2>2, SumStays DEF totalVars
  <2> QED
    BY <1>1, <2>1, <2>3, <2>4 DEF LiveInv
<1> QED
  BY <1>1, <1>4, <1>5, <1>6 DEF GrepInv

LEMMA ReadKeeps == ASSUME GrepInv, NEW w \in Scanners, ReadLine(w) PROVE GrepInv'
<1> DEFINE d == job[w]
           n == at[w]
<1>1. /\ Reading(w) /\ ~AtEnd(w) /\ ~cut[w]
      /\ IF Line(w) = "long"
           THEN cut' = [cut EXCEPT ![w] = TRUE] /\ at' = at /\ hits' = hits
           ELSE /\ hits' = [hits EXCEPT ![w] = Widened(w) \cup NewMatch(w)]
                /\ at' = [at EXCEPT ![w] = n + 1] /\ cut' = cut
      /\ UNCHANGED <<grepCtx, stage, feed, queue, job, matches, scanned, withHits, overlong, cancelled>>
  BY DEF ReadLine, totalVars
<1>2. /\ job \in [Scanners -> Docs \cup {"idle", "left"}] /\ at \in [Scanners -> Nat]
      /\ hits \in [Scanners -> SUBSET Found] /\ cut \in [Scanners -> BOOLEAN]
      /\ d \in Docs /\ n \in Nat
  BY <1>1 DEF GrepInv, GrepTypeOK, Reading
<1>3. OnTrack(d, n) /\ hits[w] = Partly(d, n) /\ n # Len(Texts[d])
  BY <1>1 DEF GrepInv, ScanInv, AtEnd
<1>4. /\ Len(Texts[d]) \in Nat /\ Readable(d) \in 0 .. Len(Texts[d]) /\ n \in 0 .. Readable(d)
      /\ \A i \in 1 .. Readable(d) : Texts[d][i] # "long"
      /\ Readable(d) < Len(Texts[d]) => Texts[d][Readable(d) + 1] = "long"
  <2> HIDE DEF d, n
  <2> QED
    BY <1>2, <1>3, ReadableLines DEF OnTrack
<1>5. CASE Line(w) = "long"
  <2>1. n = Readable(d)
    <3>1. Texts[d][n + 1] = "long"
      BY <1>5 DEF Line
    <3> HIDE DEF d, n
    <3>2. ~(n + 1 \in 1 .. Readable(d))
      BY <1>4, <3>1
    <3> QED
      BY <1>2, <1>4, <3>2
  <2>2. /\ cut' \in [Scanners -> BOOLEAN] /\ cut'[w] = TRUE
        /\ \A v \in Scanners \ {w} : cut'[v] = cut[v]
    BY <1>1, <1>2, <1>5
  <2>3. ScanInv'
    <3> SUFFICES ASSUME NEW v \in Scanners, Reading(v)'
                 PROVE  /\ OnTrack(job[v], at[v]) /\ hits[v] = Partly(job[v], at[v])
                        /\ cut'[v] => at[v] = Readable(job[v]) /\ at[v] # Len(Texts[job[v]])
      BY <1>1, <1>5 DEF ScanInv, AtEnd
    <3>1. CASE v = w
      BY <1>3, <2>1, <2>2, <3>1
    <3>2. CASE v # w
      BY <1>1, <2>2, <3>2 DEF GrepInv, ScanInv, AtEnd, Reading
    <3> QED
      BY <3>1, <3>2
  <2>4. GrepTypeOK' /\ TrueMatches'
    BY <1>1, <1>5, <2>2 DEF GrepInv, GrepTypeOK, TrueMatches
  <2>5. LiveInv'
    BY <1>1 DEF GrepInv, LiveInv, OnePlace, AddedUp, DocsDone, Busy, Reading
  <2> QED
    BY <1>1, <2>3, <2>4, <2>5 DEF GrepInv
<1>6. CASE Line(w) # "long"
  <2> DEFINE h == Widened(w) \cup NewMatch(w)
  <2>1. n + 1 <= Readable(d) /\ Texts[d][n + 1] # "long"
    <3>1. Texts[d][n + 1] # "long"
      BY <1>6 DEF Line
    <3> HIDE DEF d, n
    <3>2. n # Readable(d)
      BY <1>3, <1>4, <3>1
    <3> QED
      BY <1>4, <3>1, <3>2
  <2>2. /\ n + 1 \in Reported(d) <=> Texts[d][n + 1] = "hit" /\ BelowCap(d, n)
        /\ Partly(d, n + 1) =
              {Wider(m) : m \in Partly(d, n)}
                \cup (IF n + 1 \in Reported(d)
                        THEN {[doc |-> d, line |-> n + 1, before |-> Min({n, CtxBefore}), after |-> 0]}
                        ELSE {})
        /\ BelowCap(d, n + 1) => Upto(d, n + 1) = Seen(d, n + 1)
        /\ PerFile > 0 => Cardinality(Upto(d, n + 1)) <= PerFile
    <3> HIDE DEF d, n
    <3> QED
      BY <1>2, <1>3, <2>1, PartlyMore DEF OnTrack
  <2>3. h = Partly(d, n + 1)
    <3>1. AtCap(w) <=> ~BelowCap(d, n)
      <4>1. Cardinality(hits[w]) = Cardinality(Upto(d, n)) /\ Cardinality(Upto(d, n)) \in Nat
        <5> HIDE DEF d, n
        <5> QED
          BY <1>2, <1>3, PartlyCount, LineSets
      <4> QED
        BY <4>1, FindMatchesAssumption DEF AtCap, BelowCap
    <3>2. Widened(w) = {Wider(m) : m \in Partly(d, n)}
      BY <1>3 DEF Widened, Wider
    <3>3. NewMatch(w) = IF Texts[d][n + 1] = "hit" /\ BelowCap(d, n)
                        THEN {[doc |-> d, line |-> n + 1, before |-> Min({n, CtxBefore}), after |-> 0]}
                        ELSE {}
      BY <3>1 DEF NewMatch, Line
    <3> HIDE DEF d, n
    <3> QED
      BY <2>2, <3>2, <3>3
  <2>4. OnTrack(d, n + 1)
    <3> HIDE DEF d, n
    <3> QED
      BY <1>4, <2>1, <2>2 DEF OnTrack
  <2>5. Partly(d, n + 1) \subseteq Found
    <3> HIDE DEF d, n
    <3> QED
      BY <1>2, <2>4, PartlyTrue DEF OnTrack
  <2> HIDE DEF h
  <2>6. /\ hits' \in [Scanners -> SUBSET Found] /\ at' \in [Scanners -> Nat]
        /\ hits'[w] = Partly(d, n + 1) /\ at'[w] = n + 1
        /\ \A v \in Scanners \ {w} : hits'[v] = hits[v] /\ at'[v] = at[v]
    <3>1. hits' = [hits EXCEPT ![w] = h] /\ at' = [at EXCEPT ![w] = n + 1]
      BY <1>1, <1>6 DEF h
    <3>2. h \in SUBSET Found /\ n + 1 \in Nat
      BY <1>2, <2>3, <2>5
    <3> HIDE DEF n, d
    <3> QED
      BY <1>2, <2>3, <3>1, <3>2
  <2>7. ScanInv'
    <3> SUFFICES ASSUME NEW v \in Scanners, Reading(v)'
                 PROVE  /\ OnTrack(job[v], at'[v]) /\ hits'[v] = Partly(job[v], at'[v])
                        /\ cut[v] => at'[v] = Readable(job[v]) /\ at'[v] # Len(Texts[job[v]])
      BY <1>1, <1>6 DEF ScanInv, AtEnd
    <3>1. CASE v = w
      BY <1>1, <2>4, <2>6, <3>1
    <3>2. CASE v # w
      BY <1>1, <2>6, <3>2 DEF GrepInv, ScanInv, AtEnd, Reading
    <3> QED
      BY <3>1, <3>2
  <2>8. GrepTypeOK'
    BY <1>1, <1>6, <2>6 DEF GrepInv, GrepTypeOK
  <2>10. TrueMatches'
    BY <1>1 DEF GrepInv, TrueMatches
  <2>9. LiveInv'
    BY <1>1 DEF GrepInv, LiveInv, OnePlace, AddedUp, DocsDone, Busy, Reading
  <2> QED
    BY <1>1, <2>7, <2>8, <2>9, <2>10 DEF GrepInv
<1> QED
  BY <1>5, <1>6

(* A scan that ends while nobody has cancelled is complete.                *)
LEMMA EndedWhole ==
  ASSUME GrepInv, NEW w \in Scanners, Reading(w), AtEnd(w) \/ cut[w] \/ Enough(w)
  PROVE  /\ hits[w] = Expected(job[w])
         /\ Hides(job[w]) => cut[w] \/ Cardinality(Reported(job[w])) = PerFile
<1> DEFINE d == job[w]
           n == at[w]
<1>1. /\ d \in Docs /\ n \in 0 .. Readable(d) /\ hits[w] = Partly(d, n)
      /\ PerFile > 0 => Cardinality(Upto(d, n)) <= PerFile
  BY DEF GrepInv, GrepTypeOK, ScanInv, OnTrack, Reading
<1>2. /\ Len(Texts[d]) \in Nat /\ Readable(d) \in 0 .. Len(Texts[d]) /\ DOMAIN Texts[d] = 1 .. Len(Texts[d])
      /\ PerFile \in Nat /\ n \in Nat
  BY <1>1, ReadableLines, FindMatchesAssumption
<1>3. CASE AtEnd(w)
  <2>1. n = Len(Texts[d])
    BY <1>3 DEF AtEnd
  <2> HIDE DEF d, n
  <2>2. n = Readable(d) /\ ~Hides(d)
    BY <1>1, <1>2, <2>1 DEF Hides
  <2>3. hits[w] = Expected(d)
    BY <1>1, <2>2, PartlyAll
  <2> QED
    BY <2>2, <2>3 DEF d
<1>4. CASE cut[w]
  <2>1. n = Readable(d)
    BY <1>4 DEF GrepInv, ScanInv
  <2> QED
    BY <1>1, <1>4, <2>1, PartlyAll
<1>5. CASE Enough(w)
  <2>1. Pending(Partly(d, n)) = {} /\ PerFile > 0 /\ Cardinality(Partly(d, n)) >= PerFile
    BY <1>1, <1>5 DEF Enough, AtCap
  <2> HIDE DEF d, n
  <2>2. Cardinality(Partly(d, n)) = Cardinality(Upto(d, n)) /\ Cardinality(Upto(d, n)) \in Nat
    BY <1>1, <1>2, PartlyCount, LineSets
  <2>3. ~BelowCap(d, n) /\ Cardinality(Upto(d, n)) = PerFile
    BY <1>1, <1>2, <2>1, <2>2 DEF BelowCap
  <2>4. Partly(d, n) = Expected(d) /\ Upto(d, n) = Reported(d)
    BY <1>1, <2>1, <2>3, PartlyEnough
  <2>5. hits[w] = Expected(d) /\ Cardinality(Reported(d)) = PerFile
    BY <1>1, <2>3, <2>4
  <2> QED
    BY <2>5 DEF d
<1> QED
  BY <1>3, <1>4, <1>5

LEMMA DeliverKeeps == ASSUME GrepInv, NEW w \in Scanners, Deliver(w) PROVE GrepInv'
<1> DEFINE d == job[w]
<1>1. /\ Reading(w) /\ (AtEnd(w) \/ cut[w] \/ Enough(w) \/ Interrupted(w))
      /\ scanned' = scanned + 1 /\ matches' = matches \cup hits[w]
      /\ withHits' = IF hits[w] # {} THEN withHits + 1 ELSE withHits
      /\ overlong' = IF cut[w] THEN overlong \cup {d} ELSE overlong
      /\ job' = [job EXCEPT ![w] = "idle"]
      /\ UNCHANGED <<grepCtx, stage, feed, queue, at, hits, cut, cancelled>>
  BY DEF Deliver, scanVars
<1>2. /\ job \in [Scanners -> Docs \cup {"idle", "left"}] /\ d \in Docs /\ at[w] \in 0 .. Readable(d)
      /\ hits[w] = Partly(d, at[w]) /\ hits[w] \subseteq Found
      /\ job' \in [Scanners -> Docs \cup {"idle", "left"}]
      /\ job'[w] = "idle" /\ \A v \in Scanners \ {w} : job'[v] = job[v]
  BY <1>1 DEF GrepInv, GrepTypeOK, ScanInv, OnTrack, Reading
<1>3. GrepTypeOK'
  <2>1. scanned \in Nat /\ withHits \in 0 .. scanned
    BY DEF GrepInv, GrepTypeOK
  <2>2. scanned' \in Nat /\ withHits' \in 0 .. scanned'
    BY <1>1, <2>1
  <2>3. overlong' \subseteq Docs /\ matches' \subseteq Found
    BY <1>1, <1>2 DEF GrepInv, GrepTypeOK
  <2> QED
    BY <1>1, <1>2, <2>2, <2>3 DEF GrepInv, GrepTypeOK
<1>4. \A v \in Scanners : Reading(v)' <=> Reading(v) /\ v # w
  BY <1>1, <1>2 DEF Reading
<1>5. ScanInv'
  BY <1>1, <1>2, <1>4, ScansStay DEF GrepInv, scanVars
<1>6. TrueMatches'
  <2> SUFFICES ASSUME NEW m \in matches'
               PROVE  \E e \in Expected(m.doc) : SameLine(m, e) /\ m.after <= e.after
    BY DEF TrueMatches
  <2>1. CASE m \in matches
    BY <2>1 DEF GrepInv, TrueMatches
  <2>2. CASE m \in Partly(d, at[w])
    <3>1. m.doc = d /\ \E e \in Expected(d) : SameLine(m, e) /\ m.after <= e.after
      <4> HIDE DEF d
      <4> QED
        BY <1>2, <2>2, PartlyTrue
    <3> QED
      BY <3>1
  <2> QED
    BY <1>1, <1>2, <2>1, <2>2
<1>7. LiveInv'
  <2> SUFFICES ASSUME grepCtx = "live" PROVE LiveInv'
    BY <1>1 DEF LiveInv
  <2>1. stage # "walking" /\ OnePlace /\ AddedUp
    BY <1>1 DEF GrepInv, LiveInv, Reading
  <2>2. /\ hits[w] = Expected(d)
        /\ Hides(d) => cut[w] \/ Cardinality(Reported(d)) = PerFile
    BY <1>1, EndedWhole DEF Interrupted
  <2>3. Busy' = Busy \ {d} /\ d \in Busy
    <3>1. \A v \in Scanners : Reading(v) /\ v # w => job[v] # d
      BY <1>1, <2>1 DEF OnePlace
    <3> QED
      BY <1>1, <1>2, <1>4, <3>1 DEF Busy
  <2>4. DocsDone' = DocsDone \cup {d} /\ d \notin DocsDone
    BY <1>1, <1>2, <2>1, <2>3 DEF DocsDone, OnePlace
  <2>5. OnePlace'
    <3>1. ASSUME NEW u \in Scanners, NEW v \in Scanners, Reading(v)', job'[u] = job'[v] PROVE u = v
      BY <1>2, <1>4, <2>1, <3>1 DEF OnePlace, Reading
    <3> QED
      BY <1>1, <2>1, <2>3, <3>1 DEF OnePlace
  <2>6. IsFiniteSet(DocsDone)
    BY FindMatchesAssumption, FS_Subset DEF DocsDone
  <2> HIDE DEF d
  <2>7. matches' = UNION {Expected(x) : x \in DocsDone'}
    BY <1>1, <2>1, <2>2, <2>4 DEF AddedUp
  <2>8. scanned' = Cardinality(DocsDone')
    BY <1>1, <2>1, <2>4, <2>6, FS_AddElement DEF AddedUp
  <2>9. withHits' = Cardinality({x \in DocsDone' : Expected(x) # {}})
    <3> DEFINE H == {x \in DocsDone : Expected(x) # {}}
    <3>1. IsFiniteSet(H) /\ d \notin H /\ withHits = Cardinality(H)
      BY <2>1, <2>4, <2>6, FS_Subset DEF AddedUp
    <3>2. {x \in DocsDone' : Expected(x) # {}} = IF Expected(d) # {} THEN H \cup {d} ELSE H
      BY <2>4
    <3> HIDE DEF H
    <3>3. Cardinality(H \cup {d}) = Cardinality(H) + 1
      BY <3>1, FS_AddElement
    <3> QED
      BY <1>1, <2>2, <3>1, <3>2, <3>3
  <2>10. \A x \in DocsDone' : Hides(x) => x \in overlong' \/ Cardinality(Reported(x)) = PerFile
    BY <1>1, <2>1, <2>2, <2>4 DEF AddedUp, d
  <2>11. AddedUp'
    BY <2>7, <2>8, <2>9, <2>10 DEF AddedUp
  <2>12. /\ stage' \in {"closed", "returned"} => feed' = {}
         /\ \A v \in Scanners : job'[v] = "left" => queue' = <<>> /\ stage' \in {"closed", "returned"}
    BY <1>1, <1>2 DEF GrepInv, LiveInv
  <2> QED
    BY <1>1, <2>1, <2>5, <2>11, <2>12 DEF LiveInv
<1>8. stage' # "returned"
  BY <1>1 DEF GrepInv, Reading
<1> QED
  BY <1>1, <1>3, <1>5, <1>6, <1>7, <1>8 DEF GrepInv

LEMMA ReturnKeeps == GrepInv /\ GrepReturn => GrepInv'
<1> SUFFICES ASSUME GrepInv, GrepReturn PROVE GrepInv'
  OBVIOUS
<1>1. /\ stage = "closed" /\ \A w \in Scanners : job[w] = "left"
      /\ stage' = "returned" /\ cancelled' = (grepCtx = "done")
      /\ UNCHANGED <<grepCtx, feed, queue, job, at, hits, cut, matches, scanned, withHits, overlong>>
  BY DEF GrepReturn, scanVars, totalVars
<1>2. ScanInv'
  BY <1>1, ScansStay DEF GrepInv, Reading, scanVars
<1>3. GrepTypeOK' /\ TrueMatches' /\ (cancelled' \/ grepCtx' = "live")
  <2>1. cancelled' \in BOOLEAN /\ (cancelled' \/ grepCtx' = "live")
    BY <1>1 DEF GrepInv, GrepTypeOK
  <2>2. TrueMatches'
    BY <1>1 DEF GrepInv, TrueMatches
  <2> QED
    BY <1>1, <2>1, <2>2 DEF GrepInv, GrepTypeOK
<1>4. (OnePlace /\ AddedUp) => (OnePlace /\ AddedUp)'
  BY <1>1 DEF OnePlace, AddedUp, DocsDone, Busy, Reading
<1>5. LiveInv'
  BY <1>1, <1>4 DEF GrepInv, LiveInv
<1> QED
  BY <1>1, <1>2, <1>3, <1>5 DEF GrepInv

LEMMA GrepStepInv == GrepInv /\ [GrepNext]_grepVars => GrepInv'
<1> SUFFICES ASSUME GrepInv, [GrepNext]_grepVars PROVE GrepInv'
  OBVIOUS
<1>1. CASE GrepNext
  BY <1>1, CancelKeeps, WalkDoneKeeps, FeedKeeps, CloseFeedKeeps, TakeKeeps, LeaveKeeps, ReadKeeps,
     DeliverKeeps, ReturnKeeps DEF GrepNext, FeedStep, MatchStep
<1>2. CASE UNCHANGED grepVars
  <2>1. UNCHANGED <<grepCtx, stage, feed, queue, job, at, hits, cut, matches, scanned, withHits, overlong, cancelled>>
    BY <1>2 DEF grepVars
  <2>2. ScanInv' /\ TrueMatches'
    BY <2>1, ScansStay DEF GrepInv, Reading, scanVars, TrueMatches
  <2>3. LiveInv'
    BY <2>1 DEF GrepInv, LiveInv, OnePlace, AddedUp, DocsDone, Busy, Reading
  <2>4. GrepTypeOK'
    BY <2>1 DEF GrepInv, GrepTypeOK
  <2> QED
    BY <2>1, <2>2, <2>3, <2>4 DEF GrepInv
<1> QED
  BY <1>1, <1>2

(* What the code does of a whole scan, past a line over the cap included.  *)
ScansWhole ==
  /\ matches = UNION {Expected(d) : d \in Docs}
  /\ scanned = Cardinality(Docs)
  /\ withHits = Cardinality({d \in Docs : Expected(d) # {}})
  /\ \A d \in Docs :
       (\E i \in DOMAIN Texts[d] : i > Readable(d) /\ Texts[d][i] = "hit")
         => d \in overlong \/ Cardinality(Reported(d)) = PerFile

LEMMA ReturnedWhole == ASSUME GrepInv, stage = "returned", ~cancelled PROVE ScansWhole
<1>1. grepCtx = "live" /\ \A w \in Scanners : job[w] = "left"
  BY DEF GrepInv
<1>2. AddedUp /\ feed = {} /\ queue = <<>>
  BY <1>1, FindMatchesAssumption DEF GrepInv, LiveInv
<1>3. DocsDone = Docs
  BY <1>1, <1>2, RangeEmpty DEF DocsDone, Busy, Reading
<1> QED
  BY <1>2, <1>3 DEF AddedUp, Hides, ScansWhole

(* Any files, any number of workers, cancelled at any point: what a grep   *)
(* reports is true, and all there is when nobody cancelled, as far as the  *)
(* lines before one that is too long go.                                   *)
THEOREM GrepExact == GrepSpec => [](GrepTypeOK /\ MatchesExact)
<1>1. GrepInv => MatchesExact
  <2> SUFFICES ASSUME GrepInv PROVE MatchesExact
    OBVIOUS
  <2>1. \A m \in matches : \E e \in Expected(m.doc) : SameLine(m, e) /\ m.after <= e.after
    BY DEF GrepInv, TrueMatches
  <2>2. \A m \in matches : \E e \in Expected(m.doc) : Agrees(m, e)
    BY <2>1 DEF Agrees
  <2>3. ASSUME stage = "returned", ~cancelled
        PROVE  /\ \A d \in Docs : \A e \in Expected(d) : \E m \in matches : InFull(m, e)
               /\ scanned = Cardinality(Docs)
               /\ withHits = Cardinality({d \in Docs : \E m \in matches : m.doc = d})
               /\ \A d \in Docs : \A i \in DOMAIN Texts[d] :
                    i > Readable(d) /\ Texts[d][i] = "hit"
                      => \/ \E m \in matches : m.doc = d /\ m.line = i
                         \/ d \in overlong
                         \/ Cardinality(Reported(d)) = PerFile
    <3>1. ScansWhole
      BY <2>3, ReturnedWhole
    <3>2. \A d \in Docs : \A e \in Expected(d) : e.doc = d /\ e.after <= e.after
      <4> SUFFICES ASSUME NEW d \in Docs, NEW e \in Expected(d) PROVE e.doc = d /\ e.after <= e.after
        OBVIOUS
      <4>1. e \in matches
        BY <3>1 DEF ScansWhole
      <4>2. e \in Found
        BY <4>1 DEF GrepInv, GrepTypeOK
      <4>3. e.doc = d
        <5>1. PICK i \in Reported(d) :
                e = [doc |-> d, line |-> i, before |-> Min({i - 1, CtxBefore}),
                     after |-> Min({Readable(d) - i, CtxAfter})]
          BY DEF Expected
        <5> QED
          BY <5>1
      <4>4. e.after \in 0 .. CtxAfter
        BY <4>2 DEF Found
      <4> QED
        BY <4>3, <4>4, FindMatchesAssumption
    <3>3. \A d \in Docs : \A e \in Expected(d) : e \in matches /\ InFull(e, e)
      BY <3>1, <3>2 DEF ScansWhole, InFull, Agrees, SameLine
    <3>4. {d \in Docs : \E m \in matches : m.doc = d} = {d \in Docs : Expected(d) # {}}
      BY <3>1, <3>2 DEF ScansWhole
    <3> QED
      BY <3>1, <3>3, <3>4 DEF ScansWhole
  <2> QED
    BY <2>2, <2>3 DEF MatchesExact
<1>2. GrepInv => GrepTypeOK
  BY DEF GrepInv
<1> QED
  BY <1>1, <1>2, GrepInitInv, GrepStepInv, PTL DEF GrepSpec

-----------------------------------------------------------------------------
(* Moving what a search found.                                             *)
OrganizeTypes ==
  /\ fs = [p \in Places |-> fs[p]]
  /\ \A o \in Originals : before[o] = File(o)
  /\ policy \in {"skip", "overwrite", "number"}
  /\ template \in [Originals -> Places] /\ madeAt \in [Originals -> Places]
  /\ outcome \in [Originals -> {"todo", "created", "skipped", "failed"}]

(* What a result reported as created leaves at its place.                  *)
Made(o) == IF copying THEN File(o) ELSE LinkTo(o)

(* What is on the disk was there before or is due to a result that has     *)
(* been dealt with, and what was there is still there.                     *)
NothingTouched == \A p \in Places : before[p] # Nothing => fs[p] = before[p]
Accounted ==
  \A p \in Places : fs[p] # Nothing /\ before[p] = Nothing =>
    \E q \in Originals : outcome[q] \in {"created", "failed"} /\ madeAt[q] = p
CreatedThere ==
  ~dryRun => \A o \in Originals : outcome[o] = "created" => fs[madeAt[o]] = Made(o)

OrganizeInv ==
  /\ OrganizeTypes
  /\ dryRun => fs = before
  /\ policy = "overwrite" => \A p \in Places : p \notin Range(template) => fs[p] = before[p]
  /\ policy # "overwrite" /\ ~(copying /\ RanOut) =>
       NothingTouched /\ Accounted /\ CreatedThere

LEMMA FileIsThere == \A t : File(t) # Nothing /\ LinkTo(t) # Nothing
<1> TAKE t
<1>1. File(t).kind = "file" /\ LinkTo(t).kind = "link" /\ Nothing.kind = "nothing"
  BY DEF File, LinkTo, Nothing
<1> QED
  BY <1>1

LEMMA TargetIs ==
  ASSUME OrganizeTypes, NEW o \in Originals
  PROVE  /\ FinalTarget(o) \in Places
         /\ policy # "number" => FinalTarget(o) = template[o]
         /\ policy = "number" /\ fs[FinalTarget(o)] # Nothing => FinalTarget(o) = template[o]
<1>1. template[o] \in Places
  BY DEF OrganizeTypes
<1>2. CASE FreeVariants(template[o]) = {}
  BY <1>1, <1>2 DEF FinalTarget, NumberedPath
<1>3. CASE FreeVariants(template[o]) # {}
  <2> DEFINE i == Min(FreeVariants(template[o]))
  <2>1. Variants[template[o]] \in Seq(Places)
    BY <1>1, OrganizeAssumption
  <2>2. FreeVariants(template[o]) \in SUBSET Nat
    BY <2>1 DEF FreeVariants
  <2>3. i \in FreeVariants(template[o])
    BY <1>3, <2>2, LeastNat
  <2> HIDE DEF i
  <2>4. Variants[template[o]][i] \in Places /\ fs[Variants[template[o]][i]] = Nothing
    BY <2>1, <2>3 DEF FreeVariants, Exists
  <2>5. NumberedPath(template[o]) = Variants[template[o]][i]
    BY <1>3 DEF NumberedPath, i
  <2> QED
    BY <1>1, <2>4, <2>5 DEF FinalTarget, Exists
<1> QED
  BY <1>2, <1>3

(* One result, and what is told of it.                                     *)
Dealt(o) ==
  /\ outcome[o] = "todo"
  /\ \E how \in {"created", "skipped", "failed"} : outcome' = [outcome EXCEPT ![o] = how]
  /\ \/ madeAt' = madeAt /\ outcome'[o] = "skipped" /\ fs' = fs /\ Skips(o)
     \/ /\ madeAt' = [madeAt EXCEPT ![o] = FinalTarget(o)] /\ ~Skips(o)
        /\ outcome'[o] \in {"created", "failed"}
  /\ UNCHANGED organizeFlags

LEMMA StepDeals ==
  ASSUME OrganizeTypes, NEW o \in Originals,
         SkipExisting(o) \/ Plan(o) \/ CopyTo(o) \/ Link(o) \/ DiskFails(o)
  PROVE  Dealt(o)
<1>1. outcome \in [Originals -> {"todo", "created", "skipped", "failed"}]
  BY DEF OrganizeTypes
<1>2. CASE SkipExisting(o)
  BY <1>1, <1>2 DEF SkipExisting, Dealt, MarkAs, organizeFlags
<1>3. CASE Plan(o)
  BY <1>1, <1>3 DEF Plan, Dealt, MarkAs, Give, organizeFlags
<1>4. CASE CopyTo(o)
  BY <1>1, <1>4 DEF CopyTo, Dealt, MarkAs, Give, organizeFlags
<1>5. CASE Link(o)
  BY <1>1, <1>5 DEF Link, Dealt, MarkAs, Give, organizeFlags
<1>6. CASE DiskFails(o)
  BY <1>1, <1>6 DEF DiskFails, Dealt, MarkAs, Give, organizeFlags
<1> QED
  BY <1>2, <1>3, <1>4, <1>5, <1>6

(* With "overwrite" only the template's place is touched.                  *)
LEMMA OverwriteStays ==
  ASSUME OrganizeTypes, NEW o \in Originals, policy = "overwrite", 
         SkipExisting(o) \/ Plan(o) \/ CopyTo(o) \/ Link(o) \/ DiskFails(o)
  PROVE  \A p \in Places : p # template[o] => fs'[p] = fs[p]
<1>1. FinalTarget(o) = template[o] /\ template[o] \in Places
  BY TargetIs DEF OrganizeTypes
<1> DEFINE disk == Cleared(o)
<1>2. /\ disk[template[o]] = Nothing /\ disk = [p \in Places |-> disk[p]]
      /\ \A p \in Places : p # template[o] => disk[p] = fs[p]
  BY <1>1 DEF Cleared, OrganizeTypes, Exists
<1>3. WriteAt(disk, template[o]) = template[o]
  BY <1>2 DEF WriteAt, Nothing
<1> HIDE DEF disk
<1>4. CASE SkipExisting(o)
  BY <1>4 DEF SkipExisting
<1>5. CASE Plan(o)
  BY <1>5 DEF Plan
<1>6. CASE CopyTo(o)
  BY <1>1, <1>2, <1>3, <1>6 DEF CopyTo, Copied, disk
<1>7. CASE Link(o)
  BY <1>1, <1>2, <1>7 DEF Link, disk
<1>8. CASE DiskFails(o)
  BY <1>1, <1>2, <1>3, <1>8 DEF DiskFails, disk
<1> QED
  BY <1>4, <1>5, <1>6, <1>7, <1>8

(* Otherwise only a free place is, but for a copy that ran out of numbers. *)
Filled(o, x) ==
  /\ fs[FinalTarget(o)] = Nothing /\ fs' = [fs EXCEPT ![FinalTarget(o)] = x]
  /\ outcome'[o] \in {"created", "failed"}
  /\ outcome'[o] = "created" => x = Made(o)

LEMMA OnlyFreePlaces ==
  ASSUME OrganizeTypes, NothingTouched, NEW o \in Originals, policy # "overwrite",
         copying => fs[FinalTarget(o)] = Nothing, ~Skips(o),
         SkipExisting(o) \/ Plan(o) \/ CopyTo(o) \/ Link(o) \/ DiskFails(o)
  PROVE  \/ fs' = fs /\ (outcome'[o] = "created" => dryRun)
         \/ \E x : Filled(o, x)
<1>1. Cleared(o) = fs
  BY DEF Cleared
<1>2. fs[o] = File(o) /\ fs[o] # Nothing
  <2>1. File(o) # Nothing
    BY FileIsThere
  <2> QED
    BY <2>1, OrganizeAssumption DEF NothingTouched, OrganizeTypes
<1>3. FinalTarget(o) \in Places /\ outcome \in [Originals -> {"todo", "created", "skipped", "failed"}]
  BY TargetIs DEF OrganizeTypes
<1>4. CASE SkipExisting(o)
  BY <1>4 DEF SkipExisting
<1>5. CASE Plan(o)
  BY <1>5 DEF Plan
<1>6. CASE CopyTo(o)
  <2>1. fs' = Copied(fs, o, FinalTarget(o)) /\ outcome' = [outcome EXCEPT ![o] = "created"]
    BY <1>1, <1>2, <1>6 DEF CopyTo, MarkAs
  <2>2. fs[FinalTarget(o)] = Nothing /\ FinalTarget(o) # o
    BY <1>2, <1>6 DEF CopyTo
  <2>3. WriteAt(fs, FinalTarget(o)) = FinalTarget(o)
    BY <2>2 DEF WriteAt, Nothing
  <2>4. fs' = [fs EXCEPT ![FinalTarget(o)] = File(fs[o].text)]
    BY <2>1, <2>2, <2>3 DEF Copied
  <2>5. File(fs[o].text) = Made(o)
    BY <1>2, <1>6 DEF File, Made, CopyTo
  <2> QED
    BY <1>3, <2>1, <2>2, <2>4, <2>5 DEF Filled
<1>7. CASE Link(o)
  <2>1. CASE fs[FinalTarget(o)] # Nothing
    BY <1>1, <1>3, <1>7, <2>1 DEF Link, MarkAs
  <2>2. CASE fs[FinalTarget(o)] = Nothing
    BY <1>1, <1>3, <1>7, <2>2 DEF Link, MarkAs, Filled, Made
  <2> QED
    BY <2>1, <2>2
<1>8. CASE DiskFails(o)
  <2>1. outcome' = [outcome EXCEPT ![o] = "failed"]
    BY <1>8 DEF DiskFails, MarkAs
  <2>2. CASE fs' = fs
    BY <1>3, <2>1, <2>2
  <2>3. CASE fs' # fs
    <3>1. copying /\ fs' = [fs EXCEPT ![WriteAt(fs, FinalTarget(o))] = File(Scrap)]
      BY <1>1, <1>8, <2>3 DEF DiskFails
    <3>2. WriteAt(fs, FinalTarget(o)) = FinalTarget(o)
      BY <3>1 DEF WriteAt, Nothing
    <3> QED
      BY <1>3, <2>1, <3>1, <3>2 DEF Filled
  <2> QED
    BY <2>2, <2>3
<1> QED
  BY <1>4, <1>5, <1>6, <1>7, <1>8

LEMMA OrganizeInitInv == OrganizeInit => OrganizeInv
<1> SUFFICES ASSUME OrganizeInit PROVE OrganizeInv
  OBVIOUS
<1>1. PICK disk \in Disks, rule \in {"skip", "overwrite", "number"}, copies \in BOOLEAN,
          dry \in BOOLEAN, to \in Templates : OrganizeStart(disk, rule, copies, dry, to)
  BY DEF OrganizeInit
<1>2. /\ fs = disk /\ before = disk /\ policy = rule /\ template = to
      /\ outcome = [o \in Originals |-> "todo"] /\ madeAt = [o \in Originals |-> template[o]]
  BY <1>1 DEF OrganizeStart
<1>3. PICK d : disk = [p \in Places |-> IF p \in Originals THEN File(p) ELSE d[p]]
  BY <1>1 DEF Disks
<1>4. template \in [Originals -> Places]
  BY <1>2, OrganizeAssumption
<1>5. OrganizeTypes
  BY <1>2, <1>3, <1>4, OrganizeAssumption DEF OrganizeTypes
<1> QED
  BY <1>2, <1>5 DEF OrganizeInv, NothingTouched, Accounted, CreatedThere

(* Running out is for good.                                                *)
LEMMA OutForGood ==
  ASSUME OrganizeTypes, NEW o \in Originals, Dealt(o), RanOut
  PROVE  RanOut'
<1>1. PICK x \in Originals :
         /\ outcome[x] \in {"created", "failed"} /\ madeAt[x] = template[x]
         /\ \/ before[template[x]] # Nothing
            \/ \E q \in Originals \ {x} :
                 outcome[q] \in {"created", "failed"} /\ madeAt[q] = template[x]
  BY DEF RanOut
<1>2. \A q \in Originals : outcome[q] \in {"created", "failed"} =>
        outcome'[q] = outcome[q] /\ madeAt'[q] = madeAt[q]
  BY DEF Dealt, OrganizeTypes
<1>3. policy' = policy /\ template' = template /\ before' = before /\ policy = "number"
  BY DEF Dealt, RanOut, organizeFlags
<1>4. /\ outcome'[x] \in {"created", "failed"} /\ madeAt'[x] = template'[x]
      /\ \/ before'[template'[x]] # Nothing
         \/ \E q \in Originals \ {x} :
              outcome'[q] \in {"created", "failed"} /\ madeAt'[q] = template'[x]
  BY <1>1, <1>2, <1>3
<1> QED
  BY <1>3, <1>4 DEF RanOut

(* A result that is not skipped and finds its place taken has run out.     *)
LEMMA TakenIsOut ==
  ASSUME OrganizeTypes, Accounted, NEW o \in Originals, Dealt(o), policy # "overwrite",
         ~Skips(o), fs[FinalTarget(o)] # Nothing
  PROVE  RanOut'
<1>1. policy = "number" /\ FinalTarget(o) = template[o] /\ template[o] \in Places
  BY TargetIs DEF Skips, Exists, OrganizeTypes
<1>2. /\ outcome'[o] \in {"created", "failed"} /\ madeAt'[o] = template[o] /\ outcome[o] = "todo"
      /\ policy' = policy /\ template' = template /\ before' = before
  BY <1>1 DEF Dealt, OrganizeTypes, Skips, organizeFlags
<1>3. CASE before[template[o]] # Nothing
  BY <1>1, <1>2, <1>3 DEF RanOut
<1>4. CASE before[template[o]] = Nothing
  <2>1. PICK q \in Originals : outcome[q] \in {"created", "failed"} /\ madeAt[q] = template[o]
    BY <1>1, <1>4 DEF Accounted
  <2>2. q # o /\ outcome'[q] = outcome[q] /\ madeAt'[q] = madeAt[q]
    BY <1>2, <2>1 DEF Dealt, OrganizeTypes
  <2> QED
    BY <1>1, <1>2, <2>1, <2>2 DEF RanOut
<1> QED
  BY <1>3, <1>4

LEMMA OrganizeStepInv == OrganizeInv /\ [OrganizeNext]_organizeVars => OrganizeInv'
<1> SUFFICES ASSUME OrganizeInv, [OrganizeNext]_organizeVars PROVE OrganizeInv'
  OBVIOUS
<1>1. CASE UNCHANGED organizeVars
  BY <1>1 DEF organizeVars, OrganizeInv, OrganizeTypes, NothingTouched, Accounted, CreatedThere,
     RanOut, Made
<1>2. CASE OrganizeNext
  <2>1. PICK o \in Originals :
          SkipExisting(o) \/ Plan(o) \/ CopyTo(o) \/ Link(o) \/ DiskFails(o)
    BY <1>2 DEF OrganizeNext
  <2>2. OrganizeTypes
    BY DEF OrganizeInv
  <2>3. Dealt(o)
    BY <2>1, <2>2, StepDeals
  <2>4. FinalTarget(o) \in Places
    BY <2>2, TargetIs
  <2>5. OrganizeTypes'
    <3>1. fs' = [p \in Places |-> fs'[p]]
      BY <2>1, <2>2 DEF OrganizeTypes, SkipExisting, Plan, CopyTo, Link, DiskFails, Cleared, Copied
    <3> QED
      BY <2>2, <2>3, <2>4, <3>1 DEF OrganizeTypes, Dealt, organizeFlags
  <2>6. (dryRun => fs = before)'
    BY <2>1 DEF OrganizeInv, SkipExisting, Plan, CopyTo, Link, DiskFails, organizeFlags
  <2>7. (policy = "overwrite" => \A p \in Places : p \notin Range(template) => fs[p] = before[p])'
    <3>1. template[o] \in Range(template)
      BY <2>2 DEF OrganizeTypes, Range
    <3> QED
      BY <2>1, <2>2, <2>3, <3>1, OverwriteStays DEF OrganizeInv, Dealt, organizeFlags
  <2>8. ASSUME policy' # "overwrite", ~ (copying' /\ RanOut')
        PROVE  (NothingTouched /\ Accounted /\ CreatedThere)'
    <3>1. policy # "overwrite" /\ ~ (copying /\ RanOut)
      BY <2>2, <2>3, <2>8, OutForGood DEF Dealt, organizeFlags
    <3>2. NothingTouched /\ Accounted /\ CreatedThere
      BY <3>1 DEF OrganizeInv
    <3>3. UNCHANGED organizeFlags /\ outcome[o] = "todo"
      BY <2>3 DEF Dealt
    <3>4. \A q \in Originals : q # o => outcome'[q] = outcome[q] /\ madeAt'[q] = madeAt[q]
      BY <2>2, <2>3 DEF Dealt, OrganizeTypes
    <3>5. CASE Skips(o)
      <4>1. fs' = fs /\ outcome'[o] = "skipped"
        BY <2>3, <3>5 DEF Dealt
      <4> QED
        BY <3>2, <3>3, <3>4, <4>1 DEF NothingTouched, Accounted, CreatedThere, Made, organizeFlags
    <3>6. CASE ~Skips(o)
      <4>1. copying => fs[FinalTarget(o)] = Nothing
        BY <2>2, <2>3, <2>8, <3>1, <3>2, <3>3, <3>6, TakenIsOut DEF organizeFlags
      <4>2. \/ fs' = fs /\ (outcome'[o] = "created" => dryRun)
            \/ \E x : Filled(o, x)
        BY <2>1, <2>2, <3>1, <3>2, <3>6, <4>1, OnlyFreePlaces
      <4>3. madeAt'[o] = FinalTarget(o)
        BY <2>2, <2>3, <3>6 DEF Dealt, OrganizeTypes
      <4>4. CASE fs' = fs /\ (outcome'[o] = "created" => dryRun)
        BY <3>2, <3>3, <3>4, <4>4 DEF NothingTouched, Accounted, CreatedThere, Made, organizeFlags
      <4>5. ASSUME NEW x, Filled(o, x) PROVE (NothingTouched /\ Accounted /\ CreatedThere)'
        <5>1. /\ \A p \in Places : p # FinalTarget(o) => fs'[p] = fs[p]
              /\ fs'[FinalTarget(o)] = x /\ fs[FinalTarget(o)] = Nothing
          BY <2>2, <2>4, <4>5 DEF Filled, OrganizeTypes
        <5>2. NothingTouched'
          BY <3>2, <3>3, <5>1 DEF NothingTouched, organizeFlags
        <5>3. ASSUME NEW p \in Places, fs'[p] # Nothing, before[p] = Nothing
              PROVE  \E q \in Originals : outcome'[q] \in {"created", "failed"} /\ madeAt'[q] = p
          <6>1. CASE p = FinalTarget(o)
            <7>1. outcome'[o] \in {"created", "failed"} /\ madeAt'[o] = p
              BY <4>3, <4>5, <6>1 DEF Filled
            <7> QED
              BY <7>1
          <6>2. CASE p # FinalTarget(o)
            <7>1. PICK q \in Originals : outcome[q] \in {"created", "failed"} /\ madeAt[q] = p
              BY <3>2, <5>1, <5>3, <6>2 DEF Accounted
            <7> QED
              BY <3>3, <3>4, <7>1
          <6> QED
            BY <6>1, <6>2
        <5>4. ASSUME ~dryRun, NEW q \in Originals, outcome'[q] = "created"
              PROVE  fs'[madeAt'[q]] = Made(q)
          <6>1. CASE q = o
            BY <4>3, <4>5, <5>1, <5>4, <6>1 DEF Filled
          <6>2. CASE q # o
            <7>1. fs[madeAt[q]] = Made(q) /\ madeAt'[q] = madeAt[q] /\ madeAt[q] \in Places
              BY <2>2, <3>2, <3>4, <5>4, <6>2 DEF CreatedThere, OrganizeTypes
            <7>2. Made(q) # Nothing
              BY FileIsThere DEF Made
            <7> QED
              BY <5>1, <7>1, <7>2
          <6> QED
            BY <6>1, <6>2
        <5>5. CreatedThere'
          BY <3>3, <5>4 DEF CreatedThere, Made, organizeFlags
        <5>6. Accounted'
          BY <3>3, <5>3 DEF Accounted, organizeFlags
        <5> QED
          BY <5>2, <5>5, <5>6
      <4> QED
        BY <4>2, <4>4, <4>5
    <3> QED
      BY <3>5, <3>6
  <2> QED
    BY <2>5, <2>6, <2>7, <2>8 DEF OrganizeInv
<1> QED
  BY <1>1, <1>2

LEMMA OrganizeInvSafe == OrganizeInv => OrganizeSafe
<1> SUFFICES ASSUME OrganizeInv, policy # "overwrite", ~ (copying /\ RanOut)
    PROVE  /\ \A p \in Places : before[p] # Nothing => fs[p] = before[p]
           /\ ~dryRun =>
                \A o \in Originals : outcome[o] = "created" =>
                  /\ Reads(madeAt[o]) = File(o)
                  /\ \A q \in Originals \ {o} : outcome[q] = "created" => madeAt[q] # madeAt[o]
  BY DEF OrganizeInv, OrganizeSafe
<1>1. OrganizeTypes /\ NothingTouched /\ CreatedThere
  BY DEF OrganizeInv
<1>2. \A t, u : /\ File(t).kind = "file" /\ LinkTo(t).kind = "link"
                /\ File(t).text = t /\ LinkTo(t).text = t
                /\ (File(t) = File(u) \/ LinkTo(t) = LinkTo(u) => t = u)
  <2> TAKE t, u
  <2>1. /\ File(t).kind = "file" /\ LinkTo(t).kind = "link"
        /\ File(t).text = t /\ LinkTo(t).text = t /\ File(u).text = u /\ LinkTo(u).text = u
    BY DEF File, LinkTo
  <2> QED
    BY <2>1
<1>3. ASSUME ~dryRun, NEW o \in Originals, outcome[o] = "created"
      PROVE  /\ Reads(madeAt[o]) = File(o)
             /\ \A q \in Originals \ {o} : outcome[q] = "created" => madeAt[q] # madeAt[o]
  <2>1. fs[madeAt[o]] = Made(o)
    BY <1>1, <1>3 DEF CreatedThere
  <2>2. fs[o] = File(o)
    BY <1>1, FileIsThere, OrganizeAssumption DEF NothingTouched, OrganizeTypes
  <2>3. Reads(madeAt[o]) = File(o)
    BY <1>2, <2>1, <2>2 DEF Reads, Made
  <2>4. ASSUME NEW q \in Originals \ {o}, outcome[q] = "created" PROVE madeAt[q] # madeAt[o]
    <3>1. fs[madeAt[q]] = Made(q)
      BY <1>1, <1>3, <2>4 DEF CreatedThere
    <3>2. Made(q) # Made(o)
      BY <1>2, <2>4 DEF Made
    <3> QED
      BY <2>1, <3>1, <3>2
  <2> QED
    BY <2>3, <2>4
<1> QED
  BY <1>1, <1>3 DEF NothingTouched

THEOREM OrganizeKeepsFiles == OrganizeSpec => []OrganizeSafe
<1>1. OrganizeInit => OrganizeInv
  BY OrganizeInitInv
<1>2. OrganizeInv /\ [OrganizeNext]_organizeVars => OrganizeInv'
  BY OrganizeStepInv
<1>3. OrganizeInv => OrganizeSafe
  BY OrganizeInvSafe
<1> QED
  BY <1>1, <1>2, <1>3, PTL DEF OrganizeSpec

-----------------------------------------------------------------------------
(* Two trees compared.                                                     *)
DiffTypes ==
  /\ trees \in [Sides -> [Rels -> Blobs \cup {Opaque, NoFile}]]
  /\ hashed \in [Sides -> Seq(Rels)] /\ side \in Sides
  /\ diffAt \in {"walk", "hash", "answered"} /\ diffCtx \in {"live", "done"}
  /\ walkErr \in [Sides -> BOOLEAN]

(* Nothing is hashed that has no content; and as long as the context lives *)
(* what has a content is hashed by the time its tree is left.              *)
HashesTrue == \A s \in Sides : Range(hashed[s]) \subseteq Hashable(s)
AllHashed(s) == Hashable(s) \subseteq Range(hashed[s])
OnTheWay ==
  diffCtx = "live" =>
    /\ \A s \in Sides : ~walkErr[s]
    /\ diffAt = "hash" =>
         unhashed \subseteq FilesOf(side) /\ Hashable(side) \subseteq Range(hashed[side]) \cup unhashed
    /\ side = "B" => AllHashed("A")
    /\ diffAt = "answered" =>
         side = "B" /\ AllHashed("B") /\ op \in Ops /\ records = Outcome(op)

DiffInv == DiffTypes /\ HashesTrue /\ OnTheWay

LEMMA DiffInitInv == DiffInit => DiffInv
<1> SUFFICES ASSUME DiffInit PROVE DiffInv
  OBVIOUS
<1>1. PICK ts \in [Sides -> [Rels -> Blobs \cup {Opaque, NoFile}]] : DiffStart(ts)
  BY DEF DiffInit
<1>2. /\ trees = ts /\ diffCtx = "live" /\ diffAt = "walk" /\ side = "A"
      /\ hashed = [s \in Sides |-> <<>>] /\ walkErr = [s \in Sides |-> FALSE]
  BY <1>1 DEF DiffStart
<1>3. hashed \in [Sides -> Seq(Rels)] /\ \A s \in Sides : Range(hashed[s]) = {}
  BY <1>2, EmptyBatch, RangeEmpty
<1>4. DiffTypes
  BY <1>2, <1>3 DEF DiffTypes, Sides
<1> QED
  BY <1>2, <1>3, <1>4 DEF DiffInv, HashesTrue, OnTheWay

LEMMA HashKeeps == ASSUME DiffInv, NEW r \in Rels, HashFile(r) PROVE DiffInv'
<1> USE DEF DiffInv
<1>1. /\ diffAt = "hash" /\ r \in unhashed /\ diffCtx = "live" /\ unhashed' = unhashed \ {r}
      /\ UNCHANGED <<trees, op, diffCtx, diffAt, side, walkErr, records>>
  BY DEF HashFile
<1>2. r \in FilesOf(side) /\ side \in Sides
  BY <1>1 DEF OnTheWay, DiffTypes
<1>3. \A s \in Sides : Hashable(s)' = Hashable(s)
  BY <1>1 DEF Hashable
<1>4. CASE trees[side][r] = Opaque
  <2>1. hashed' = hashed /\ r \notin Hashable(side)
    BY <1>4, DiffAssumption DEF HashFile, Hashable
  <2>2. DiffTypes'
    BY <1>1, <2>1 DEF DiffTypes
  <2>3. HashesTrue'
    BY <1>3, <2>1 DEF HashesTrue
  <2>4. OnTheWay'
    BY <1>1, <1>2, <1>3, <2>1 DEF OnTheWay, AllHashed, FilesOf, Sides
  <2> QED
    BY <2>2, <2>3, <2>4
<1>5. CASE trees[side][r] # Opaque
  <2>1. hashed' = [hashed EXCEPT ![side] = Append(@, r)]
    BY <1>5 DEF HashFile
  <2>2. r \in Hashable(side)
    BY <1>2, <1>5 DEF Hashable, FilesOf, DiffTypes
  <2>3. /\ hashed[side] \in Seq(Rels) /\ Append(hashed[side], r) \in Seq(Rels)
        /\ Range(Append(hashed[side], r)) = Range(hashed[side]) \cup {r}
    <3>1. hashed[side] \in Seq(Rels)
      BY <1>2 DEF DiffTypes
    <3> QED
      BY <3>1, RangeAppend, AppendType
  <2>4. /\ hashed' \in [Sides -> Seq(Rels)]
        /\ Range(hashed'[side]) = Range(hashed[side]) \cup {r}
        /\ \A s \in Sides \ {side} : hashed'[s] = hashed[s]
    BY <1>2, <2>1, <2>3 DEF DiffTypes
  <2>5. DiffTypes'
    BY <1>1, <2>4 DEF DiffTypes
  <2>6. HashesTrue'
    BY <1>3, <2>2, <2>4 DEF HashesTrue
  <2>7. OnTheWay'
    BY <1>1, <1>2, <1>3, <2>4 DEF OnTheWay, AllHashed, FilesOf, Sides
  <2> QED
    BY <2>5, <2>6, <2>7
<1> QED
  BY <1>4, <1>5

LEMMA DiffStepInv == DiffInv /\ [DiffNext]_diffVars => DiffInv'
<1> SUFFICES ASSUME DiffInv, [DiffNext]_diffVars PROVE DiffInv'
  OBVIOUS
<1> USE DEF DiffInv
<1>1. CASE UNCHANGED diffVars
  <2>1. Outcome(op)' = Outcome(op)
    BY <1>1 DEF diffVars, Outcome, Minus, Both, Row, FirstOf, Holding, HashesOf, Differing
  <2>2. DiffTypes' /\ HashesTrue'
    BY <1>1 DEF diffVars, DiffTypes, HashesTrue, Hashable
  <2>3. OnTheWay'
    BY <1>1, <2>1 DEF diffVars, OnTheWay, Hashable, AllHashed, FilesOf
  <2> QED
    BY <2>2, <2>3
<1>2. CASE DiffCancel
  <2>1. UNCHANGED <<trees, op, diffAt, side, unhashed, hashed, walkErr, records>> /\ diffCtx' = "done"
    BY <1>2 DEF DiffCancel
  <2> QED
    BY <2>1 DEF DiffTypes, HashesTrue, OnTheWay, Hashable
<1>3. CASE WalkTree
  <2>1. /\ diffAt = "walk" /\ diffAt' = "hash"
        /\ UNCHANGED <<trees, op, diffCtx, side, hashed, records>>
        /\ diffCtx = "live" => unhashed' = FilesOf(side)
    BY <1>3 DEF WalkTree
  <2>2. walkErr' \in [Sides -> BOOLEAN] /\ (diffCtx = "live" => \A s \in Sides : ~walkErr'[s])
    <3>1. \A s \in Sides : walkErr'[s] = IF s = side THEN diffCtx = "done" ELSE walkErr[s]
      BY <1>3 DEF WalkTree, DiffTypes
    <3>2. walkErr' \in [Sides -> BOOLEAN]
      BY <1>3 DEF WalkTree, DiffTypes
    <3> QED
      BY <3>1, <3>2 DEF OnTheWay
  <2>3. DiffTypes' /\ HashesTrue'
    BY <2>1, <2>2 DEF DiffTypes, HashesTrue, Hashable
  <2>4. Hashable(side) \subseteq FilesOf(side)
    BY DiffAssumption DEF Hashable, FilesOf
  <2>5. OnTheWay'
    BY <2>1, <2>2, <2>4 DEF OnTheWay, AllHashed, Hashable, FilesOf
  <2> QED
    BY <2>3, <2>5
<1>4. CASE LeaveA
  <2>1. /\ diffAt = "hash" /\ side = "A" /\ side' = "B" /\ diffAt' = "walk"
        /\ UNCHANGED <<trees, op, diffCtx, hashed, walkErr, records>>
        /\ diffCtx = "live" => unhashed = {}
    BY <1>4 DEF LeaveA, DiffTypes
  <2>2. DiffTypes' /\ HashesTrue'
    BY <2>1 DEF DiffTypes, HashesTrue, Hashable, Sides
  <2>3. OnTheWay'
    BY <2>1 DEF OnTheWay, AllHashed, Hashable
  <2> QED
    BY <2>2, <2>3
<1>5. ASSUME NEW r \in Rels, HashFile(r) PROVE DiffInv'
  BY <1>5, HashKeeps
<1>6. ASSUME NEW o \in Ops, Answer(o) PROVE DiffInv'
  <2>1. /\ diffAt = "hash" /\ side = "B" /\ diffAt' = "answered" /\ op' = o /\ records' = Outcome(o)
        /\ UNCHANGED <<trees, diffCtx, side, unhashed, hashed, walkErr>>
        /\ diffCtx = "live" => unhashed = {}
    BY <1>6 DEF Answer, DiffTypes
  <2>2. DiffTypes' /\ HashesTrue'
    BY <2>1 DEF DiffTypes, HashesTrue, Hashable
  <2>3. Outcome(op)' = Outcome(o)
    BY <2>1 DEF Outcome, Minus, Both, Row, FirstOf, Holding, HashesOf, Differing
  <2>4. OnTheWay'
    BY <1>6, <2>1, <2>3 DEF OnTheWay, AllHashed, Hashable
  <2> QED
    BY <2>2, <2>4
<1> QED
  BY <1>1, <1>2, <1>3, <1>4, <1>5, <1>6 DEF DiffNext

-----------------------------------------------------------------------------
(* What the lists hold of a content, and its first file.                   *)
LEMMA FirstHolds ==
  ASSUME DiffTypes, NEW s \in Sides, NEW c \in HashesOf(s)
  PROVE  FirstOf(s, c) \in Range(hashed[s]) /\ trees[s][FirstOf(s, c)] = c
<1>1. hashed[s] \in Seq(Rels) /\ DOMAIN hashed[s] \in SUBSET Nat
  BY LenProperties DEF DiffTypes
<1>2. PICK r \in Range(hashed[s]) : trees[s][r] = c
  BY DEF HashesOf
<1>3. PICK i \in DOMAIN hashed[s] : hashed[s][i] = r
  BY <1>2 DEF Range
<1>4. Holding(s, c) \in SUBSET Nat /\ Holding(s, c) # {}
  BY <1>1, <1>2, <1>3 DEF Holding
<1>5. Min(Holding(s, c)) \in Holding(s, c)
  BY <1>4, LeastNat
<1> QED
  BY <1>5 DEF Holding, FirstOf, Range

(* A row that names files of the right side and content.                   *)
RowRight(x) ==
  /\ x.a # NoFile => x.a \in Hashable("A") /\ x.content \in {trees["A"][x.a], NoFile}
  /\ x.b # NoFile => x.b \in Hashable("B") /\ x.content \in {trees["B"][x.b], NoFile}
  /\ x.status = "only_in_a" => x.content \notin Held("B")
  /\ x.status = "only_in_b" => x.content \notin Held("A")
  /\ x.status = "both" => x.a # NoFile /\ x.b # NoFile

LEMMA RowFields ==
  \A st, a, b, c : /\ Row(st, a, b, c).status = st /\ Row(st, a, b, c).a = a
                  /\ Row(st, a, b, c).b = b /\ Row(st, a, b, c).content = c
BY DEF Row

(* Rows that differ in their contents are as many as the contents.         *)
LEMMA ContentsCounted ==
  ASSUME NEW R, NEW W, IsFiniteSet(W), W = {x.content : x \in R},
         \A x, y \in R : x.content = y.content => x = y
  PROVE  Cardinality(R) = Cardinality(W)
<1> DEFINE f == [x \in R |-> x.content]
<1>1. f \in Injection(R, W) /\ f \in Surjection(R, W)
  BY DEF Injection, Surjection, IsInjective
<1>2. IsFiniteSet(R) /\ Cardinality(R) = Cardinality(W)
  BY <1>1, FS_Injection
<1> QED
  BY <1>2

LEMMA HeldFinite == ASSUME NEW s \in Sides PROVE IsFiniteSet(Held(s))
<1> DEFINE f == [r \in Hashable(s) |-> trees[s][r]]
<1>1. IsFiniteSet(Hashable(s))
  BY DiffAssumption, FS_Subset DEF Hashable
<1>2. f \in Surjection(Hashable(s), Held(s))
  BY DEF Surjection, Held
<1> QED
  BY <1>1, <1>2, FS_Surjection

LEMMA DiffInvSafe == DiffInv => DiffExact
<1> SUFFICES ASSUME DiffInv, diffAt = "answered", diffCtx = "live"
    PROVE  /\ ~MarkedCancelled
           /\ \A x \in records : RowRight(x)
           /\ op = "a-minus-b" =>
                {x.a : x \in records} = {r \in Hashable("A") : trees["A"][r] \notin Held("B")}
           /\ op = "b-minus-a" =>
                {x.b : x \in records} = {r \in Hashable("B") : trees["B"][r] \notin Held("A")}
           /\ op = "intersect" => /\ {x.content : x \in records} = Held("A") \cap Held("B")
                                 /\ Cardinality(records) = Cardinality(Held("A") \cap Held("B"))
           /\ op = "union" => /\ {x.content : x \in records} = Held("A") \cup Held("B")
                             /\ Cardinality(records) = Cardinality(Held("A") \cup Held("B"))
           /\ op = "mismatch" =>
                {x.a : x \in records}
                  = {r \in Hashable("A") \cap Hashable("B") : trees["A"][r] # trees["B"][r]}
  BY DEF DiffExact, RowRight
<1>1. DiffTypes /\ op \in Ops /\ records = Outcome(op) /\ "A" \in Sides /\ "B" \in Sides
  BY DEF DiffInv, OnTheWay, Sides
<1>2. ~MarkedCancelled
  BY DEF DiffInv, OnTheWay, MarkedCancelled
<1>3. Range(hashed["A"]) = Hashable("A") /\ Range(hashed["B"]) = Hashable("B")
  BY <1>1 DEF DiffInv, HashesTrue, OnTheWay, AllHashed
<1>4. HashesOf("A") = Held("A") /\ HashesOf("B") = Held("B")
  BY <1>3 DEF HashesOf, Held
<1>5. /\ \A c \in Held("A") : FirstOf("A", c) \in Hashable("A") /\ trees["A"][FirstOf("A", c)] = c
      /\ \A c \in Held("B") : FirstOf("B", c) \in Hashable("B") /\ trees["B"][FirstOf("B", c)] = c
  BY <1>1, <1>3, <1>4, FirstHolds
<1>6. NoFile \notin Hashable("A") /\ NoFile \notin Hashable("B")
  BY DiffAssumption DEF Hashable
<1>7. Hashable("A") \subseteq Rels /\ Hashable("B") \subseteq Rels
  BY DEF Hashable
<1>8. /\ \A r \in Hashable("A") : trees["A"][r] \in Held("A")
      /\ \A r \in Hashable("B") : trees["B"][r] \in Held("B")
  BY DEF Held
<1>9. \A c : /\ Both(c) = Row("both", FirstOf("A", c), FirstOf("B", c), c)
  BY DEF Both
<1>10. CASE op = "a-minus-b"
  <2> DEFINE S == {r \in Hashable("A") : trees["A"][r] \notin Held("B")}
  <2>1. records = {Row("only_in_a", r, NoFile, trees["A"][r]) : r \in S}
    BY <1>1, <1>3, <1>4, <1>10 DEF Outcome, Minus
  <2>2. \A x \in records : RowRight(x)
    BY <1>6, <2>1, RowFields DEF RowRight
  <2>3. {x.a : x \in records} = S
    BY <2>1, RowFields
  <2> QED
    BY <1>2, <1>10, <2>2, <2>3
<1>11. CASE op = "b-minus-a"
  <2> DEFINE S == {r \in Hashable("B") : trees["B"][r] \notin Held("A")}
  <2>1. records = {Row("only_in_b", NoFile, r, trees["B"][r]) : r \in S}
    BY <1>1, <1>3, <1>4, <1>11 DEF Outcome, Minus
  <2>2. \A x \in records : RowRight(x)
    BY <1>6, <2>1, RowFields DEF RowRight
  <2>3. {x.b : x \in records} = S
    BY <2>1, RowFields
  <2> QED
    BY <1>2, <1>11, <2>2, <2>3
<1>12. CASE op = "intersect"
  <2> DEFINE W == Held("A") \cap Held("B")
  <2>1. records = {Row("both", FirstOf("A", c), FirstOf("B", c), c) : c \in W}
    BY <1>1, <1>4, <1>9, <1>12 DEF Outcome
  <2>2. \A x \in records : RowRight(x)
    BY <1>5, <1>6, <2>1, RowFields DEF RowRight
  <2>3. /\ W = {x.content : x \in records}
        /\ \A x, y \in records : x.content = y.content => x = y
    BY <2>1, RowFields
  <2>4. IsFiniteSet(W)
    BY <1>1, HeldFinite, FS_Intersection
  <2> HIDE DEF W
  <2>5. Cardinality(records) = Cardinality(W)
    BY <2>3, <2>4, ContentsCounted
  <2> QED
    BY <1>2, <1>12, <2>2, <2>3, <2>5 DEF W
<1>13. CASE op = "union"
  <2> DEFINE W == Held("A") \cup Held("B")
             RowOf(c) == IF c \in Held("A") \cap Held("B")
                           THEN Row("both", FirstOf("A", c), FirstOf("B", c), c)
                         ELSE IF c \in Held("A") THEN Row("only_in_a", FirstOf("A", c), NoFile, c)
                         ELSE Row("only_in_b", NoFile, FirstOf("B", c), c)
  <2>1. records =
          {Row("both", FirstOf("A", c), FirstOf("B", c), c) : c \in Held("A") \cap Held("B")}
          \cup {Row("only_in_a", FirstOf("A", c), NoFile, c) : c \in Held("A") \ Held("B")}
          \cup {Row("only_in_b", NoFile, FirstOf("B", c), c) : c \in Held("B") \ Held("A")}
    BY <1>1, <1>4, <1>9, <1>13 DEF Outcome
  <2>2. \A x : x \in records <=> \E c \in W : x = RowOf(c)
    BY <2>1
  <2>3. \A c \in W : RowOf(c).content = c /\ RowRight(RowOf(c))
    BY <1>5, <1>6, RowFields DEF RowRight
  <2> HIDE DEF RowOf
  <2>4. \A x \in records : RowRight(x)
    BY <2>2, <2>3
  <2>5. /\ W = {x.content : x \in records}
        /\ \A x, y \in records : x.content = y.content => x = y
    BY <2>2, <2>3
  <2>6. IsFiniteSet(W)
    BY <1>1, HeldFinite, FS_Union
  <2> HIDE DEF W
  <2>7. Cardinality(records) = Cardinality(W)
    BY <2>5, <2>6, ContentsCounted
  <2> QED
    BY <1>2, <1>13, <2>4, <2>5, <2>7 DEF W
<1>14. CASE op = "mismatch"
  <2> DEFINE S == {r \in Hashable("A") \cap Hashable("B") : trees["A"][r] # trees["B"][r]}
  <2>1. {r \in Rels : Differing(r)} = S
    BY <1>3, <1>7 DEF Differing
  <2>2. records = {Row("name_match_content_differs", r, r, NoFile) : r \in S}
    BY <1>1, <1>14, <2>1 DEF Outcome
  <2>3. \A x \in records : RowRight(x)
    BY <2>2, RowFields DEF RowRight
  <2>4. {x.a : x \in records} = S
    BY <2>2, RowFields
  <2> QED
    BY <1>2, <1>14, <2>3, <2>4
<1> QED
  BY <1>1, <1>10, <1>11, <1>12, <1>13, <1>14 DEF Ops

THEOREM DiffTold == DiffSpec => []DiffExact
<1>1. DiffInit => DiffInv
  BY DiffInitInv
<1>2. DiffInv /\ [DiffNext]_diffVars => DiffInv'
  BY DiffStepInv
<1>3. DiffInv => DiffExact
  BY DiffInvSafe
<1> QED
  BY <1>1, <1>2, <1>3, PTL DEF DiffSpec

-----------------------------------------------------------------------------
(* The screen of the playground.                                           *)
FilesFound == UNION {Range(list) : list \in Snapshots}
Rows == [file : FilesFound, query : Queries \cup {EmptyBox}]
Screens ==
  [semantic : BOOLEAN, first : Queries \cup {EmptyBox}, results : Seq(Rows), loaded : BOOLEAN,
   loadErr : BOOLEAN, capped : BOOLEAN, searching : BOOLEAN, searchErr : BOOLEAN,
   hasSimilarity : BOOLEAN, matched : Seq(Nat), selected : Nat, top : Nat, badFilter : BOOLEAN,
   filter : Filters, query : Queries \cup {EmptyBox}, panel : BOOLEAN,
   focus : {"query", "filter", "attrs"}, cursor : SUBSET {"query", "filter"},
   height : Heights, resized : BOOLEAN]

PlayTypes ==
  /\ screen \in Screens /\ running \in Seq(Queries \cup {"load"})
  /\ window \in {"open", "left", "crashed"}

(* What a value of the program satisfies between two messages.             *)
MatchesOf(m) ==
  /\ m.badFilter => m.filter = "bad"
  /\ ~m.badFilter => m.matched = IF m.filter = "bad" THEN <<>> ELSE FilterHolds(m.results, m.filter)
SelectionOf(m) ==
  /\ m.selected <= Most(0, Len(m.matched) - 1)
  /\ m.top <= m.selected
  /\ ~m.resized => m.selected < m.top + m.height
KeysOf(m) ==
  /\ m.cursor = {m.focus} \ {"attrs"}
  /\ m.focus = "attrs" => m.panel
  /\ m.focus = "query" => m.semantic
ScoresOf(m) ==
  m.first # EmptyBox => \A i \in 1 .. Len(m.results) : m.hasSimilarity /\ m.results[i].query # EmptyBox

(* The commands under way: nothing plain was begun if a search was, an     *)
(* empty query is never searched for.                                      *)
CommandsOf ==
  /\ screen.first # EmptyBox => \A i \in 1 .. Len(running) : running[i] # "load"
  /\ \A i \in 1 .. Len(running) : running[i] # EmptyBox
  /\ screen.searching <=> \E i \in 1 .. Len(running) : running[i] # "load"
  /\ \A i, j \in 1 .. Len(running) : running[i] # "load" /\ running[j] # "load" => i = j

PlayInv ==
  /\ PlayTypes /\ MatchesOf(screen) /\ SelectionOf(screen) /\ KeysOf(screen) /\ ScoresOf(screen)
  /\ CommandsOf
  /\ window = "crashed" => screen.badFilter

Good(m) ==
  /\ m \in Screens
  /\ MatchesOf(m) /\ SelectionOf(m) /\ KeysOf(m) /\ ScoresOf(m)

-----------------------------------------------------------------------------
(* The matches of a filter are rows, whatever the filter.                  *)
LEMMA FilterListed ==
  ASSUME NEW rows \in Seq(Rows), NEW filter
  PROVE  /\ FilterHolds(rows, filter) \in Seq(Nat)
         /\ \A i \in 1 .. Len(FilterHolds(rows, filter)) :
              FilterHolds(rows, filter)[i] \in 1 .. Len(rows)
<1> DEFINE found == {i \in 1 .. Len(rows) : HoldsFor(filter, rows[i])}
           R == {p \in Nat \X Nat : p[1] < p[2]}
           s == FilterHolds(rows, filter)
<1>1. found \subseteq Nat /\ Len(rows) \in Nat
  OBVIOUS
<1>2. IsFiniteSet(found)
  <2>1. IsFiniteSet(1 .. Len(rows)) /\ found \subseteq 1 .. Len(rows)
    BY <1>1, FS_Interval
  <2> HIDE DEF found
  <2> QED
    BY <2>1, FS_Subset
<1>3. Orders(R, found)
  <2>1. \A i, j \in Nat : <<i, j>> \in R <=> i < j
    OBVIOUS
  <2> HIDE DEF R, found
  <2> QED
    BY <1>1, <2>1 DEF Orders
<1>4. Cardinality(found) \in Nat
  BY <1>2, FS_CardinalityType
<1>5. PICK l : Lists(l, R, found)
  <2> HIDE DEF R, found
  <2> QED
    BY <1>2, <1>3, ListingExists
<1>6. l \in [1 .. Cardinality(found) -> found] /\ \A i, j \in DOMAIN l : i < j => l[i] < l[j]
  <2>1. l \in [1 .. Cardinality(found) -> found]
    BY <1>5 DEF Lists
  <2>2. \A i, j \in 1 .. Cardinality(found) : i < j => <<l[i], l[j]>> \in R
    BY <1>5 DEF Lists
  <2>3. DOMAIN l = 1 .. Cardinality(found)
    BY <2>1
  <2>4. ASSUME NEW i \in DOMAIN l, NEW j \in DOMAIN l, i < j PROVE l[i] < l[j]
    <3>1. <<l[i], l[j]>> \in R
      BY <2>2, <2>3, <2>4
    <3> QED
      BY <3>1
  <2> QED
    BY <2>1, <2>4
<1>7. s \in [1 .. Cardinality(found) -> found]
  <2>1. s = CHOOSE x \in [1 .. Cardinality(found) -> found] :
              \A i, j \in DOMAIN x : i < j => x[i] < x[j]
    BY DEF FilterHolds
  <2> HIDE DEF s, found
  <2> QED
    BY <1>6, <2>1
<1> HIDE DEF s, R
<1>8. s \in Seq(Nat) /\ Len(s) = Cardinality(found)
  <2>1. s \in [1 .. Cardinality(found) -> Nat]
    BY <1>1, <1>7
  <2> HIDE DEF found
  <2> QED
    BY <1>4, <2>1
<1>9. \A i \in 1 .. Len(s) : s[i] \in 1 .. Len(rows)
  BY <1>7, <1>8
<1> QED
  BY <1>8, <1>9 DEF s

LEMMA NearestListed ==
  ASSUME NEW S, NEW brought \in Seq(S), NEW query
  PROVE  NearestFirst(brought, query) \in Seq(S)
<1> DEFINE n == Len(brought)
           near == {i \in 1 .. n : brought[i] \in Close[query]}
           ahead(i, j) == IF i \in near <=> j \in near THEN i < j ELSE i \in near
           R == {p \in (1 .. n) \X (1 .. n) : ahead(p[1], p[2])}
           sorted(p) == \A i, j \in 1 .. n : i < j => ahead(p[i], p[j])
           place == CHOOSE p \in [1 .. n -> 1 .. n] : sorted(p)
<1>1. n \in Nat /\ IsFiniteSet(1 .. n) /\ Cardinality(1 .. n) = n
  <2>1. n \in Nat
    OBVIOUS
  <2> HIDE DEF n
  <2>2. IsFiniteSet(1 .. n) /\ Cardinality(1 .. n) = IF 1 > n THEN 0 ELSE n - 1 + 1
    BY <2>1, FS_Interval
  <2> QED
    BY <2>1, <2>2
<1>2. \A i, j \in 1 .. n : <<i, j>> \in R <=> ahead(i, j)
  <2> HIDE DEF ahead
  <2> QED
    OBVIOUS
<1> HIDE DEF R
<1>3. Orders(R, 1 .. n)
  <2>1. \A x \in 1 .. n : <<x, x>> \notin R
    BY <1>1, <1>2
  <2>2. \A x, y \in 1 .. n : x # y => <<x, y>> \in R \/ <<y, x>> \in R
    <3> TAKE x \in 1 .. n, y \in 1 .. n
    <3> HIDE DEF near
    <3>1. x # y => ahead(x, y) \/ ahead(y, x)
      BY <1>1
    <3> QED
      BY <1>2, <3>1
  <2>3. \A x, y, z \in 1 .. n : <<x, y>> \in R /\ <<y, z>> \in R => <<x, z>> \in R
    <3> TAKE x \in 1 .. n, y \in 1 .. n, z \in 1 .. n
    <3> HIDE DEF near
    <3>1. ahead(x, y) /\ ahead(y, z) => ahead(x, z)
      BY <1>1
    <3> QED
      BY <1>2, <3>1
  <2> QED
    BY <2>1, <2>2, <2>3 DEF Orders
<1>4. PICK l : Lists(l, R, 1 .. n)
  BY <1>1, <1>3, ListingExists
<1>5. l \in [1 .. n -> 1 .. n] /\ sorted(l)
  <2> HIDE DEF ahead
  <2>1. l \in [1 .. n -> 1 .. n] /\ \A i, j \in 1 .. n : i < j => <<l[i], l[j]>> \in R
    BY <1>1, <1>4 DEF Lists
  <2> QED
    BY <1>2, <2>1
<1>6. place \in [1 .. n -> 1 .. n]
  <2> HIDE DEF sorted
  <2> QED
    BY <1>5
<1>7. NearestFirst(brought, query) = [i \in 1 .. n |-> brought[place[i]]]
  BY DEF NearestFirst
<1> HIDE DEF place
<1>8. [i \in 1 .. n |-> brought[place[i]]] \in [1 .. n -> S]
  BY <1>6
<1> QED
  BY <1>1, <1>7, <1>8

-----------------------------------------------------------------------------
(* Scrolling brings the selected row into view, and changes no more.       *)
LEMMA Clamped ==
  ASSUME NEW m \in Screens, m.selected <= Most(0, Len(m.matched) - 1)
  PROVE  \E t \in Nat : /\ ClampScroll(m) = [m EXCEPT !.top = t, !.resized = FALSE]
                        /\ t <= m.selected /\ m.selected < t + m.height
<1> DEFINE up == Least(m.top, m.selected)
           t == IF m.selected >= up + m.height THEN m.selected - m.height + 1 ELSE up
<1>1. m.top \in Nat /\ m.selected \in Nat /\ m.height \in Nat \ {0}
  BY PlayAssumption DEF Screens
<1>2. up \in Nat /\ up <= m.selected
  BY <1>1 DEF Least
<1>3. t \in Nat /\ t <= m.selected /\ m.selected < t + m.height
  <2> HIDE DEF up
  <2> QED
    BY <1>1, <1>2
<1>4. ClampScroll(m) = [m EXCEPT !.top = t, !.resized = FALSE]
  BY DEF ClampScroll
<1> HIDE DEF t
<1> QED
  BY <1>3, <1>4

LEMMA ClampedGood ==
  ASSUME NEW m \in Screens, m.selected <= Most(0, Len(m.matched) - 1),
         MatchesOf(m), KeysOf(m), ScoresOf(m)
  PROVE  /\ Good(ClampScroll(m))
         /\ ClampScroll(m).first = m.first /\ ClampScroll(m).searching = m.searching
<1>1. PICK t \in Nat : /\ ClampScroll(m) = [m EXCEPT !.top = t, !.resized = FALSE]
                       /\ t <= m.selected /\ m.selected < t + m.height
  BY Clamped
<1> DEFINE c == [m EXCEPT !.top = t, !.resized = FALSE]
<1>2. c \in Screens
  BY DEF Screens
<1>3. /\ c.top = t /\ c.resized = FALSE /\ c.selected = m.selected /\ c.height = m.height
      /\ c.matched = m.matched /\ c.results = m.results /\ c.badFilter = m.badFilter
      /\ c.filter = m.filter /\ c.cursor = m.cursor /\ c.focus = m.focus /\ c.panel = m.panel
      /\ c.semantic = m.semantic /\ c.first = m.first /\ c.hasSimilarity = m.hasSimilarity
      /\ c.searching = m.searching
  BY DEF Screens
<1>4. ClampScroll(m) = c
  BY <1>1
<1> HIDE DEF c
<1>5. MatchesOf(c)
  BY <1>3 DEF MatchesOf
<1>6. SelectionOf(c)
  BY <1>1, <1>3 DEF SelectionOf
<1>7. KeysOf(c) /\ ScoresOf(c)
  BY <1>3 DEF KeysOf, ScoresOf
<1> QED
  BY <1>2, <1>3, <1>4, <1>5, <1>6, <1>7 DEF Good

(* Filtering again: whatever was matched before.                           *)
LEMMA RefilterGood ==
  ASSUME NEW m \in Screens, SelectionOf(m), KeysOf(m), ScoresOf(m)
  PROVE  /\ Good(Refilter(m))
         /\ Refilter(m).first = m.first /\ Refilter(m).searching = m.searching
<1>1. CASE m.filter = "bad"
  <2> DEFINE c == [m EXCEPT !.badFilter = TRUE]
  <2>1. c \in Screens
    BY DEF Screens
  <2>2. /\ c.top = m.top /\ c.resized = m.resized /\ c.selected = m.selected /\ c.height = m.height
        /\ c.matched = m.matched /\ c.results = m.results /\ c.badFilter = TRUE
        /\ c.filter = m.filter /\ c.cursor = m.cursor /\ c.focus = m.focus /\ c.panel = m.panel
        /\ c.semantic = m.semantic /\ c.first = m.first /\ c.hasSimilarity = m.hasSimilarity
        /\ c.searching = m.searching
    BY DEF Screens
  <2>3. Refilter(m) = c
    BY <1>1 DEF Refilter
  <2> HIDE DEF c
  <2>4. MatchesOf(c)
    BY <1>1, <2>2 DEF MatchesOf
  <2>5. SelectionOf(c)
    BY <2>2 DEF SelectionOf
  <2>6. KeysOf(c) /\ ScoresOf(c)
    BY <2>2 DEF KeysOf, ScoresOf
  <2> QED
    BY <2>1, <2>2, <2>3, <2>4, <2>5, <2>6 DEF Good
<1>2. CASE m.filter # "bad"
  <2> DEFINE found == FilterHolds(m.results, m.filter)
             row == Most(0, Least(m.selected, Len(found) - 1))
             c == [m EXCEPT !.badFilter = FALSE, !.matched = found, !.selected = row]
  <2>1. m.results \in Seq(Rows)
    BY DEF Screens
  <2>2. found \in Seq(Nat)
    BY <2>1, FilterListed
  <2>3. Refilter(m) = ClampScroll(c)
    BY <1>2 DEF Refilter
  <2> HIDE DEF found
  <2>4. Len(found) \in Nat /\ m.selected \in Nat
    <3>1. m.selected \in Nat
      BY DEF Screens
    <3> QED
      BY <2>2, <3>1
  <2>5. row \in Nat /\ row <= Most(0, Len(found) - 1)
    BY <2>4 DEF Most, Least
  <2> HIDE DEF row
  <2>6. c \in Screens
    BY <2>2, <2>5 DEF Screens
  <2>7. /\ c.selected = row /\ c.matched = found /\ c.results = m.results /\ c.badFilter = FALSE
        /\ c.filter = m.filter /\ c.cursor = m.cursor /\ c.focus = m.focus /\ c.panel = m.panel
        /\ c.semantic = m.semantic /\ c.first = m.first /\ c.hasSimilarity = m.hasSimilarity
        /\ c.searching = m.searching
    BY DEF Screens
  <2> HIDE DEF c
  <2>8. MatchesOf(c)
    BY <1>2, <2>7 DEF MatchesOf, found
  <2>9. KeysOf(c) /\ ScoresOf(c)
    BY <2>7 DEF KeysOf, ScoresOf
  <2>10. c.selected <= Most(0, Len(c.matched) - 1)
    BY <2>5, <2>7
  <2> QED
    BY <2>3, <2>6, <2>7, <2>8, <2>9, <2>10, ClampedGood
<1> QED
  BY <1>1, <1>2

LEMMA MoveGood ==
  ASSUME NEW m \in Screens, Good(m), NEW delta \in Int
  PROVE  /\ Good(MoveBy(m, delta))
         /\ MoveBy(m, delta).first = m.first /\ MoveBy(m, delta).searching = m.searching
<1>1. CASE m.matched = <<>>
  BY <1>1 DEF MoveBy
<1>2. CASE m.matched # <<>>
  <2> DEFINE row == Least(Most(0, m.selected + delta), Len(m.matched) - 1)
             c == [m EXCEPT !.selected = row]
  <2>1. MoveBy(m, delta) = ClampScroll(c)
    BY <1>2 DEF MoveBy
  <2>2. Len(m.matched) \in Nat \ {0} /\ m.selected \in Nat
    <3>1. m.matched \in Seq(Nat) /\ m.selected \in Nat
      BY DEF Screens
    <3> QED
      BY <1>2, <3>1
  <2>3. row \in Nat /\ row <= Most(0, Len(m.matched) - 1)
    BY <2>2 DEF Most, Least
  <2> HIDE DEF row
  <2>4. c \in Screens
    BY <2>3 DEF Screens
  <2>5. /\ c.selected = row /\ c.matched = m.matched /\ c.results = m.results
        /\ c.badFilter = m.badFilter
        /\ c.filter = m.filter /\ c.cursor = m.cursor /\ c.focus = m.focus /\ c.panel = m.panel
        /\ c.semantic = m.semantic /\ c.first = m.first /\ c.hasSimilarity = m.hasSimilarity
        /\ c.searching = m.searching
    BY DEF Screens
  <2> HIDE DEF c
  <2>6. MatchesOf(c)
    BY <2>5 DEF Good, MatchesOf
  <2>7. KeysOf(c) /\ ScoresOf(c)
    BY <2>5 DEF Good, KeysOf, ScoresOf
  <2> QED
    BY <2>1, <2>3, <2>4, <2>5, <2>6, <2>7, ClampedGood
<1> QED
  BY <1>1, <1>2

(* What is drawn is there, unless the filter does not compile.             *)
LEMMA GoodDraws ==
  ASSUME NEW m \in Screens, Good(m), ~m.badFilter
  PROVE  CanDraw(m)
<1>1. /\ m.results \in Seq(Rows) /\ m.matched \in Seq(Nat)
      /\ m.top \in Nat /\ m.height \in Nat /\ m.selected \in Nat
  BY PlayAssumption DEF Screens
<1>2. \A i \in 1 .. Len(m.matched) : m.matched[i] \in 1 .. Len(m.results)
  <2>1. CASE m.filter = "bad"
    <3>1. m.matched = <<>>
      BY <2>1 DEF Good, MatchesOf
    <3> QED
      BY <3>1
  <2>2. CASE m.filter # "bad"
    <3>1. m.matched = FilterHolds(m.results, m.filter)
      BY <2>2 DEF Good, MatchesOf
    <3> QED
      BY <1>1, <3>1, FilterListed
  <2> QED
    BY <2>1, <2>2
<1>3. RowsInView(m) \subseteq 1 .. Len(m.matched) /\ SelectedRow(m) \subseteq 1 .. Len(m.matched)
  BY <1>1 DEF RowsInView, SelectedRow, Least
<1> QED
  BY <1>2, <1>3 DEF CanDraw

-----------------------------------------------------------------------------
LEMMA Without ==
  ASSUME NEW S, NEW s \in Seq(S), NEW i \in 1 .. Len(s)
  PROVE  /\ RemoveAt(s, i) \in Seq(S)
         /\ Len(RemoveAt(s, i)) = Len(s) - 1
         /\ \A j \in 1 .. Len(s) - 1 : RemoveAt(s, i)[j] = IF j < i THEN s[j] ELSE s[j + 1]
<1>1. /\ SubSeq(s, 1, i - 1) \in Seq(S) /\ Len(SubSeq(s, 1, i - 1)) = i - 1
      /\ \A j \in 1 .. i - 1 : SubSeq(s, 1, i - 1)[j] = s[j]
  <2>1. \A j \in 1 .. i - 1 : s[j] \in S
    OBVIOUS
  <2> QED
    BY <2>1, SubSeqProperties
<1>2. /\ SubSeq(s, i + 1, Len(s)) \in Seq(S) /\ Len(SubSeq(s, i + 1, Len(s))) = Len(s) - i
      /\ \A j \in 1 .. Len(s) - i : SubSeq(s, i + 1, Len(s))[j] = s[i + j]
  <2>1. \A j \in i + 1 .. Len(s) : s[j] \in S
    OBVIOUS
  <2> QED
    BY <2>1, SubSeqProperties
<1> DEFINE front == SubSeq(s, 1, i - 1)
           rest == SubSeq(s, i + 1, Len(s))
<1>3. RemoveAt(s, i) = front \o rest
  BY DEF RemoveAt
<1>4. /\ front \in Seq(S) /\ Len(front) = i - 1 /\ \A j \in 1 .. i - 1 : front[j] = s[j]
      /\ rest \in Seq(S) /\ Len(rest) = Len(s) - i /\ \A j \in 1 .. Len(s) - i : rest[j] = s[i + j]
  BY <1>1, <1>2
<1> HIDE DEF front, rest
<1>5. /\ front \o rest \in Seq(S) /\ Len(front \o rest) = Len(s) - 1
      /\ \A j \in 1 .. Len(s) - 1 :
           (front \o rest)[j] = IF j <= Len(front) THEN front[j] ELSE rest[j - Len(front)]
  <2>1. /\ front \o rest \in Seq(S) /\ Len(front \o rest) = Len(front) + Len(rest)
        /\ \A j \in 1 .. Len(front) + Len(rest) :
             (front \o rest)[j] = IF j <= Len(front) THEN front[j] ELSE rest[j - Len(front)]
    BY <1>4, ConcatProperties
  <2>2. Len(front) + Len(rest) = Len(s) - 1
    BY <1>4
  <2> QED
    BY <2>1, <2>2
<1>6. \A j \in 1 .. Len(s) - 1 : (front \o rest)[j] = IF j < i THEN s[j] ELSE s[j + 1]
  <2> TAKE j \in 1 .. Len(s) - 1
  <2>1. CASE j < i
    BY <1>4, <1>5, <2>1
  <2>2. CASE ~(j < i)
    <3>1. j - (i - 1) \in 1 .. Len(s) - i /\ i + (j - (i - 1)) = j + 1 /\ ~(j <= i - 1)
      BY <2>2
    <3> QED
      BY <1>4, <1>5, <2>2, <3>1
  <2> QED
    BY <2>1, <2>2
<1> QED
  BY <1>3, <1>5, <1>6

LEMMA PlayInitInv == PlayInit => PlayInv
<1> SUFFICES ASSUME PlayInit PROVE PlayInv
  OBVIOUS
<1>1. PICK semantic \in BOOLEAN, f \in Filters, q \in Queries, h \in Heights :
        (~semantic => q = EmptyBox) /\ PlayStart(semantic, f, q, h)
  BY DEF PlayInit
<1>2. screen =
        [semantic |-> semantic, first |-> IF semantic THEN q ELSE EmptyBox,
         results |-> <<>>, loaded |-> FALSE, loadErr |-> FALSE, capped |-> FALSE,
         searching |-> semantic /\ q # EmptyBox, searchErr |-> FALSE, hasSimilarity |-> FALSE,
         matched |-> <<>>, selected |-> 0, top |-> 0, badFilter |-> FALSE,
         filter |-> f, query |-> IF semantic THEN q ELSE EmptyBox,
         panel |-> FALSE, focus |-> IF semantic THEN "query" ELSE "filter",
         cursor |-> IF semantic THEN {"query"} ELSE {"filter"},
         height |-> h, resized |-> FALSE]
      /\ running = <<IF semantic /\ q # EmptyBox THEN q ELSE "load">> /\ window = "open"
  BY <1>1 DEF PlayStart
<1>3. screen \in Screens
  <2>1. (IF semantic THEN q ELSE EmptyBox) \in Queries \cup {EmptyBox}
    OBVIOUS
  <2>2. (semantic /\ q # EmptyBox) \in BOOLEAN
    OBVIOUS
  <2>3. <<>> \in Seq(Rows) /\ <<>> \in Seq(Nat)
    OBVIOUS
  <2>4. (IF semantic THEN "query" ELSE "filter") \in {"query", "filter", "attrs"}
    OBVIOUS
  <2>5. (IF semantic THEN {"query"} ELSE {"filter"}) \in SUBSET {"query", "filter"}
    OBVIOUS
  <2> QED
    BY <1>2, <2>1, <2>2, <2>3, <2>4, <2>5 DEF Screens
<1>4. running \in Seq(Queries \cup {"load"}) /\ Len(running) = 1
      /\ running[1] = IF semantic /\ q # EmptyBox THEN q ELSE "load"
  <2> DEFINE c == IF semantic /\ q # EmptyBox THEN q ELSE "load"
  <2>1. c \in Queries \cup {"load"} /\ running = <<c>>
    BY <1>2
  <2> HIDE DEF c
  <2>2. running \in Seq(Queries \cup {"load"}) /\ Len(running) = 1 /\ running[1] = c
    BY <2>1
  <2> QED
    BY <2>2 DEF c
<1>5. MatchesOf(screen)
  <2>1. FilterHolds(<<>>, f) = <<>>
    <3>1. FilterHolds(<<>>, f) \in Seq(Nat)
          /\ \A i \in 1 .. Len(FilterHolds(<<>>, f)) : FilterHolds(<<>>, f)[i] \in 1 .. 0
      BY FilterListed, <<>> \in Seq(Rows), Len(<<>>) = 0
    <3> QED
      BY <3>1
  <2>2. screen.results = <<>> /\ screen.filter = f /\ screen.matched = <<>> /\ screen.badFilter = FALSE
    BY <1>2
  <2> QED
    BY <2>1, <2>2 DEF MatchesOf
<1>6. SelectionOf(screen)
  <2>1. /\ screen.selected = 0 /\ screen.top = 0 /\ screen.height = h /\ screen.matched = <<>>
        /\ h \in Nat \ {0}
    BY <1>2, PlayAssumption
  <2> QED
    BY <2>1 DEF SelectionOf, Most
<1>7. KeysOf(screen)
  BY <1>2 DEF KeysOf
<1>8. ScoresOf(screen)
  <2>1. screen.results = <<>>
    BY <1>2
  <2>2. \A i \in 1 .. Len(screen.results) : FALSE
    BY <2>1
  <2> QED
    BY <2>2 DEF ScoresOf
<1>9. CommandsOf
  <2>1. screen.first = (IF semantic THEN q ELSE EmptyBox) /\ screen.searching = (semantic /\ q # EmptyBox)
    BY <1>2
  <2>2. running[1] # EmptyBox /\ (running[1] # "load" <=> semantic /\ q # EmptyBox)
    <3>1. "load" # EmptyBox
      BY Zenon DEF EmptyBox
    <3> QED
      BY <1>4, <3>1, PlayAssumption
  <2> QED
    <3>1. 1 .. Len(running) = {1}
      <4>1. \A i : i \in 1 .. 1 <=> i = 1
        OBVIOUS
      <4> QED
        BY <1>4, <4>1
    <3>2. screen.first # EmptyBox <=> semantic /\ q # EmptyBox
      BY <2>1
    <3> QED
      BY <2>1, <2>2, <3>1, <3>2 DEF CommandsOf
<1> QED
  BY <1>2, <1>3, <1>4, <1>5, <1>6, <1>7, <1>8, <1>9 DEF PlayInv, PlayTypes

-----------------------------------------------------------------------------
(* A message leaves a good value, and ends the program only over a filter  *)
(* that does not compile.                                                  *)
LEMMA BecomesGood ==
  ASSUME NEW m, Good(m), Becomes(m), running' \in Seq(Queries \cup {"load"}), CommandsOf'
  PROVE  PlayInv'
<1>1. screen' = m /\ window' = IF CanDraw(m) THEN "open" ELSE "crashed"
  BY DEF Becomes
<1>2. window' \in {"open", "left", "crashed"} /\ (window' = "crashed" => m.badFilter)
  <2>1. ~m.badFilter => CanDraw(m)
    BY GoodDraws DEF Good
  <2> QED
    BY <1>1, <2>1
<1>3. m \in Screens /\ MatchesOf(m) /\ SelectionOf(m) /\ KeysOf(m) /\ ScoresOf(m)
  BY DEF Good
<1> QED
  BY <1>1, <1>2, <1>3 DEF PlayInv, PlayTypes

(* The rows of a finished command.                                         *)
Brought(m, rows, full) == [m EXCEPT !.loaded = TRUE, !.results = rows, !.capped = full]

LEMMA RowsListed ==
  ASSUME NEW m \in Screens, NEW brought \in Seq(FilesFound),
         NEW query \in Queries \cup {EmptyBox}
  PROVE  \E rows \in Seq(Rows), full \in BOOLEAN :
           /\ WithRows(m, brought, query) = Brought(m, rows, full)
           /\ \A i \in 1 .. Len(rows) : rows[i].query = query
<1> DEFINE n == Least(RowLimit, Len(brought))
           kept == SubSeq(brought, 1, n)
           rows == RowsOfSnapshot(kept, query)
<1>1. n \in Nat /\ n <= Len(brought)
  <2>1. Len(brought) \in Nat
    OBVIOUS
  <2>2. RowLimit \in Nat
    BY PlayAssumption
  <2> QED
    BY <2>1, <2>2 DEF Least
<1>2. kept \in Seq(FilesFound) /\ Len(kept) \in Nat
  <2>1. \A i \in 1 .. n : brought[i] \in FilesFound
    BY <1>1
  <2> HIDE DEF n
  <2> QED
    BY <1>1, <2>1, SubSeqProperties
<1>3. WithRows(m, brought, query) = Brought(m, rows, Len(kept) >= RowLimit)
  BY DEF WithRows, Brought
<1> HIDE DEF kept
<1>4. rows = [i \in 1 .. Len(kept) |-> [file |-> kept[i], query |-> query]]
  BY DEF RowsOfSnapshot
<1>5. rows \in Seq(Rows) /\ Len(rows) = Len(kept) /\ \A i \in 1 .. Len(rows) : rows[i].query = query
  <2>1. \A i \in 1 .. Len(kept) : [file |-> kept[i], query |-> query] \in Rows
    BY <1>2 DEF Rows
  <2>2. rows \in [1 .. Len(kept) -> Rows]
    BY <1>4, <2>1
  <2> QED
    BY <1>2, <1>4, <2>2
<1> HIDE DEF rows
<1>6. (Len(kept) >= RowLimit) \in BOOLEAN
  OBVIOUS
<1> QED
  BY <1>3, <1>5, <1>6

(* A command that ends: the others go on.                                  *)
LEMMA CommandEnds ==
  ASSUME PlayInv, NEW i \in 1 .. Len(running), running' = RemoveAt(running, i)
  PROVE  /\ running' \in Seq(Queries \cup {"load"})
         /\ \A j \in 1 .. Len(running') : \E k \in 1 .. Len(running) \ {i} : running'[j] = running[k]
         /\ \A j \in 1 .. Len(running') : running'[j] # EmptyBox
         /\ \A j, k \in 1 .. Len(running') : running'[j] # "load" /\ running'[k] # "load" => j = k
         /\ \A k \in 1 .. Len(running) \ {i} : \E j \in 1 .. Len(running') : running'[j] = running[k]
<1>1. /\ running \in Seq(Queries \cup {"load"})
      /\ \A j \in 1 .. Len(running) : running[j] # EmptyBox
      /\ \A j, k \in 1 .. Len(running) : running[j] # "load" /\ running[k] # "load" => j = k
  BY DEF PlayInv, PlayTypes, CommandsOf
<1>2. /\ running' \in Seq(Queries \cup {"load"}) /\ Len(running') = Len(running) - 1
      /\ \A j \in 1 .. Len(running) - 1 :
           running'[j] = IF j < i THEN running[j] ELSE running[j + 1]
  BY <1>1, Without
<1> DEFINE Was(j) == IF j < i THEN j ELSE j + 1
<1>3. \A j \in 1 .. Len(running') : Was(j) \in 1 .. Len(running) \ {i} /\ running'[j] = running[Was(j)]
  BY <1>1, <1>2
<1>4. \A j, k \in 1 .. Len(running') : Was(j) = Was(k) => j = k
  BY <1>1, <1>2
<1>5. ASSUME NEW k \in 1 .. Len(running) \ {i}
      PROVE  \E j \in 1 .. Len(running') : running'[j] = running[k]
  <2>1. CASE k < i
    <3>1. k \in 1 .. Len(running') /\ running'[k] = running[k]
      BY <1>1, <1>2, <2>1
    <3> QED
      BY <3>1
  <2>2. CASE ~(k < i)
    <3>1. k - 1 \in 1 .. Len(running') /\ running'[k - 1] = running[k]
      BY <1>1, <1>2, <2>2
    <3> QED
      BY <3>1
  <2> QED
    BY <2>1, <2>2
<1> HIDE DEF Was
<1>6. ASSUME NEW j \in 1 .. Len(running'), NEW k \in 1 .. Len(running'),
             running'[j] # "load", running'[k] # "load"
      PROVE  j = k
  <2>1. Was(j) = Was(k)
    BY <1>1, <1>3, <1>6
  <2> QED
    BY <1>4, <2>1
<1>7. \A j \in 1 .. Len(running') :
        /\ \E k \in 1 .. Len(running) \ {i} : running'[j] = running[k]
        /\ running'[j] # EmptyBox
  BY <1>1, <1>3
<1> QED
  BY <1>2, <1>5, <1>6, <1>7

LEMMA EndedGood ==
  ASSUME PlayInv, NEW i \in 1 .. Len(running), running' = RemoveAt(running, i),
         NEW m \in Screens, Becomes(m), m.first = screen.first, Good(m),
         running[i] # "load" => m.searching = FALSE,
         running[i] = "load" => m.searching = screen.searching
  PROVE  PlayInv'
<1>1. /\ running' \in Seq(Queries \cup {"load"})
      /\ \A j \in 1 .. Len(running') : \E k \in 1 .. Len(running) \ {i} : running'[j] = running[k]
      /\ \A j \in 1 .. Len(running') : running'[j] # EmptyBox
      /\ \A j, k \in 1 .. Len(running') : running'[j] # "load" /\ running'[k] # "load" => j = k
      /\ \A k \in 1 .. Len(running) \ {i} : \E j \in 1 .. Len(running') : running'[j] = running[k]
  BY CommandEnds
<1>2. screen' = m
  BY DEF Becomes
<1>3. /\ screen.first # EmptyBox => \A j \in 1 .. Len(running) : running[j] # "load"
      /\ screen.searching <=> \E j \in 1 .. Len(running) : running[j] # "load"
      /\ \A j, k \in 1 .. Len(running) : running[j] # "load" /\ running[k] # "load" => j = k
  BY DEF PlayInv, CommandsOf
<1>4. screen'.first # EmptyBox => \A j \in 1 .. Len(running') : running'[j] # "load"
  BY <1>1, <1>2, <1>3
<1>5. screen'.searching <=> \E j \in 1 .. Len(running') : running'[j] # "load"
  <2>1. CASE running[i] = "load"
    <3>1. (\E j \in 1 .. Len(running) : running[j] # "load")
            <=> (\E j \in 1 .. Len(running') : running'[j] # "load")
      BY <1>1, <2>1
    <3>2. screen'.searching = screen.searching
      BY <1>2, <2>1
    <3> QED
      BY <1>3, <3>1, <3>2
  <2>2. CASE running[i] # "load"
    <3>1. \A k \in 1 .. Len(running) \ {i} : running[k] = "load"
      BY <1>3, <2>2
    <3> QED
      BY <1>1, <1>2, <2>2, <3>1
  <2> QED
    BY <2>1, <2>2
<1>6. CommandsOf'
  BY <1>1, <1>4, <1>5 DEF CommandsOf
<1> QED
  BY <1>1, <1>6, BecomesGood

LEMMA PlayLoadEnds ==
  ASSUME PlayInv, NEW i \in 1 .. Len(running), NEW brought \in Snapshots, NEW complete \in BOOLEAN,
         LoadEnds(i, brought, complete)
  PROVE  PlayInv'
<1> DEFINE w == WithRows(screen, brought, EmptyBox)
           m == [w EXCEPT !.loadErr = ~complete]
<1>1. /\ screen \in Screens /\ SelectionOf(screen) /\ KeysOf(screen)
      /\ running[i] = "load" /\ running' = RemoveAt(running, i) /\ Becomes(Refilter(m))
  BY DEF PlayInv, PlayTypes, LoadEnds
<1>2. screen.first = EmptyBox
  BY <1>1 DEF PlayInv, CommandsOf
<1>3. brought \in Seq(FilesFound)
  <2>1. brought \in Seq(Range(brought)) /\ Range(brought) \subseteq FilesFound
    BY PlayAssumption DEF FilesFound
  <2> QED
    BY <2>1
<1>4. PICK rows \in Seq(Rows), full \in BOOLEAN : w = Brought(screen, rows, full)
  BY <1>1, <1>3, RowsListed
<1> HIDE DEF w
<1>5. /\ m \in Screens
      /\ m.top = screen.top /\ m.resized = screen.resized /\ m.selected = screen.selected
      /\ m.height = screen.height /\ m.matched = screen.matched
      /\ m.cursor = screen.cursor /\ m.focus = screen.focus /\ m.panel = screen.panel
      /\ m.semantic = screen.semantic /\ m.first = screen.first /\ m.searching = screen.searching
  <2> DEFINE x == Brought(screen, rows, full)
  <2>1. /\ x \in Screens
        /\ x.top = screen.top /\ x.resized = screen.resized /\ x.selected = screen.selected
        /\ x.height = screen.height /\ x.matched = screen.matched
        /\ x.cursor = screen.cursor /\ x.focus = screen.focus /\ x.panel = screen.panel
        /\ x.semantic = screen.semantic /\ x.first = screen.first /\ x.searching = screen.searching
    BY <1>1 DEF Screens, Brought
  <2>2. m = [x EXCEPT !.loadErr = ~complete] /\ (~complete) \in BOOLEAN
    BY <1>4
  <2> HIDE DEF x, m
  <2> QED
    BY <2>1, <2>2 DEF Screens
<1> HIDE DEF m
<1>6. SelectionOf(m) /\ KeysOf(m) /\ ScoresOf(m)
  BY <1>1, <1>2, <1>5 DEF SelectionOf, KeysOf, ScoresOf
<1>7. Good(Refilter(m)) /\ Refilter(m).first = m.first /\ Refilter(m).searching = m.searching
  BY <1>5, <1>6, RefilterGood
<1> QED
  <2> DEFINE r == Refilter(m)
  <2>1. r \in Screens /\ Becomes(r) /\ r.first = screen.first /\ r.searching = screen.searching /\ Good(r)
    BY <1>1, <1>5, <1>7 DEF Good
  <2> HIDE DEF r
  <2> QED
    BY <1>1, <2>1, EndedGood

LEMMA PlaySearchFails ==
  ASSUME PlayInv, NEW i \in 1 .. Len(running), SearchFails(i)
  PROVE  PlayInv'
<1> DEFINE m == [screen EXCEPT !.searching = FALSE, !.loaded = TRUE, !.searchErr = TRUE]
<1>1. /\ screen \in Screens /\ Good(screen)
      /\ running[i] # "load" /\ running' = RemoveAt(running, i) /\ Becomes(m)
  BY DEF PlayInv, PlayTypes, SearchFails, Good
<1>2. /\ m \in Screens /\ m.searching = FALSE
      /\ m.top = screen.top /\ m.resized = screen.resized /\ m.selected = screen.selected
      /\ m.height = screen.height /\ m.matched = screen.matched /\ m.results = screen.results
      /\ m.badFilter = screen.badFilter /\ m.filter = screen.filter
      /\ m.hasSimilarity = screen.hasSimilarity
      /\ m.cursor = screen.cursor /\ m.focus = screen.focus /\ m.panel = screen.panel
      /\ m.semantic = screen.semantic /\ m.first = screen.first
  BY <1>1 DEF Screens
<1> HIDE DEF m
<1>3. Good(m)
  BY <1>1, <1>2 DEF Good, MatchesOf, SelectionOf, KeysOf, ScoresOf
<1> QED
  BY <1>1, <1>2, <1>3, EndedGood

LEMMA PlaySearchEnds ==
  ASSUME PlayInv, NEW i \in 1 .. Len(running), NEW brought \in Snapshots, SearchEnds(i, brought)
  PROVE  PlayInv'
<1> DEFINE near == NearestFirst(brought, running[i])
           w == WithRows(screen, near, running[i])
           m == [w EXCEPT !.searching = FALSE, !.searchErr = FALSE, !.hasSimilarity = TRUE]
<1>1. /\ screen \in Screens /\ SelectionOf(screen) /\ KeysOf(screen)
      /\ running[i] # "load" /\ running' = RemoveAt(running, i) /\ Becomes(Refilter(m))
  BY DEF PlayInv, PlayTypes, SearchEnds
<1>2. running[i] \in Queries /\ running[i] # EmptyBox
  <2>1. running \in Seq(Queries \cup {"load"}) /\ running[i] # EmptyBox
    BY DEF PlayInv, PlayTypes, CommandsOf
  <2> QED
    BY <1>1, <2>1
<1>3. near \in Seq(FilesFound)
  <2>1. brought \in Seq(Range(brought)) /\ Range(brought) \subseteq FilesFound
    BY PlayAssumption DEF FilesFound
  <2>2. brought \in Seq(FilesFound)
    BY <2>1
  <2> QED
    BY <2>2, NearestListed
<1> HIDE DEF near
<1>4. PICK rows \in Seq(Rows), full \in BOOLEAN :
        /\ w = Brought(screen, rows, full)
        /\ \A j \in 1 .. Len(rows) : rows[j].query # EmptyBox
  <2>1. running[i] \in Queries \cup {EmptyBox}
    BY <1>2
  <2>2. \E rows \in Seq(Rows), full \in BOOLEAN :
          /\ WithRows(screen, near, running[i]) = Brought(screen, rows, full)
          /\ \A j \in 1 .. Len(rows) : rows[j].query = running[i]
    BY <1>1, <1>3, <2>1, RowsListed
  <2> QED
    BY <1>2, <2>2
<1> HIDE DEF w
<1>5. /\ m \in Screens
      /\ m.top = screen.top /\ m.resized = screen.resized /\ m.selected = screen.selected
      /\ m.height = screen.height /\ m.matched = screen.matched
      /\ m.cursor = screen.cursor /\ m.focus = screen.focus /\ m.panel = screen.panel
      /\ m.semantic = screen.semantic /\ m.first = screen.first
      /\ m.searching = FALSE /\ m.hasSimilarity = TRUE /\ m.results = rows
  <2> DEFINE x == Brought(screen, rows, full)
  <2>1. /\ x \in Screens
        /\ x.top = screen.top /\ x.resized = screen.resized /\ x.selected = screen.selected
        /\ x.height = screen.height /\ x.matched = screen.matched
        /\ x.cursor = screen.cursor /\ x.focus = screen.focus /\ x.panel = screen.panel
        /\ x.semantic = screen.semantic /\ x.first = screen.first /\ x.results = rows
    BY <1>1 DEF Screens, Brought
  <2>2. m = [x EXCEPT !.searching = FALSE, !.searchErr = FALSE, !.hasSimilarity = TRUE]
    BY <1>4
  <2> HIDE DEF x, m
  <2> QED
    BY <2>1, <2>2 DEF Screens
<1> HIDE DEF m
<1>6. SelectionOf(m) /\ KeysOf(m) /\ ScoresOf(m)
  BY <1>1, <1>4, <1>5 DEF SelectionOf, KeysOf, ScoresOf
<1>7. Good(Refilter(m)) /\ Refilter(m).first = m.first /\ Refilter(m).searching = m.searching
  BY <1>5, <1>6, RefilterGood
<1> QED
  <2> DEFINE r == Refilter(m)
  <2>1. r \in Screens /\ Becomes(r) /\ r.first = screen.first /\ r.searching = FALSE /\ Good(r)
    BY <1>1, <1>5, <1>7 DEF Good
  <2> HIDE DEF r
  <2> QED
    BY <1>1, <2>1, EndedGood

(* A message that neither begins nor ends a command.                       *)
LEMMA StaysGood ==
  ASSUME PlayInv, UNCHANGED running, NEW m \in Screens, Becomes(m), Good(m),
         m.first = screen.first, m.searching = screen.searching
  PROVE  PlayInv'
<1>1. screen' = m /\ running' = running /\ CommandsOf /\ running \in Seq(Queries \cup {"load"})
  BY DEF Becomes, PlayInv, PlayTypes
<1>2. CommandsOf'
  BY <1>1 DEF CommandsOf
<1> QED
  BY <1>1, <1>2, BecomesGood

LEMMA PlayResize ==
  ASSUME PlayInv, NEW h \in Heights, Resize(h)
  PROVE  PlayInv'
<1> DEFINE m == [screen EXCEPT !.height = h, !.resized = TRUE]
<1>1. screen \in Screens /\ Good(screen) /\ Becomes(m) /\ UNCHANGED running
  BY DEF PlayInv, PlayTypes, Resize, Good
<1>2. /\ m \in Screens /\ m.resized = TRUE
      /\ m.top = screen.top /\ m.selected = screen.selected
      /\ m.matched = screen.matched /\ m.results = screen.results
      /\ m.badFilter = screen.badFilter /\ m.filter = screen.filter
      /\ m.hasSimilarity = screen.hasSimilarity
      /\ m.cursor = screen.cursor /\ m.focus = screen.focus /\ m.panel = screen.panel
      /\ m.semantic = screen.semantic /\ m.first = screen.first /\ m.searching = screen.searching
  BY <1>1 DEF Screens
<1> HIDE DEF m
<1>3. Good(m)
  BY <1>1, <1>2 DEF Good, MatchesOf, SelectionOf, KeysOf, ScoresOf
<1> QED
  BY <1>1, <1>2, <1>3, StaysGood

LEMMA PlayEnter ==
  ASSUME PlayInv, Enter
  PROVE  PlayInv'
<1>1. CASE CloseScreen
  BY <1>1 DEF CloseScreen, PlayInv, PlayTypes, CommandsOf
<1>2. CASE ~CloseScreen
  <2> DEFINE m == [screen EXCEPT !.searching = TRUE, !.searchErr = FALSE]
  <2>1. /\ screen \in Screens /\ Good(screen) /\ Becomes(m)
        /\ screen.query # EmptyBox /\ ~screen.searching /\ screen.semantic
        /\ running' = Append(running, screen.query)
    BY <1>2 DEF PlayInv, PlayTypes, Enter, Good
  <2>2. /\ m \in Screens /\ m.resized = screen.resized
        /\ m.top = screen.top /\ m.selected = screen.selected /\ m.height = screen.height
        /\ m.matched = screen.matched /\ m.results = screen.results
        /\ m.badFilter = screen.badFilter /\ m.filter = screen.filter
        /\ m.hasSimilarity = screen.hasSimilarity
        /\ m.cursor = screen.cursor /\ m.focus = screen.focus /\ m.panel = screen.panel
        /\ m.semantic = screen.semantic /\ m.first = screen.first /\ m.searching = TRUE
    BY <2>1 DEF Screens
  <2> HIDE DEF m
  <2>3. Good(m)
    BY <2>1, <2>2 DEF Good, MatchesOf, SelectionOf, KeysOf, ScoresOf
  <2>4. screen.query \in Queries /\ running \in Seq(Queries \cup {"load"})
    BY <2>1 DEF Screens, PlayInv, PlayTypes
  <2>5. /\ running' \in Seq(Queries \cup {"load"}) /\ Len(running') = Len(running) + 1
        /\ \A i \in 1 .. Len(running) : running'[i] = running[i]
        /\ running'[Len(running) + 1] = screen.query
        /\ Len(running) \in Nat /\ screen.query # "load"
    BY <2>1, <2>4, PlayAssumption, AppendProperties
  <2>6. screen' = m
    BY <2>1 DEF Becomes
  <2>7. \A i \in 1 .. Len(running) : running[i] = "load" /\ running[i] # EmptyBox
    BY <2>1 DEF PlayInv, CommandsOf
  <2>8. screen'.first = EmptyBox \/ Len(running) = 0
    BY <2>2, <2>5, <2>6, <2>7 DEF PlayInv, CommandsOf
  <2>9. \A i \in 1 .. Len(running') :
          running'[i] # EmptyBox /\ (running'[i] # "load" <=> i = Len(running) + 1)
    BY <2>1, <2>5, <2>7
  <2>10. Len(running') \in 1 .. Len(running')
    BY <2>5
  <2>11. screen'.first # EmptyBox => \A i \in 1 .. Len(running') : running'[i] # "load"
    BY <2>5, <2>8, <2>9
  <2>12. (\E i \in 1 .. Len(running') : running'[i] # "load") /\ screen'.searching = TRUE
    BY <2>2, <2>5, <2>6, <2>9, <2>10
  <2>13. CommandsOf'
    BY <2>9, <2>11, <2>12 DEF CommandsOf
  <2> QED
    BY <2>1, <2>3, <2>5, <2>13, BecomesGood
<1> QED
  BY <1>1, <1>2

LEMMA PlayToggleAttrs ==
  ASSUME PlayInv, ToggleAttrs
  PROVE  PlayInv'
<1> DEFINE to == IF ~screen.panel THEN "attrs" ELSE IF screen.semantic THEN "query" ELSE "filter"
           x == [screen EXCEPT !.panel = ~screen.panel, !.focus = to]
           m == ApplyFocus(x)
<1>1. screen \in Screens /\ Good(screen) /\ Becomes(m) /\ UNCHANGED running
  BY DEF PlayInv, PlayTypes, ToggleAttrs, Good
<1>2. screen.panel \in BOOLEAN /\ screen.semantic \in BOOLEAN
  BY <1>1 DEF Screens
<1>3. /\ x \in Screens /\ x.resized = screen.resized
      /\ x.top = screen.top /\ x.selected = screen.selected /\ x.height = screen.height
      /\ x.matched = screen.matched /\ x.results = screen.results
      /\ x.badFilter = screen.badFilter /\ x.filter = screen.filter
      /\ x.hasSimilarity = screen.hasSimilarity
      /\ x.focus = to /\ (x.panel <=> ~screen.panel)
      /\ x.semantic = screen.semantic /\ x.first = screen.first /\ x.searching = screen.searching
  <2>1. to \in {"query", "filter", "attrs"} /\ (~screen.panel) \in BOOLEAN
    OBVIOUS
  <2> HIDE DEF to
  <2> QED
    BY <1>1, <2>1 DEF Screens
<1> HIDE DEF x
<1>4. /\ m \in Screens /\ m.resized = screen.resized
      /\ m.top = screen.top /\ m.selected = screen.selected /\ m.height = screen.height
      /\ m.matched = screen.matched /\ m.results = screen.results
      /\ m.badFilter = screen.badFilter /\ m.filter = screen.filter
      /\ m.hasSimilarity = screen.hasSimilarity
      /\ m.focus = x.focus /\ m.panel = x.panel /\ m.cursor = {x.focus} \ {"attrs"}
      /\ m.semantic = screen.semantic /\ m.first = screen.first /\ m.searching = screen.searching
  <2>1. x.focus \in {"query", "filter", "attrs"}
    BY <1>3 DEF Screens
  <2>2. {x.focus} \ {"attrs"} \in SUBSET {"query", "filter"}
    BY <2>1
  <2>3. m = [x EXCEPT !.cursor = {x.focus} \ {"attrs"}]
    BY DEF ApplyFocus
  <2> QED
    BY <1>3, <2>2, <2>3 DEF Screens
<1> HIDE DEF m
<1>5. MatchesOf(m) /\ SelectionOf(m) /\ ScoresOf(m)
  BY <1>1, <1>4 DEF Good, MatchesOf, SelectionOf, ScoresOf
<1>6. KeysOf(m)
  BY <1>2, <1>3, <1>4 DEF KeysOf
<1> QED
  BY <1>1, <1>4, <1>5, <1>6, StaysGood DEF Good

LEMMA PlayCycleFocus ==
  ASSUME PlayInv, CycleFocus
  PROVE  PlayInv'
<1> DEFINE ring == (IF screen.semantic THEN <<"query">> ELSE <<>>) \o <<"filter">>
                    \o (IF screen.panel THEN <<"attrs">> ELSE <<>>)
           row == SelectInSeq(ring, LAMBDA f : f = screen.focus)
           to == ring[1 + (Most(row, 1) % Len(ring))]
           x == [screen EXCEPT !.focus = to]
           m == ApplyFocus(x)
<1>1. screen \in Screens /\ Good(screen) /\ Becomes(m) /\ UNCHANGED running
  BY DEF PlayInv, PlayTypes, CycleFocus, Good
<1>2. screen.panel \in BOOLEAN /\ screen.semantic \in BOOLEAN
  BY <1>1 DEF Screens
<1>3. /\ Len(ring) \in Nat \ {0}
      /\ \A i \in 1 .. Len(ring) :
           /\ ring[i] \in {"query", "filter", "attrs"}
           /\ ring[i] = "query" => screen.semantic
           /\ ring[i] = "attrs" => screen.panel
  <2>1. CASE screen.semantic /\ screen.panel
    <3>1. ring = <<"query">> \o <<"filter">> \o <<"attrs">>
      BY <2>1
    <3> HIDE DEF ring
    <3> QED
      BY <2>1, <3>1
  <2>2. CASE screen.semantic /\ ~screen.panel
    <3>1. ring = <<"query">> \o <<"filter">> \o <<>>
      BY <2>2
    <3> HIDE DEF ring
    <3> QED
      BY <2>2, <3>1
  <2>3. CASE ~screen.semantic /\ screen.panel
    <3>1. ring = <<>> \o <<"filter">> \o <<"attrs">>
      BY <2>3
    <3> HIDE DEF ring
    <3> QED
      BY <2>3, <3>1
  <2>4. CASE ~screen.semantic /\ ~screen.panel
    <3>1. ring = <<>> \o <<"filter">> \o <<>>
      BY <2>4
    <3> HIDE DEF ring
    <3> QED
      BY <2>4, <3>1
  <2> QED
    BY <1>2, <2>1, <2>2, <2>3, <2>4
<1> HIDE DEF ring
<1>4. row \in Nat
  <2> DEFINE I == {i \in 1 .. Len(ring) : ring[i] = screen.focus}
  <2>1. row = IF I # {} THEN Min(I) ELSE 0
    BY DEF SelectInSeq
  <2>2. I # {} => Min(I) \in I
    <3>1. I \subseteq Nat
      OBVIOUS
    <3> HIDE DEF I
    <3> QED
      BY <3>1, LeastNat
  <2> QED
    BY <2>1, <2>2
<1> HIDE DEF row
<1>5. /\ to \in {"query", "filter", "attrs"}
      /\ to = "query" => screen.semantic
      /\ to = "attrs" => screen.panel
  <2>1. Most(row, 1) \in Nat
    BY <1>4 DEF Most
  <2>2. Most(row, 1) % Len(ring) \in 0 .. Len(ring) - 1
    BY <1>3, <2>1
  <2>3. 1 + (Most(row, 1) % Len(ring)) \in 1 .. Len(ring)
    BY <1>3, <2>2
  <2> QED
    BY <1>3, <2>3
<1> HIDE DEF to
<1>6. /\ x \in Screens /\ x.resized = screen.resized
      /\ x.top = screen.top /\ x.selected = screen.selected /\ x.height = screen.height
      /\ x.matched = screen.matched /\ x.results = screen.results
      /\ x.badFilter = screen.badFilter /\ x.filter = screen.filter
      /\ x.hasSimilarity = screen.hasSimilarity
      /\ x.focus = to /\ x.panel = screen.panel
      /\ x.semantic = screen.semantic /\ x.first = screen.first /\ x.searching = screen.searching
  BY <1>1, <1>5 DEF Screens
<1> HIDE DEF x
<1>7. /\ m \in Screens /\ m.resized = screen.resized
      /\ m.top = screen.top /\ m.selected = screen.selected /\ m.height = screen.height
      /\ m.matched = screen.matched /\ m.results = screen.results
      /\ m.badFilter = screen.badFilter /\ m.filter = screen.filter
      /\ m.hasSimilarity = screen.hasSimilarity
      /\ m.focus = to /\ m.panel = screen.panel /\ m.cursor = {to} \ {"attrs"}
      /\ m.semantic = screen.semantic /\ m.first = screen.first /\ m.searching = screen.searching
  <2>1. {to} \ {"attrs"} \in SUBSET {"query", "filter"}
    BY <1>5
  <2>2. m = [x EXCEPT !.cursor = {to} \ {"attrs"}]
    BY <1>6 DEF ApplyFocus
  <2> QED
    BY <1>6, <2>1, <2>2 DEF Screens
<1> HIDE DEF m
<1>8. MatchesOf(m) /\ SelectionOf(m) /\ ScoresOf(m)
  BY <1>1, <1>7 DEF Good, MatchesOf, SelectionOf, ScoresOf
<1>9. KeysOf(m)
  BY <1>5, <1>7 DEF KeysOf
<1> QED
  BY <1>1, <1>7, <1>8, <1>9, StaysGood DEF Good

LEMMA PlayNavigate ==
  ASSUME PlayInv, NEW delta \in Int, Navigate(delta)
  PROVE  PlayInv'
<1>1. screen \in Screens /\ Good(screen) /\ Becomes(MoveBy(screen, delta)) /\ UNCHANGED running
  BY DEF PlayInv, PlayTypes, Navigate, Good
<1> DEFINE m == MoveBy(screen, delta)
<1>2. m \in Screens /\ Good(m) /\ m.first = screen.first /\ m.searching = screen.searching
  BY <1>1, MoveGood DEF Good
<1> HIDE DEF m
<1> QED
  BY <1>1, <1>2, StaysGood DEF m

LEMMA PlayTypeQuery ==
  ASSUME PlayInv, NEW q \in Queries, TypeQuery(q)
  PROVE  PlayInv'
<1> DEFINE m == [screen EXCEPT !.query = q]
<1>1. screen \in Screens /\ Good(screen) /\ Becomes(m) /\ UNCHANGED running
  BY DEF PlayInv, PlayTypes, TypeQuery, Good
<1>2. /\ m \in Screens /\ m.resized = screen.resized
      /\ m.top = screen.top /\ m.selected = screen.selected /\ m.height = screen.height
      /\ m.matched = screen.matched /\ m.results = screen.results
      /\ m.badFilter = screen.badFilter /\ m.filter = screen.filter
      /\ m.hasSimilarity = screen.hasSimilarity
      /\ m.cursor = screen.cursor /\ m.focus = screen.focus /\ m.panel = screen.panel
      /\ m.semantic = screen.semantic /\ m.first = screen.first /\ m.searching = screen.searching
  BY <1>1 DEF Screens
<1> HIDE DEF m
<1>3. Good(m)
  BY <1>1, <1>2 DEF Good, MatchesOf, SelectionOf, KeysOf, ScoresOf
<1> QED
  BY <1>1, <1>2, <1>3, StaysGood

LEMMA PlayTypeFilter ==
  ASSUME PlayInv, NEW f \in Filters, TypeFilter(f)
  PROVE  PlayInv'
<1> DEFINE m == [screen EXCEPT !.filter = f]
           r == Refilter(m)
<1>1. screen \in Screens /\ Good(screen) /\ Becomes(r) /\ UNCHANGED running
  BY DEF PlayInv, PlayTypes, TypeFilter, Good
<1>2. /\ m \in Screens /\ m.resized = screen.resized
      /\ m.top = screen.top /\ m.selected = screen.selected /\ m.height = screen.height
      /\ m.matched = screen.matched /\ m.results = screen.results
      /\ m.hasSimilarity = screen.hasSimilarity
      /\ m.cursor = screen.cursor /\ m.focus = screen.focus /\ m.panel = screen.panel
      /\ m.semantic = screen.semantic /\ m.first = screen.first /\ m.searching = screen.searching
  BY <1>1 DEF Screens
<1> HIDE DEF m
<1>3. SelectionOf(m) /\ KeysOf(m) /\ ScoresOf(m)
  BY <1>1, <1>2 DEF Good, SelectionOf, KeysOf, ScoresOf
<1>4. r \in Screens /\ Good(r) /\ r.first = screen.first /\ r.searching = screen.searching
  BY <1>2, <1>3, RefilterGood DEF Good
<1> HIDE DEF r
<1> QED
  BY <1>1, <1>4, StaysGood

-----------------------------------------------------------------------------
LEMMA PlayStepInv == PlayInv /\ [PlayNext]_playVars => PlayInv'
<1> SUFFICES ASSUME PlayInv, [PlayNext]_playVars PROVE PlayInv'
  OBVIOUS
<1>1. ASSUME NEW i \in 1 .. Len(running), NEW brought \in Snapshots, NEW complete \in BOOLEAN,
             LoadEnds(i, brought, complete)
      PROVE  PlayInv'
  BY <1>1, PlayLoadEnds
<1>2. ASSUME NEW i \in 1 .. Len(running), NEW brought \in Snapshots, SearchEnds(i, brought)
      PROVE  PlayInv'
  BY <1>2, PlaySearchEnds
<1>3. ASSUME NEW i \in 1 .. Len(running), SearchFails(i) PROVE PlayInv'
  BY <1>3, PlaySearchFails
<1>4. ASSUME NEW h \in Heights, Resize(h) PROVE PlayInv'
  BY <1>4, PlayResize
<1>5. CASE CloseScreen
  BY <1>5 DEF CloseScreen, PlayInv, PlayTypes, CommandsOf
<1>6. CASE Enter \/ ToggleAttrs \/ CycleFocus
  BY <1>6, PlayEnter, PlayToggleAttrs, PlayCycleFocus
<1>7. ASSUME NEW delta \in {-1, 1, -screen.height, screen.height}, Navigate(delta) PROVE PlayInv'
  <2>1. screen.height \in Nat
    BY PlayAssumption DEF PlayInv, PlayTypes, Screens
  <2>2. delta \in Int
    BY <2>1
  <2> QED
    BY <1>7, <2>2, PlayNavigate
<1>8. ASSUME NEW q \in Queries, TypeQuery(q) PROVE PlayInv'
  BY <1>8, PlayTypeQuery
<1>9. ASSUME NEW f \in Filters, TypeFilter(f) PROVE PlayInv'
  BY <1>9, PlayTypeFilter
<1>10. CASE UNCHANGED playVars
  BY <1>10 DEF playVars, PlayInv, PlayTypes, CommandsOf
<1> QED
  BY <1>1, <1>2, <1>3, <1>4, <1>5, <1>6, <1>7, <1>8, <1>9, <1>10 DEF PlayNext

(* Any snapshots, filters, queries and heights, messages in any ring: the *)
(* screen shows the rows the filter holds of, one of them is selected and  *)
(* in view, keys go where the cursor is, one search runs at a time; and    *)
(* drawing fails only over a filter that does not compile.                 *)
THEOREM PlaygroundTold == PlaySpec => []PlaygroundExact
<1>1. PlayInv => PlaygroundExact
  <2> SUFFICES ASSUME PlayInv PROVE PlaygroundExact
    OBVIOUS
  <2>1. MatchesShown
    <3>1. screen.badFilter \in BOOLEAN
      BY DEF PlayInv, PlayTypes, Screens
    <3> QED
      BY <3>1 DEF PlayInv, MatchesOf, MatchesShown
  <2>2. SelectionInView
    <3>1. /\ screen.selected \in Nat /\ screen.top \in Nat /\ screen.height \in Nat
          /\ screen.matched \in Seq(Nat)
      BY PlayAssumption DEF PlayInv, PlayTypes, Screens
    <3>2. Most(0, Len(screen.matched) - 1) \in Nat
      BY <3>1 DEF Most
    <3> QED
      BY <3>1, <3>2 DEF PlayInv, SelectionOf, SelectionInView
  <2>3. KeysGoSomewhere
    BY DEF PlayInv, KeysOf, KeysGoSomewhere
  <2>4. SearchesShown
    BY DEF PlayInv, ScoresOf, CommandsOf, SearchesShown
  <2> QED
    BY <2>1, <2>2, <2>3, <2>4 DEF PlaygroundExact
<1> QED
  BY <1>1, PlayInitInv, PlayStepInv, PTL DEF PlaySpec

-----------------------------------------------------------------------------
(* Pages.  The order of two files, by their values and paths, in a         *)
(* direction: what both paginators sort and resume by.                     *)
Turned(ord, c) == IF ord = "desc" THEN -c ELSE c
Precedes(ord, v, p, w, q) ==
  LET c == Turned(ord, CmpCursorVal(v, w))
  IN  c < 0 \/ (c = 0 /\ p < q)

LEMMA ValuesCompare ==
  ASSUME NEW ord
  PROVE  /\ \A v, w \in SortVals :
              /\ Turned(ord, CmpCursorVal(v, w)) \in {-1, 0, 1}
              /\ Turned(ord, CmpCursorVal(v, w)) = -Turned(ord, CmpCursorVal(w, v))
         /\ \A v \in SortVals : Turned(ord, CmpCursorVal(v, v)) = 0
         /\ \A v, w, x \in SortVals :
              /\ Turned(ord, CmpCursorVal(v, w)) = 0 =>
                   Turned(ord, CmpCursorVal(v, x)) = Turned(ord, CmpCursorVal(w, x))
              /\ Turned(ord, CmpCursorVal(v, w)) < 0 /\ Turned(ord, CmpCursorVal(w, x)) < 0 =>
                   Turned(ord, CmpCursorVal(v, x)) < 0
<1>1. \A v \in SortVals : KindRank(v) \in Int /\ v.n \in Int /\ (v.kind = "nil" <=> KindRank(v) = 3)
  BY PagingAssumption DEF KindRank
<1>2. \A v, w \in SortVals :
        CmpCursorVal(v, w) = IF KindRank(v) # KindRank(w) THEN Sign(KindRank(v), KindRank(w))
                             ELSE IF KindRank(v) = 3 THEN 0 ELSE Sign(v.n, w.n)
  BY <1>1 DEF CmpCursorVal
<1>3. \A v, w \in SortVals : CmpCursorVal(v, w) \in {-1, 0, 1} /\ CmpCursorVal(v, w) = -CmpCursorVal(w, v)
  BY <1>1, <1>2 DEF Sign
<1>4. \A v \in SortVals : CmpCursorVal(v, v) = 0
  BY <1>1, <1>2 DEF Sign
<1>5. ASSUME NEW v \in SortVals, NEW w \in SortVals, NEW x \in SortVals
      PROVE  /\ CmpCursorVal(v, w) = 0 => CmpCursorVal(v, x) = CmpCursorVal(w, x)
             /\ CmpCursorVal(v, w) < 0 /\ CmpCursorVal(w, x) < 0 => CmpCursorVal(v, x) < 0
  <2>1. /\ KindRank(v) \in Int /\ KindRank(w) \in Int /\ KindRank(x) \in Int
        /\ v.n \in Int /\ w.n \in Int /\ x.n \in Int
    BY <1>1
  <2> DEFINE C(a, b) == IF KindRank(a) # KindRank(b) THEN Sign(KindRank(a), KindRank(b))
                        ELSE IF KindRank(a) = 3 THEN 0 ELSE Sign(a.n, b.n)
  <2>2. /\ CmpCursorVal(v, w) = C(v, w) /\ CmpCursorVal(w, x) = C(w, x)
        /\ CmpCursorVal(v, x) = C(v, x)
    BY <1>2
  <2>3. C(v, w) = 0 => C(v, x) = C(w, x)
    BY <2>1 DEF Sign
  <2>4. C(v, w) < 0 /\ C(w, x) < 0 => C(v, x) < 0
    BY <2>1 DEF Sign
  <2> QED
    BY <2>2, <2>3, <2>4
<1>6. ASSUME NEW v \in SortVals, NEW w \in SortVals, NEW x \in SortVals,
             CmpCursorVal(v, w) > 0, CmpCursorVal(w, x) > 0
      PROVE  CmpCursorVal(v, x) > 0
  <2>1. /\ CmpCursorVal(w, v) \in Int /\ CmpCursorVal(x, w) \in Int /\ CmpCursorVal(x, v) \in Int
        /\ CmpCursorVal(v, w) = -CmpCursorVal(w, v) /\ CmpCursorVal(w, x) = -CmpCursorVal(x, w)
        /\ CmpCursorVal(v, x) = -CmpCursorVal(x, v)
    BY <1>3
  <2> QED
    BY <1>5, <1>6, <2>1
<1>7. CASE ord # "desc"
  BY <1>3, <1>4, <1>5, <1>7 DEF Turned
<1>8. CASE ord = "desc"
  <2>1. \A v, w \in SortVals : Turned(ord, CmpCursorVal(v, w)) = -CmpCursorVal(v, w)
    BY <1>8 DEF Turned
  <2>2. \A v, w \in SortVals : -CmpCursorVal(v, w) \in {-1, 0, 1} /\ -CmpCursorVal(v, w) = -(-CmpCursorVal(w, v))
    BY <1>3
  <2>3. \A v, w, x \in SortVals :
          /\ -CmpCursorVal(v, w) = 0 => -CmpCursorVal(v, x) = -CmpCursorVal(w, x)
          /\ -CmpCursorVal(v, w) < 0 /\ -CmpCursorVal(w, x) < 0 => -CmpCursorVal(v, x) < 0
    BY <1>3, <1>5, <1>6
  <2>4. \A v \in SortVals : -CmpCursorVal(v, v) = 0
    BY <1>4
  <2> QED
    BY <2>1, <2>2, <2>3, <2>4
<1> QED
  BY <1>7, <1>8

(* A strict total order of the files.                                      *)
LEMMA PrecedesOrders ==
  ASSUME NEW ord
  PROVE  /\ \A v, w \in SortVals, p, q \in Nat :
              /\ ~ (Precedes(ord, v, p, w, q) /\ Precedes(ord, w, q, v, p))
              /\ p # q => Precedes(ord, v, p, w, q) \/ Precedes(ord, w, q, v, p)
         /\ \A v, w, x \in SortVals, p, q, r \in Nat :
              Precedes(ord, v, p, w, q) /\ Precedes(ord, w, q, x, r) => Precedes(ord, v, p, x, r)
<1> DEFINE D(v, w) == Turned(ord, CmpCursorVal(v, w))
<1>1. /\ \A v, w \in SortVals : D(v, w) \in {-1, 0, 1} /\ D(v, w) = -D(w, v)
      /\ \A v, w, x \in SortVals : /\ D(v, w) = 0 => D(v, x) = D(w, x)
                                   /\ D(v, w) < 0 /\ D(w, x) < 0 => D(v, x) < 0
  BY ValuesCompare
<1>2. \A v, w \in SortVals, p, q \in Nat :
        Precedes(ord, v, p, w, q) <=> D(v, w) < 0 \/ (D(v, w) = 0 /\ p < q)
  BY DEF Precedes
<1> HIDE DEF D
<1>3. \A v, w \in SortVals, p, q \in Nat :
        /\ ~ (Precedes(ord, v, p, w, q) /\ Precedes(ord, w, q, v, p))
        /\ p # q => Precedes(ord, v, p, w, q) \/ Precedes(ord, w, q, v, p)
  <2> TAKE v \in SortVals, w \in SortVals, p \in Nat, q \in Nat
  <2>1. D(v, w) \in {-1, 0, 1} /\ D(v, w) = -D(w, v) /\ D(w, v) \in {-1, 0, 1}
    BY <1>1
  <2> QED
    BY <1>2, <2>1
<1>4. \A v, w, x \in SortVals, p, q, r \in Nat :
        Precedes(ord, v, p, w, q) /\ Precedes(ord, w, q, x, r) => Precedes(ord, v, p, x, r)
  <2> TAKE v \in SortVals, w \in SortVals, x \in SortVals, p \in Nat, q \in Nat, r \in Nat
  <2>1. D(v, w) \in {-1, 0, 1} /\ D(w, x) \in {-1, 0, 1} /\ D(v, x) \in {-1, 0, 1}
        /\ D(x, w) \in {-1, 0, 1} /\ D(w, v) \in {-1, 0, 1} /\ D(x, v) \in {-1, 0, 1}
        /\ D(w, v) = -D(v, w) /\ D(x, w) = -D(w, x) /\ D(x, v) = -D(v, x)
    BY <1>1
  <2>2. /\ D(v, w) = 0 => D(v, x) = D(w, x)
        /\ D(w, x) = 0 => D(x, v) = D(w, v)
        /\ D(v, w) < 0 /\ D(w, x) < 0 => D(v, x) < 0
    <3>1. D(x, w) = 0 => D(x, v) = D(w, v)
      BY <1>1
    <3> QED
      BY <1>1, <2>1, <3>1
  <2> QED
    BY <1>2, <2>1, <2>2
<1> QED
  BY <1>3, <1>4

(* Both ways of comparing: PaginateGeneric's tuples come to the same.      *)
LEMMA TuplesCompare ==
  ASSUME NEW v \in SortVals, NEW w \in SortVals, NEW p \in Nat, NEW q \in Nat
  PROVE  /\ CmpItems(v, p, w, q) < 0 <=> Precedes(order, v, p, w, q)
         /\ CmpItems(v, p, w, q) > 0 <=> Precedes(order, w, q, v, p)
<1> DEFINE a == KeyOf(v, p)
           b == KeyOf(w, q)
           d == Turned(order, CmpCursorVal(v, w))
           c == [i \in DOMAIN a |-> IF <<order, "asc">>[i] = "desc" THEN -CmpCursorVal(a[i], b[i])
                                                                    ELSE CmpCursorVal(a[i], b[i])]
           apart == {i \in DOMAIN a : c[i] # 0}
<1>1. DOMAIN a = {1, 2} /\ a[1] = v /\ b[1] = w
      /\ a[2] = [kind |-> "str", n |-> p] /\ b[2] = [kind |-> "str", n |-> q]
  <2>1. DOMAIN a = 1 .. 2
    BY DEF KeyOf
  <2>2. 1 .. 2 = {1, 2}
    OBVIOUS
  <2> QED
    BY <2>1, <2>2 DEF KeyOf
<1>2. CmpItems(v, p, w, q) = IF apart = {} THEN 0 ELSE c[Min(apart)]
  BY DEF CmpItems, CmpKeyVals
<1>3. c[1] = d
  BY <1>1 DEF Turned
<1>4. c[2] = Sign(p, q)
  <2>1. CmpCursorVal(a[2], b[2]) = Sign(p, q)
    BY <1>1 DEF CmpCursorVal, KindRank
  <2> QED
    BY <1>1, <2>1
<1>5. d \in {-1, 0, 1} /\ d = -Turned(order, CmpCursorVal(w, v))
      /\ Turned(order, CmpCursorVal(w, v)) \in {-1, 0, 1}
  BY ValuesCompare
<1>6. CmpItems(v, p, w, q) = IF d # 0 THEN d ELSE Sign(p, q)
  <2>1. apart = {i \in {1, 2} : c[i] # 0}
    BY <1>1
  <2> HIDE DEF c, d, apart
  <2>2. CASE d # 0
    <3>1. apart \subseteq Nat /\ 1 \in apart /\ \A i \in apart : i >= 1
      BY <1>3, <2>1, <2>2
    <3>2. Min(apart) \in apart /\ Min(apart) <= 1
      BY <3>1, LeastNat
    <3>3. Min(apart) = 1
      <4>1. Min(apart) \in Nat /\ Min(apart) >= 1
        BY <3>1, <3>2
      <4> QED
        BY <3>2, <4>1
    <3> QED
      BY <1>2, <1>3, <2>2, <3>1, <3>3
  <2>3. CASE d = 0 /\ Sign(p, q) # 0
    <3>1. apart = {2}
      BY <1>3, <1>4, <2>1, <2>3
    <3>2. Min(apart) \in apart
      BY <3>1, LeastNat
    <3> QED
      BY <1>2, <1>4, <2>3, <3>1, <3>2
  <2>4. CASE d = 0 /\ Sign(p, q) = 0
    <3>1. apart = {}
      BY <1>3, <1>4, <2>1, <2>4
    <3> QED
      BY <1>2, <2>4, <3>1
  <2> QED
    BY <2>2, <2>3, <2>4
<1> DEFINE e == Turned(order, CmpCursorVal(w, v))
<1>7. /\ Precedes(order, v, p, w, q) <=> d < 0 \/ (d = 0 /\ p < q)
      /\ Precedes(order, w, q, v, p) <=> e < 0 \/ (e = 0 /\ q < p)
  BY DEF Precedes
<1> HIDE DEF d, e
<1>8. d \in {-1, 0, 1} /\ e \in {-1, 0, 1} /\ d = -e
  BY <1>5 DEF e
<1> QED
  BY <1>6, <1>7, <1>8 DEF Sign

-----------------------------------------------------------------------------
PageTypes ==
  /\ tree \in [FilePaths -> SortVals \cup {Absent}]
  /\ pages \in Seq(FilePaths) /\ ended \in BOOLEAN /\ stable \subseteq Existing
  /\ token # NoToken => token.val \in SortVals /\ token.path \in FilePaths

Returned(p) == \E i \in 1 .. Len(pages) : pages[i] = p

(* A file that stayed as it was has been returned if its place is not      *)
(* beyond the cursor, and only then.                                       *)
UpToToken ==
  \A p \in stable : Returned(p) <=> ended \/ (token # NoToken /\ ~AfterCursor(p, token))
OnceInOrder ==
  \A i, j \in 1 .. Len(pages) :
    pages[i] \in stable /\ pages[j] \in stable =>
      /\ pages[i] = pages[j] => i = j
      /\ Before(pages[i], pages[j]) => i < j
PageInv == PageTypes /\ UpToToken /\ OnceInOrder

LEMMA ExistingValues ==
  ASSUME PageTypes
  PROVE  /\ \A p \in Existing : tree[p] \in SortVals /\ p \in FilePaths /\ p \in Nat
         /\ IsFiniteSet(Existing) /\ Cardinality(Existing) \in Nat
<1>1. Existing \subseteq FilePaths /\ \A p \in Existing : tree[p] \in SortVals
  BY DEF PageTypes, Existing
<1>2. IsFiniteSet(Existing)
  BY <1>1, PagingAssumption, FS_Subset
<1> QED
  BY <1>1, <1>2, PagingAssumption, FS_CardinalityType

LEMMA AfterIs ==
  ASSUME PageTypes, NEW p \in Existing, NEW cur, cur.val \in SortVals, cur.path \in Nat
  PROVE  AfterCursor(p, cur) <=> Precedes(order, cur.val, cur.path, tree[p], p)
<1>1. tree[p] \in SortVals /\ p \in Nat
  BY ExistingValues
<1>2. CmpItems(tree[p], p, cur.val, cur.path) > 0 <=> Precedes(order, cur.val, cur.path, tree[p], p)
  BY <1>1, TuplesCompare
<1> DEFINE c == Turned(order, CmpCursorVal(tree[p], cur.val))
           d == Turned(order, CmpCursorVal(cur.val, tree[p]))
<1>3. c \in {-1, 0, 1} /\ d \in {-1, 0, 1} /\ d = -c
  BY <1>1, ValuesCompare
<1>4. AfterCursor(p, cur) <=>
        IF generic THEN CmpItems(tree[p], p, cur.val, cur.path) > 0
                   ELSE c > 0 \/ (c = 0 /\ p > cur.path)
  BY DEF AfterCursor, Directed, Turned
<1>5. Precedes(order, cur.val, cur.path, tree[p], p) <=> d < 0 \/ (d = 0 /\ cur.path < p)
  BY DEF Precedes
<1> HIDE DEF c, d
<1> QED
  BY <1>1, <1>2, <1>3, <1>4, <1>5

LEMMA BeforeIs ==
  ASSUME PageTypes
  PROVE  /\ \A p, q \in Existing : Before(p, q) <=> Precedes(order, tree[p], p, tree[q], q)
         /\ token # NoToken =>
              \A p \in Existing :
                AfterCursor(p, token) <=> Precedes(order, token.val, token.path, tree[p], p)
<1>1. ASSUME NEW p \in Existing, NEW q \in Existing
      PROVE  Before(p, q) <=> Precedes(order, tree[p], p, tree[q], q)
  <2>1. tree[p] \in SortVals /\ tree[q] \in SortVals /\ p \in Nat /\ q \in Nat
    BY ExistingValues
  <2>2. CmpItems(tree[p], p, tree[q], q) < 0 <=> Precedes(order, tree[p], p, tree[q], q)
    BY <2>1, TuplesCompare
  <2>3. \A v : Directed(v) = Turned(order, v)
    BY DEF Directed, Turned
  <2> QED
    BY <2>2, <2>3 DEF Before, Precedes
<1>2. ASSUME token # NoToken, NEW p \in Existing
      PROVE  AfterCursor(p, token) <=> Precedes(order, token.val, token.path, tree[p], p)
  BY <1>2, AfterIs, PagingAssumption DEF PageTypes
<1> QED
  BY <1>1, <1>2

(* The walk's list: every file there is, each before the ones that follow. *)
LEMMA SortedLists ==
  ASSUME PageTypes
  PROVE  LET n == Cardinality(Existing)
         IN  /\ n \in Nat /\ Sorted \in [1 .. n -> Existing]
             /\ \A i, j \in 1 .. n : i < j => Before(Sorted[i], Sorted[j])
             /\ \A i, j \in 1 .. n : Sorted[i] = Sorted[j] => i = j
             /\ \A p \in Existing : \E i \in 1 .. n : Sorted[i] = p
<1> DEFINE n == Cardinality(Existing)
           R == {x \in Existing \X Existing : Before(x[1], x[2])}
<1>1. /\ \A p \in Existing : tree[p] \in SortVals /\ p \in FilePaths /\ p \in Nat
      /\ IsFiniteSet(Existing) /\ n \in Nat
      /\ \A p, q \in Existing : Before(p, q) <=> Precedes(order, tree[p], p, tree[q], q)
  BY ExistingValues, BeforeIs
<1>2. \A p, q \in Existing : <<p, q>> \in R <=> Before(p, q)
  OBVIOUS
<1> HIDE DEF R
<1>3. Orders(R, Existing)
  <2>1. \A p \in Existing : ~Before(p, p)
    BY <1>1, PrecedesOrders
  <2>2. \A p, q \in Existing : p # q => Before(p, q) \/ Before(q, p)
    BY <1>1, PrecedesOrders
  <2>3. \A p, q, r \in Existing : Before(p, q) /\ Before(q, r) => Before(p, r)
    BY <1>1, PrecedesOrders
  <2> QED
    BY <1>2, <2>1, <2>2, <2>3 DEF Orders
<1>4. PICK l : Lists(l, R, Existing)
  BY <1>1, <1>3, ListingExists
<1>5. /\ l \in [1 .. n -> Existing]
      /\ \A i, j \in DOMAIN l : i < j => Before(l[i], l[j])
  <2>1. l \in [1 .. n -> Existing] /\ \A i, j \in 1 .. n : i < j => <<l[i], l[j]>> \in R
    BY <1>4 DEF Lists
  <2> QED
    BY <1>2, <2>1
<1>6. /\ Sorted \in [1 .. n -> Existing]
      /\ \A i, j \in DOMAIN Sorted : i < j => Before(Sorted[i], Sorted[j])
  <2>1. Sorted = CHOOSE s \in [1 .. n -> Existing] :
                   \A i, j \in DOMAIN s : i < j => Before(s[i], s[j])
    BY DEF Sorted
  <2> HIDE DEF n
  <2> QED
    BY <1>5, <2>1
<1>7. \A i, j \in 1 .. n : i < j => Before(Sorted[i], Sorted[j])
  BY <1>6
<1>8. \A i, j \in 1 .. n : Sorted[i] = Sorted[j] => i = j
  <2> TAKE i \in 1 .. n, j \in 1 .. n
  <2>1. Sorted[i] \in Existing /\ Sorted[j] \in Existing
    BY <1>6
  <2>2. ~Before(Sorted[i], Sorted[i])
    BY <1>1, <2>1, PrecedesOrders
  <2> QED
    BY <1>1, <1>7, <2>1, <2>2
<1>9. \A p \in Existing : \E i \in 1 .. n : Sorted[i] = p
  <2>1. IsFiniteSet(1 .. n) /\ Cardinality(1 .. n) = n
    <3> HIDE DEF n
    <3>1. IsFiniteSet(1 .. n) /\ Cardinality(1 .. n) = IF 1 > n THEN 0 ELSE n - 1 + 1
      BY <1>1, FS_Interval
    <3> QED
      BY <1>1, <3>1
  <2> HIDE DEF n
  <2>2. Sorted \in Injection(1 .. n, Existing)
    BY <1>6, <1>8 DEF Injection, IsInjective
  <2>3. Cardinality(1 .. n) = Cardinality(Existing)
    BY <2>1 DEF n
  <2>4. Sorted \in Surjection(1 .. n, Existing)
    BY <1>1, <2>2, <2>3, FS_Injection
  <2> QED
    BY <2>4 DEF Surjection
<1> QED
  BY <1>1, <1>6, <1>7, <1>8, <1>9

(* What a page is made of: the lo files up to the cursor are left out, the *)
(* next m make the page.                                                   *)
LEMMA PageCut ==
  ASSUME PageTypes, NEW limit \in Limits, GetPage(limit)
  PROVE  LET n == Cardinality(Existing)
         IN  \E lo \in 0 .. n : \E m \in 0 .. n - lo :
               /\ \A i \in 1 .. n : i <= lo <=> (token # NoToken /\ ~AfterCursor(Sorted[i], token))
               /\ pages' \in Seq(FilePaths) /\ Len(pages') = Len(pages) + m
               /\ \A i \in 1 .. Len(pages) : pages'[i] = pages[i]
               /\ \A i \in 1 .. m : pages'[Len(pages) + i] = Sorted[lo + i]
               /\ \/ /\ ended' = TRUE /\ token' = NoToken /\ lo + m = n
                  \/ /\ ended' = FALSE /\ m > 0
                     /\ token' = [val |-> tree[Sorted[lo + m]], path |-> Sorted[lo + m]]
<1> DEFINE n == Cardinality(Existing)
<1>1. /\ n \in Nat /\ Sorted \in [1 .. n -> Existing]
      /\ \A i, j \in 1 .. n : i < j => Before(Sorted[i], Sorted[j])
      /\ Existing \subseteq FilePaths /\ pages \in Seq(FilePaths)
      /\ \A p \in Existing : tree[p] \in SortVals /\ p \in Nat
  BY SortedLists, ExistingValues DEF Existing, PageTypes
<1> HIDE DEF n
<1>2. PICK rest \in Resume(token) :
        LET more == limit > 0 /\ Len(rest) > limit
            page == IF more THEN SubSeq(rest, 1, limit) ELSE rest
        IN  /\ ended' = ~more
            /\ pages' = pages \o page
            /\ token' = IF more THEN [val |-> tree[page[limit]], path |-> page[limit]] ELSE NoToken
  BY DEF GetPage
<1>3. PICK lo \in 0 .. n :
        /\ \A i \in 1 .. n : i <= lo <=> (token # NoToken /\ ~AfterCursor(Sorted[i], token))
        /\ rest \in Seq(FilePaths) /\ Len(rest) = n - lo
        /\ \A i \in 1 .. n - lo : rest[i] = Sorted[lo + i]
  <2>1. Sorted \in Seq(FilePaths) /\ Len(Sorted) = n /\ DOMAIN Sorted = 1 .. n
    <3>1. Sorted \in [1 .. n -> FilePaths]
      BY <1>1
    <3> QED
      BY <1>1, <3>1
  <2>2. CASE token = NoToken
    <3>1. rest = Sorted
      BY <2>2 DEF Resume
    <3>2. /\ \A i \in 1 .. n : i <= 0 <=> (token # NoToken /\ ~AfterCursor(Sorted[i], token))
          /\ rest \in Seq(FilePaths) /\ Len(rest) = n - 0
          /\ \A i \in 1 .. n - 0 : rest[i] = Sorted[0 + i]
      BY <1>1, <2>1, <2>2, <3>1
    <3> QED
      BY <1>1, <3>2
  <2>3. CASE token # NoToken
    <3> DEFINE beyond == {i \in 1 .. n : AfterCursor(Sorted[i], token)}
    <3>1. PICK from \in Search(n, beyond) : rest = SubSeq(Sorted, from, n)
      BY <1>2, <2>1, <2>3 DEF Resume
    <3>2. from \in 1 .. n + 1 /\ (from <= n => from \in beyond) /\ (from > 1 => from - 1 \notin beyond)
      BY <3>1 DEF Search
    <3>3. ASSUME NEW i \in beyond, NEW j \in 1 .. n, i < j PROVE j \in beyond
      <4>1. /\ i \in 1 .. n /\ Sorted[i] \in Existing /\ Sorted[j] \in Existing
            /\ AfterCursor(Sorted[i], token) /\ Before(Sorted[i], Sorted[j])
        BY <1>1, <3>3
      <4>2. /\ tree[Sorted[i]] \in SortVals /\ tree[Sorted[j]] \in SortVals /\ token.val \in SortVals
            /\ Sorted[i] \in Nat /\ Sorted[j] \in Nat /\ token.path \in Nat
        BY <1>1, <2>3, <4>1, PagingAssumption DEF PageTypes
      <4>3. /\ Precedes(order, token.val, token.path, tree[Sorted[i]], Sorted[i])
            /\ Precedes(order, tree[Sorted[i]], Sorted[i], tree[Sorted[j]], Sorted[j])
        BY <2>3, <4>1, BeforeIs
      <4>4. Precedes(order, token.val, token.path, tree[Sorted[j]], Sorted[j])
        BY <4>2, <4>3, PrecedesOrders
      <4> QED
        BY <2>3, <4>1, <4>4, BeforeIs
    <3>4. \A i \in 1 .. n : i <= from - 1 <=> i \notin beyond
      <4> HIDE DEF beyond
      <4> TAKE i \in 1 .. n
      <4>1. CASE i < from
        <5>1. i \notin beyond
          <6>1. from - 1 \in 1 .. n /\ from - 1 \notin beyond /\ i <= from - 1
            BY <1>1, <3>2, <4>1
          <6> QED
            BY <3>3, <6>1
        <5> QED
          BY <3>2, <4>1, <5>1
      <4>2. CASE ~(i < from)
        <5>1. i \in beyond
          <6>1. from \in 1 .. n /\ from \in beyond /\ from <= i
            BY <1>1, <3>2, <4>2
          <6> QED
            BY <3>3, <6>1
        <5> QED
          BY <3>2, <4>2, <5>1
      <4> QED
        BY <4>1, <4>2
    <3>5. /\ rest \in Seq(FilePaths) /\ Len(rest) = n - (from - 1)
          /\ \A i \in 1 .. n - (from - 1) : rest[i] = Sorted[from - 1 + i]
      <4>1. \A i \in from .. n : Sorted[i] \in FilePaths
        BY <1>1, <3>2
      <4>2. /\ rest \in Seq(FilePaths) /\ Len(rest) = IF from <= n THEN n - from + 1 ELSE 0
            /\ \A i \in 1 .. n - from + 1 : rest[i] = Sorted[from + i - 1]
        BY <1>1, <3>1, <3>2, <4>1, SubSeqProperties
      <4> QED
        BY <1>1, <3>2, <4>2
    <3>6. from - 1 \in 0 .. n
      BY <1>1, <3>2
    <3>7. \A i \in 1 .. n : i \notin beyond <=> (token # NoToken /\ ~AfterCursor(Sorted[i], token))
      BY <2>3
    <3> HIDE DEF beyond
    <3> QED
      BY <3>4, <3>5, <3>6, <3>7
  <2> QED
    BY <2>2, <2>3
<1> DEFINE more == limit > 0 /\ Len(rest) > limit
           page == IF more THEN SubSeq(rest, 1, limit) ELSE rest
           m == IF more THEN limit ELSE n - lo
<1>4. limit \in Nat /\ m \in 0 .. n - lo
  BY <1>1, <1>3, PagingAssumption
<1>5. page \in Seq(FilePaths) /\ Len(page) = m /\ \A i \in 1 .. m : page[i] = Sorted[lo + i]
  <2>1. CASE more
    <3>1. \A i \in 1 .. limit : rest[i] \in FilePaths
      BY <1>3, <1>4, <2>1
    <3>2. /\ SubSeq(rest, 1, limit) \in Seq(FilePaths)
          /\ Len(SubSeq(rest, 1, limit)) = IF 1 <= limit THEN limit - 1 + 1 ELSE 0
          /\ \A i \in 1 .. limit - 1 + 1 : SubSeq(rest, 1, limit)[i] = rest[1 + i - 1]
      BY <1>4, <3>1, SubSeqProperties
    <3>3. Len(SubSeq(rest, 1, limit)) = limit /\ \A i \in 1 .. limit : SubSeq(rest, 1, limit)[i] = rest[i]
      BY <1>4, <2>1, <3>2
    <3>4. \A i \in 1 .. limit : rest[i] = Sorted[lo + i]
      BY <1>1, <1>3, <1>4, <2>1
    <3> QED
      BY <2>1, <3>2, <3>3, <3>4
  <2>2. CASE ~more
    BY <1>3, <2>2
  <2> QED
    BY <2>1, <2>2
<1>6. /\ ended' = ~more /\ pages' = pages \o page
      /\ token' = IF more THEN [val |-> tree[page[limit]], path |-> page[limit]] ELSE NoToken
  BY <1>2
<1> HIDE DEF page
<1>7. /\ pages' \in Seq(FilePaths) /\ Len(pages') = Len(pages) + m
      /\ \A i \in 1 .. Len(pages) : pages'[i] = pages[i]
      /\ \A i \in 1 .. m : pages'[Len(pages) + i] = Sorted[lo + i]
  <2> HIDE DEF m, more
  <2>1. /\ pages \o page \in Seq(FilePaths) /\ Len(pages \o page) = Len(pages) + Len(page)
        /\ \A i \in 1 .. Len(pages) + Len(page) : (pages \o page)[i] =
             IF i <= Len(pages) THEN pages[i] ELSE page[i - Len(pages)]
    BY <1>1, <1>5, ConcatProperties
  <2>2. Len(pages) \in Nat /\ m \in Nat
    BY <1>1, <1>4
  <2>3. \A i \in 1 .. Len(pages) : pages'[i] = pages[i]
    BY <1>5, <1>6, <2>1, <2>2
  <2>4. ASSUME NEW i \in 1 .. m PROVE pages'[Len(pages) + i] = Sorted[lo + i]
    <3>1. Len(pages) + i \in 1 .. Len(pages) + m /\ ~(Len(pages) + i <= Len(pages))
          /\ Len(pages) + i - Len(pages) = i
      BY <2>2
    <3> QED
      BY <1>5, <1>6, <2>1, <3>1
  <2> QED
    BY <1>5, <1>6, <2>1, <2>3, <2>4
<1>8. CASE more
  <2>1. m = limit /\ m > 0 /\ page[limit] = Sorted[lo + m]
    <3>1. m = limit /\ m > 0
      BY <1>8
    <3> HIDE DEF m
    <3>2. m \in 1 .. m
      BY <1>4, <3>1
    <3> QED
      BY <1>5, <3>1, <3>2
  <2>2. ended' = FALSE /\ token' = [val |-> tree[Sorted[lo + m]], path |-> Sorted[lo + m]]
    BY <1>6, <1>8, <2>1
  <2> HIDE DEF m, more
  <2> QED
    BY <1>3, <1>4, <1>7, <2>1, <2>2 DEF n
<1>9. CASE ~more
  <2>1. ended' = TRUE /\ token' = NoToken /\ lo + m = n
    <3>1. m = n - lo
      BY <1>9
    <3> HIDE DEF m
    <3>2. lo + m = n
      BY <1>1, <3>1
    <3> HIDE DEF more
    <3>3. ended' = TRUE /\ token' = NoToken
      BY <1>6, <1>9
    <3> QED
      BY <3>2, <3>3
  <2> HIDE DEF m, more
  <2> QED
    BY <1>3, <1>4, <1>7, <2>1 DEF n
<1> QED
  BY <1>8, <1>9

-----------------------------------------------------------------------------
LEMMA PageInitInv == PageInit => PageInv
<1> SUFFICES ASSUME PageInit PROVE PageInv
  OBVIOUS
<1>1. /\ tree \in [FilePaths -> SortVals \cup {Absent}]
      /\ token = NoToken /\ pages = <<>> /\ ended = FALSE /\ stable = Existing
  BY DEF PageInit, PageStart
<1>2. PageTypes
  <2>1. pages \in Seq(FilePaths)
    BY <1>1
  <2> QED
    BY <1>1, <2>1 DEF PageTypes
<1>3. Len(pages) = 0
  BY <1>1
<1> QED
  BY <1>1, <1>2, <1>3 DEF PageInv, UpToToken, OnceInOrder, Returned

LEMMA PageGetInv ==
  ASSUME PageInv, NEW limit \in Limits, GetPage(limit)
  PROVE  PageInv'
<1> DEFINE n == Cardinality(Existing)
<1>1. /\ n \in Nat /\ Sorted \in [1 .. n -> Existing]
      /\ \A i, j \in 1 .. n : i < j => Before(Sorted[i], Sorted[j])
      /\ \A i, j \in 1 .. n : Sorted[i] = Sorted[j] => i = j
      /\ \A p \in Existing : \E i \in 1 .. n : Sorted[i] = p
      /\ \A p \in Existing : tree[p] \in SortVals /\ p \in FilePaths /\ p \in Nat
      /\ stable \subseteq Existing /\ pages \in Seq(FilePaths) /\ PageTypes
  <2>1. PageTypes
    BY DEF PageInv
  <2> QED
    BY <2>1, SortedLists, ExistingValues DEF PageTypes
<1>2. PICK lo \in 0 .. n : \E m \in 0 .. n - lo :
        /\ \A i \in 1 .. n : i <= lo <=> (token # NoToken /\ ~AfterCursor(Sorted[i], token))
        /\ pages' \in Seq(FilePaths) /\ Len(pages') = Len(pages) + m
        /\ \A i \in 1 .. Len(pages) : pages'[i] = pages[i]
        /\ \A i \in 1 .. m : pages'[Len(pages) + i] = Sorted[lo + i]
        /\ \/ /\ ended' = TRUE /\ token' = NoToken /\ lo + m = n
           \/ /\ ended' = FALSE /\ m > 0
              /\ token' = [val |-> tree[Sorted[lo + m]], path |-> Sorted[lo + m]]
  BY <1>1, PageCut
<1> HIDE DEF n
<1>3. PICK m \in 0 .. n - lo :
        /\ \A i \in 1 .. n : i <= lo <=> (token # NoToken /\ ~AfterCursor(Sorted[i], token))
        /\ pages' \in Seq(FilePaths) /\ Len(pages') = Len(pages) + m
        /\ \A i \in 1 .. Len(pages) : pages'[i] = pages[i]
        /\ \A i \in 1 .. m : pages'[Len(pages) + i] = Sorted[lo + i]
        /\ \/ /\ ended' = TRUE /\ token' = NoToken /\ lo + m = n
           \/ /\ ended' = FALSE /\ m > 0
              /\ token' = [val |-> tree[Sorted[lo + m]], path |-> Sorted[lo + m]]
  BY <1>2
<1>4. /\ tree' = tree /\ order' = order /\ generic' = generic /\ stable' = stable /\ ~ended
      /\ Existing' = Existing
  BY DEF GetPage, Existing
<1>5. \A p, q : Before(p, q)' <=> Before(p, q)
  BY <1>4 DEF Before, Directed, CmpItems, CmpKeyVals
<1>6. PageTypes'
  <2>1. token' # NoToken => token'.val \in SortVals /\ token'.path \in FilePaths
    <3>1. CASE ended' = TRUE /\ token' = NoToken
      BY <3>1
    <3>2. CASE m > 0 /\ token' = [val |-> tree[Sorted[lo + m]], path |-> Sorted[lo + m]]
      <4>1. lo + m \in 1 .. n
        BY <1>1, <3>2
      <4>2. Sorted[lo + m] \in Existing
        BY <1>1, <4>1
      <4> QED
        BY <1>1, <3>2, <4>2
    <3> QED
      BY <1>3, <3>1, <3>2
  <2>2. ended' \in BOOLEAN
    BY <1>3
  <2> QED
    BY <1>1, <1>3, <1>4, <2>1, <2>2 DEF PageTypes
<1>7. \A i, j \in 1 .. n : Before(Sorted[i], Sorted[j]) <=> i < j
  <2> TAKE i \in 1 .. n, j \in 1 .. n
  <2>1. Sorted[i] \in Existing /\ Sorted[j] \in Existing
    BY <1>1
  <2>2. ~ (Before(Sorted[i], Sorted[j]) /\ Before(Sorted[j], Sorted[i]))
    <3> DEFINE p == Sorted[i]
               q == Sorted[j]
    <3>1. p \in Existing /\ q \in Existing
      BY <2>1
    <3> HIDE DEF p, q
    <3>2. /\ Before(p, q) <=> Precedes(order, tree[p], p, tree[q], q)
          /\ Before(q, p) <=> Precedes(order, tree[q], q, tree[p], p)
      BY <1>1, <3>1, BeforeIs
    <3>3. ~ (Before(p, q) /\ Before(q, p))
      BY <1>1, <3>1, <3>2, PrecedesOrders
    <3> QED
      BY <3>3 DEF p, q
  <2>3. CASE i < j
    BY <1>1, <2>3
  <2>4. CASE j < i
    BY <1>1, <2>2, <2>4
  <2>5. CASE i = j
    BY <2>2, <2>5
  <2> QED
    BY <2>3, <2>4, <2>5
<1>8. ASSUME NEW p \in stable, NEW k \in 1 .. n, Sorted[k] = p
      PROVE  (\E j \in 1 .. Len(pages) : pages[j] = p) <=> k <= lo
  BY <1>3, <1>4, <1>8 DEF PageInv, UpToToken, Returned
<1>9. ASSUME NEW j \in 1 .. Len(pages'), ~(j <= Len(pages))
      PROVE  \E r \in 1 .. m : j = Len(pages) + r /\ lo + r \in 1 .. n /\ pages'[j] = Sorted[lo + r]
  <2> DEFINE r == j - Len(pages)
  <2>1. r \in 1 .. m /\ j = Len(pages) + r
    BY <1>1, <1>3, <1>9
  <2> HIDE DEF r
  <2>2. lo + r \in 1 .. n
    BY <1>1, <2>1
  <2>3. pages'[Len(pages) + r] = Sorted[lo + r]
    BY <1>3, <2>1
  <2> QED
    BY <2>1, <2>2, <2>3
<1>10. ASSUME NEW p \in stable, NEW k \in 1 .. n, Sorted[k] = p
       PROVE  (\E j \in 1 .. Len(pages') : pages'[j] = p) <=> k <= lo + m
  <2>1. ASSUME NEW j \in 1 .. Len(pages'), pages'[j] = p PROVE k <= lo + m
    <3>1. CASE j <= Len(pages)
      <4>1. j \in 1 .. Len(pages) /\ pages[j] = p
        BY <1>1, <1>3, <2>1, <3>1
      <4> QED
        BY <1>8, <1>10, <4>1
    <3>2. CASE ~(j <= Len(pages))
      <4>1. PICK r \in 1 .. m : lo + r \in 1 .. n /\ pages'[j] = Sorted[lo + r]
        BY <1>9, <3>2
      <4>2. lo + r = k
        BY <1>1, <1>10, <2>1, <4>1
      <4> QED
        BY <1>1, <4>1, <4>2
    <3> QED
      BY <3>1, <3>2
  <2>2. ASSUME k <= lo + m PROVE \E j \in 1 .. Len(pages') : pages'[j] = p
    <3>1. CASE k <= lo
      <4>1. PICK j \in 1 .. Len(pages) : pages[j] = p
        BY <1>8, <1>10, <3>1
      <4>2. j \in 1 .. Len(pages') /\ pages'[j] = p
        BY <1>1, <1>3, <4>1
      <4> QED
        BY <4>2
    <3>2. CASE ~(k <= lo)
      <4> DEFINE r == k - lo
      <4>1. r \in 1 .. m /\ lo + r = k
        BY <1>1, <2>2, <3>2
      <4> HIDE DEF r
      <4>2. pages'[Len(pages) + r] = Sorted[lo + r]
        BY <1>3, <4>1
      <4>3. pages'[Len(pages) + r] = p
        BY <1>10, <4>1, <4>2
      <4>4. Len(pages) + r \in 1 .. Len(pages')
        BY <1>1, <1>3, <4>1
      <4> QED
        BY <4>3, <4>4
    <3> QED
      BY <3>1, <3>2
  <2> QED
    BY <2>1, <2>2
<1>11. ASSUME NEW p \in stable
       PROVE  (\E j \in 1 .. Len(pages') : pages'[j] = p)
                <=> ended' \/ (token' # NoToken /\ ~AfterCursor(p, token)')
  <2>1. PICK k \in 1 .. n : Sorted[k] = p
    BY <1>1
  <2>2. CASE ended' = TRUE /\ lo + m = n
    BY <1>10, <2>1, <2>2
  <2>3. CASE ended' = FALSE /\ m > 0 /\ token' = [val |-> tree[Sorted[lo + m]], path |-> Sorted[lo + m]]
    <3> DEFINE q == Sorted[lo + m]
               cur == [val |-> tree[q], path |-> q]
    <3>1. lo + m \in 1 .. n /\ q \in Existing /\ p \in Existing
      BY <1>1, <2>3
    <3>2. tree[q] \in SortVals /\ q \in Nat
      BY <1>1, <3>1
    <3> HIDE DEF q
    <3>3. AfterCursor(p, cur) <=> Precedes(order, tree[q], q, tree[p], p)
      BY <1>1, <3>1, <3>2, AfterIs
    <3>4. AfterCursor(p, cur) <=> Before(q, p)
      BY <1>1, <3>1, <3>3, BeforeIs
    <3>5. AfterCursor(p, token)' <=> AfterCursor(p, cur)
      BY <1>4, <2>3 DEF AfterCursor, Directed, CmpItems, CmpKeyVals, q
    <3>6. Before(q, p) <=> lo + m < k
      BY <1>7, <2>1, <3>1 DEF q
    <3>7. token' # NoToken
      <4>1. tree[q] # Absent
        BY <3>1 DEF Existing
      <4> QED
        BY <2>3, <4>1 DEF NoToken, q
    <3> QED
      BY <1>10, <2>1, <2>3, <3>4, <3>5, <3>6, <3>7
  <2> QED
    BY <1>3, <2>2, <2>3
<1>12. UpToToken'
  BY <1>4, <1>11 DEF UpToToken, Returned
<1>13. ASSUME NEW i \in 1 .. Len(pages'), pages'[i] \in stable
       PROVE  \E k \in 1 .. n : /\ Sorted[k] = pages'[i]
                                /\ i <= Len(pages) => k <= lo /\ pages'[i] = pages[i]
                                /\ ~(i <= Len(pages)) => k > lo /\ i = Len(pages) + (k - lo)
  <2>1. CASE i <= Len(pages)
    <3>1. PICK k \in 1 .. n : Sorted[k] = pages'[i]
      BY <1>1, <1>13
    <3>2. i \in 1 .. Len(pages) /\ pages[i] = pages'[i]
      BY <1>1, <1>3, <2>1
    <3>3. k <= lo
      BY <1>8, <1>13, <3>1, <3>2
    <3> QED
      BY <2>1, <3>1, <3>2, <3>3
  <2>2. CASE ~(i <= Len(pages))
    <3>1. PICK r \in 1 .. m : i = Len(pages) + r /\ lo + r \in 1 .. n /\ pages'[i] = Sorted[lo + r]
      BY <1>9, <2>2
    <3>2. lo + r > lo /\ i = Len(pages) + (lo + r - lo)
      BY <1>1, <3>1
    <3> QED
      BY <2>2, <3>1, <3>2
  <2> QED
    BY <2>1, <2>2
<1>14. ASSUME NEW i \in 1 .. Len(pages'), NEW j \in 1 .. Len(pages'),
              pages'[i] \in stable, pages'[j] \in stable
       PROVE  /\ pages'[i] = pages'[j] => i = j
              /\ Before(pages'[i], pages'[j]) => i < j
  <2>1. PICK k \in 1 .. n : /\ Sorted[k] = pages'[i]
                            /\ i <= Len(pages) => k <= lo /\ pages'[i] = pages[i]
                            /\ ~(i <= Len(pages)) => k > lo /\ i = Len(pages) + (k - lo)
    BY <1>13, <1>14
  <2>2. PICK l \in 1 .. n : /\ Sorted[l] = pages'[j]
                            /\ j <= Len(pages) => l <= lo /\ pages'[j] = pages[j]
                            /\ ~(j <= Len(pages)) => l > lo /\ j = Len(pages) + (l - lo)
    BY <1>13, <1>14
  <2>3. (pages'[i] = pages'[j] <=> k = l) /\ (Before(pages'[i], pages'[j]) <=> k < l)
    BY <1>1, <1>7, <2>1, <2>2
  <2>4. Len(pages) \in Nat
    BY <1>1
  <2>5. CASE i <= Len(pages) /\ j <= Len(pages)
    <3>1. i \in 1 .. Len(pages) /\ j \in 1 .. Len(pages) /\ pages'[i] = pages[i] /\ pages'[j] = pages[j]
      BY <2>1, <2>2, <2>5
    <3> QED
      BY <1>14, <3>1 DEF PageInv, OnceInOrder
  <2>6. CASE ~(i <= Len(pages)) /\ ~(j <= Len(pages))
    BY <2>1, <2>2, <2>3, <2>4, <2>6
  <2>7. CASE i <= Len(pages) /\ ~(j <= Len(pages))
    BY <2>1, <2>2, <2>3, <2>4, <2>7
  <2>8. CASE ~(i <= Len(pages)) /\ j <= Len(pages)
    BY <2>1, <2>2, <2>3, <2>4, <2>8
  <2> QED
    BY <2>5, <2>6, <2>7, <2>8
<1>15. OnceInOrder'
  BY <1>4, <1>5, <1>14 DEF OnceInOrder
<1> QED
  BY <1>6, <1>12, <1>15 DEF PageInv

(* A file that changes leaves the promise; the others keep their places.   *)
LEMMA PageUpdateInv ==
  ASSUME PageInv, NEW f \in FilePaths, NEW v \in SortVals \cup {Absent}, Update(f, v)
  PROVE  PageInv'
<1>1. /\ tree' = [tree EXCEPT ![f] = v] /\ stable' = stable \ {f}
      /\ UNCHANGED <<order, generic, token, pages, ended>>
      /\ tree \in [FilePaths -> SortVals \cup {Absent}] /\ stable \subseteq Existing
  BY DEF Update, PageInv, PageTypes
<1>2. \A p \in stable' : p \in stable /\ p # f /\ p \in FilePaths /\ tree'[p] = tree[p]
  BY <1>1 DEF Existing
<1>3. \A p, q \in stable' : Before(p, q)' <=> Before(p, q)
  BY <1>1, <1>2 DEF Before, Directed, CmpItems, CmpKeyVals
<1>4. \A p \in stable' : AfterCursor(p, token)' <=> AfterCursor(p, token)
  BY <1>1, <1>2 DEF AfterCursor, Directed, CmpItems, CmpKeyVals
<1>5. PageTypes'
  <2>1. tree' \in [FilePaths -> SortVals \cup {Absent}]
    BY <1>1
  <2>2. stable' \subseteq Existing'
    BY <1>1, <1>2 DEF Existing
  <2> QED
    BY <1>1, <2>1, <2>2 DEF PageInv, PageTypes
<1>6. UpToToken'
  BY <1>1, <1>2, <1>4 DEF PageInv, UpToToken, Returned
<1>7. OnceInOrder'
  BY <1>1, <1>2, <1>3 DEF PageInv, OnceInOrder
<1> QED
  BY <1>5, <1>6, <1>7 DEF PageInv

(* Any finite set of files, any values, page sizes and changes between the *)
(* pages: every file that stayed as it was is returned, once and in order. *)
THEOREM PagesComplete == PageSpec => []PagesExact
<1>1. PageInv /\ [PageNext]_pageVars => PageInv'
  <2> SUFFICES ASSUME PageInv, [PageNext]_pageVars PROVE PageInv'
    OBVIOUS
  <2>1. ASSUME NEW l \in Limits, GetPage(l) PROVE PageInv'
    BY <2>1, PageGetInv
  <2>2. ASSUME NEW f \in FilePaths, NEW v \in SortVals \cup {Absent}, Update(f, v) PROVE PageInv'
    BY <2>2, PageUpdateInv
  <2>3. CASE UNCHANGED pageVars
    <3>1. Existing' = Existing /\ \A p, q : Before(p, q)' <=> Before(p, q)
      BY <2>3 DEF pageVars, Existing, Before, Directed, CmpItems, CmpKeyVals
    <3>2. \A p : AfterCursor(p, token)' <=> AfterCursor(p, token)
      BY <2>3 DEF pageVars, AfterCursor, Directed, CmpItems, CmpKeyVals
    <3> QED
      BY <2>3, <3>1, <3>2 DEF pageVars, PageInv, PageTypes, UpToToken, OnceInOrder, Returned
  <2> QED
    BY <2>1, <2>2, <2>3 DEF PageNext
<1>2. PageInv => PagesExact
  <2> SUFFICES ASSUME PageInv PROVE PagesExact
    OBVIOUS
  <2>1. DOMAIN pages = 1 .. Len(pages) /\ Len(pages) \in Nat
    BY DEF PageInv, PageTypes
  <2>2. ASSUME NEW p \in stable PROVE Cardinality(Place(p)) <= 1 /\ (ended => Place(p) # {})
    <3>1. \A i, j \in Place(p) : i = j
      BY <2>1 DEF PageInv, OnceInOrder, Place
    <3>2. Cardinality(Place(p)) <= 1
      <4>1. CASE Place(p) = {}
        BY <4>1, FS_EmptySet
      <4>2. CASE Place(p) # {}
        <5>1. PICK i \in Place(p) : TRUE
          BY <4>2
        <5>2. Place(p) = {i}
          BY <3>1, <5>1
        <5> QED
          BY <5>2, FS_Singleton
      <4> QED
        BY <4>1, <4>2
    <3>3. ended => Place(p) # {}
      BY <2>1 DEF PageInv, UpToToken, Returned, Place
    <3> QED
      BY <3>2, <3>3
  <2>3. \A p, q \in stable : \A i \in Place(p), j \in Place(q) : Before(p, q) => i < j
    BY <2>1 DEF PageInv, OnceInOrder, Place
  <2> QED
    BY <2>2, <2>3 DEF PagesExact
<1> QED
  BY <1>1, <1>2, PageInitInv, PTL DEF PageSpec

-----------------------------------------------------------------------------
(* Groups: equal and similar files.                                        *)

(* A forest: from every place the parents lead to one that is its own.     *)
Forest(par, D) ==
  par \in [D -> D] /\ \A i \in D : \E r \in PathUp(par, i) : par[r] = r

LEMMA PathUpIs ==
  ASSUME NEW D, NEW par \in [D -> D], NEW i \in D
  PROVE  /\ i \in PathUp(par, i) /\ PathUp(par, i) \subseteq D
         /\ \A k \in PathUp(par, i) : par[k] \in PathUp(par, i)
         /\ \A S \in SUBSET D : i \in S /\ (\A j \in S : par[j] \in S) => PathUp(par, i) \subseteq S
<1>1. DOMAIN par = D
  OBVIOUS
<1>2. \A k : k \in PathUp(par, i) <=>
        k \in D /\ \A S \in SUBSET D : i \in S /\ (\A j \in S : par[j] \in S) => k \in S
  BY <1>1 DEF PathUp
<1>3. i \in PathUp(par, i) /\ PathUp(par, i) \subseteq D
  BY <1>2
<1>4. ASSUME NEW k \in PathUp(par, i) PROVE par[k] \in PathUp(par, i)
  <2>1. par[k] \in D
    BY <1>2
  <2>2. ASSUME NEW S \in SUBSET D, i \in S, \A j \in S : par[j] \in S PROVE par[k] \in S
    BY <1>2, <2>2
  <2> QED
    BY <1>2, <2>1, <2>2
<1>5. ASSUME NEW S \in SUBSET D, i \in S, \A j \in S : par[j] \in S PROVE PathUp(par, i) \subseteq S
  BY <1>2, <1>5
<1> QED
  BY <1>3, <1>4, <1>5

LEMMA RootIs ==
  ASSUME NEW D, NEW par, Forest(par, D), NEW i \in D
  PROVE  /\ Root(par, i) \in D /\ par[Root(par, i)] = Root(par, i)
         /\ Root(par, i) \in PathUp(par, i)
         /\ \A r \in PathUp(par, i) : par[r] = r => r = Root(par, i)
<1>1. par \in [D -> D] /\ \E r \in PathUp(par, i) : par[r] = r
  BY DEF Forest
<1>2. Root(par, i) \in PathUp(par, i) /\ par[Root(par, i)] = Root(par, i)
  BY <1>1 DEF Root
<1>3. PathUp(par, i) \subseteq D
  BY <1>1, PathUpIs
<1>4. ASSUME NEW r \in PathUp(par, i), par[r] = r PROVE r = Root(par, i)
  <2> DEFINE S == {k \in D : r \in PathUp(par, k)}
  <2>1. r \in D /\ S \in SUBSET D /\ i \in S
    BY <1>3
  <2>2. ASSUME NEW j \in S PROVE par[j] \in S
    <3>1. par[j] \in D /\ r \in PathUp(par, j)
      BY <1>1
    <3> DEFINE U == {j} \cup PathUp(par, par[j])
    <3>2. par[j] \in PathUp(par, par[j]) /\ \A k \in PathUp(par, par[j]) : par[k] \in PathUp(par, par[j])
      BY <1>1, <3>1, PathUpIs
    <3>3. U \in SUBSET D /\ j \in U /\ \A k \in U : par[k] \in U
      <4>1. PathUp(par, par[j]) \subseteq D
        BY <1>1, <3>1, PathUpIs
      <4> QED
        BY <3>2, <4>1
    <3>4. PathUp(par, j) \subseteq U
      <4> HIDE DEF U
      <4> QED
        BY <1>1, <3>3, PathUpIs
    <3>5. CASE r = j
      BY <1>4, <3>1, <3>2, <3>5
    <3>6. CASE r # j
      BY <3>1, <3>4, <3>6
    <3> QED
      BY <3>5, <3>6
  <2>3. PathUp(par, i) \subseteq S
    <3> HIDE DEF S
    <3> QED
      BY <1>1, <2>1, <2>2, PathUpIs
  <2>4. Root(par, i) \in D /\ r \in PathUp(par, Root(par, i))
    BY <1>2, <2>3
  <2>5. PathUp(par, Root(par, i)) \subseteq {Root(par, i)}
    <3> DEFINE alone == {Root(par, i)}
    <3>1. alone \in SUBSET D /\ Root(par, i) \in alone /\ \A j \in alone : par[j] \in alone
      BY <1>2, <2>4
    <3> HIDE DEF alone
    <3>2. PathUp(par, Root(par, i)) \subseteq alone
      BY <1>1, <2>4, <3>1, PathUpIs
    <3> QED
      BY <3>2 DEF alone
  <2> QED
    BY <2>4, <2>5
<1> QED
  BY <1>2, <1>3, <1>4

(* What find writes changes no root.                                       *)
LEMMA CompressKeeps ==
  ASSUME NEW D, NEW par, Forest(par, D), NEW i \in D
  PROVE  /\ Forest(Compress(par, i), D)
         /\ \A k \in D : Root(Compress(par, i), k) = Root(par, k)
<1> DEFINE above == PathUp(par, i)
           r == Root(par, i)
           new == Compress(par, i)
<1>1. par \in [D -> D] /\ DOMAIN par = D
  BY DEF Forest
<1>2. above \subseteq D /\ (\A k \in above : par[k] \in above) /\ r \in above /\ r \in D /\ par[r] = r
  <2>1. r \in above /\ r \in D /\ par[r] = r
    BY RootIs
  <2>2. above \subseteq D /\ \A k \in above : par[k] \in above
    BY <1>1, PathUpIs
  <2> QED
    BY <2>1, <2>2
<1>3. new = [j \in D |-> IF j \in above THEN r ELSE par[j]]
  BY <1>1 DEF Compress
<1> HIDE DEF above, r, new
<1>4. new \in [D -> D]
  BY <1>1, <1>2, <1>3
<1>5. ASSUME NEW k \in D
      PROVE  Root(par, k) \in PathUp(new, k) /\ new[Root(par, k)] = Root(par, k)
  <2> DEFINE q == Root(par, k)
  <2>1. q \in D /\ par[q] = q /\ q \in PathUp(par, k)
    BY RootIs
  <2>2. q \in above => q = r
    BY <2>1, RootIs DEF above, r
  <2> HIDE DEF q
  <2>3. new[q] = q
    BY <1>2, <1>3, <2>1, <2>2
  <2>4. ASSUME NEW S \in SUBSET D, k \in S, \A j \in S : new[j] \in S PROVE q \in S
    <3> DEFINE T == S \cup {j \in above : r \in S}
    <3>1. T \in SUBSET D /\ k \in T
      BY <1>2, <2>4
    <3>2. ASSUME NEW j \in T PROVE par[j] \in T
      <4>1. CASE j \in above
        <5>1. r \in S
          <6>1. CASE j \in S
            <7>1. new[j] = r
              BY <1>2, <1>3, <4>1
            <7> QED
              BY <2>4, <6>1, <7>1
          <6> QED
            BY <4>1, <6>1
        <5> QED
          BY <1>2, <4>1, <5>1
      <4>2. CASE j \notin above
        <5>1. j \in S /\ new[j] = par[j]
          BY <1>3, <4>2
        <5> QED
          BY <2>4, <5>1
      <4> QED
        BY <4>1, <4>2
    <3>3. PathUp(par, k) \subseteq T
      <4> HIDE DEF T
      <4> QED
        BY <1>1, <3>1, <3>2, PathUpIs
    <3>4. q \in T
      BY <2>1, <3>3
    <3> QED
      BY <2>2, <3>4
  <2>5. q \in PathUp(new, k)
    <3>1. DOMAIN new = D
      BY <1>4
    <3> QED
      BY <2>1, <2>4, <3>1 DEF PathUp
  <2> QED
    BY <2>3, <2>5 DEF q
<1>6. Forest(new, D)
  BY <1>4, <1>5 DEF Forest
<1>7. \A k \in D : Root(new, k) = Root(par, k)
  BY <1>5, <1>6, RootIs
<1> QED
  BY <1>6, <1>7 DEF new

(* union makes one tree of two, and of no others.                          *)
LEMMA UnionJoins ==
  ASSUME NEW D, NEW par, Forest(par, D), NEW i \in D, NEW j \in D
  PROVE  /\ Forest(Union(par, i, j), D)
         /\ \A k \in D : Root(Union(par, i, j), k) =
                           IF Root(par, k) = Root(par, i) THEN Root(par, j) ELSE Root(par, k)
<1> DEFINE both == Compress(Compress(par, i), j)
           ri == Root(par, i)
           rj == Root(par, j)
           new == Union(par, i, j)
<1>1. Forest(both, D) /\ \A k \in D : Root(both, k) = Root(par, k)
  <2>1. Forest(Compress(par, i), D) /\ \A k \in D : Root(Compress(par, i), k) = Root(par, k)
    BY CompressKeeps
  <2> QED
    BY <2>1, CompressKeeps
<1>2. new = [both EXCEPT ![ri] = rj]
  BY DEF Union
<1>3. ri \in D /\ rj \in D
  BY RootIs
<1> HIDE DEF both, new, ri, rj
<1>4. both \in [D -> D]
  BY <1>1 DEF Forest
<1>5. new \in [D -> D] /\ new[ri] = rj /\ \A k \in D : k # ri => new[k] = both[k]
  BY <1>2, <1>3, <1>4
<1>6. both[ri] = ri /\ both[rj] = rj
  <2>1. Root(both, i) = ri /\ Root(both, j) = rj
    BY <1>1 DEF ri, rj
  <2> QED
    BY <1>1, <2>1, RootIs
<1>7. ASSUME NEW k \in D
      PROVE  LET q == IF Root(par, k) = ri THEN rj ELSE Root(par, k)
             IN  q \in PathUp(new, k) /\ new[q] = q
  <2> DEFINE p == Root(par, k)
             q == IF p = ri THEN rj ELSE p
  <2>1. p \in D /\ both[p] = p /\ p \in PathUp(both, k)
    <3>1. Root(both, k) = p
      BY <1>1
    <3> QED
      BY <1>1, <3>1, RootIs
  <2> HIDE DEF p
  <2>2. q \in D /\ new[q] = q
    BY <1>3, <1>5, <1>6, <2>1
  <2>3. ASSUME NEW S \in SUBSET D, k \in S, \A m \in S : new[m] \in S PROVE q \in S
    <3>1. ASSUME NEW m \in S PROVE both[m] \in S
      BY <1>5, <1>6, <2>3
    <3>2. PathUp(both, k) \subseteq S
      BY <1>4, <2>3, <3>1, PathUpIs
    <3>3. p \in S
      BY <2>1, <3>2
    <3> QED
      BY <1>5, <2>3, <3>3
  <2>4. q \in PathUp(new, k)
    <3>1. DOMAIN new = D
      BY <1>5
    <3> HIDE DEF q
    <3> QED
      BY <2>2, <2>3, <3>1 DEF PathUp
  <2> QED
    BY <2>2, <2>4 DEF p
<1>8. Forest(new, D)
  BY <1>5, <1>7 DEF Forest
<1>9. ASSUME NEW k \in D PROVE Root(new, k) = IF Root(par, k) = ri THEN rj ELSE Root(par, k)
  <2> DEFINE q == IF Root(par, k) = ri THEN rj ELSE Root(par, k)
  <2>1. q \in PathUp(new, k) /\ new[q] = q
    BY <1>7
  <2> HIDE DEF q
  <2>2. q = Root(new, k)
    BY <1>8, <2>1, RootIs
  <2> QED
    BY <2>2 DEF q
<1> QED
  BY <1>8, <1>9 DEF new, ri, rj

(* A compared of comparisons: it joins the trees of places that are similar to  *)
(* the compared's, separates none, and joins no others than those.              *)
SameRoot(par, a, b) == Root(par, a) = Root(par, b)

LEMMA MergedSteps ==
  ASSUME NEW par, NEW i \in Nat, Len(arrival) \in Nat, i <= Len(arrival)
  PROVE  \E g : /\ Merged(par, i) = g[Len(arrival)] /\ g[i] = par
                /\ \A j \in i + 1 .. Len(arrival) :
                     g[j] = IF Similar(arrival[i], arrival[j]) THEN Union(g[j - 1], i, j) ELSE g[j - 1]
<1> DEFINE n == Len(arrival)
           step(p, j) == IF Similar(arrival[i], arrival[j]) THEN Union(p, i, j) ELSE p
           Unfolds(f, m) == f[i] = par /\ \A j \in i + 1 .. m : f[j] = step(f[j - 1], j)
           P == {k \in Nat : \E f : Unfolds(f, i + k)}
           body(f) == [j \in i .. n |-> IF j = i THEN par ELSE step(f[j - 1], j)]
           upTo == CHOOSE f : f = body(f)
<1>1. Merged(par, i) = upTo[n]
  BY DEF Merged
<1> HIDE DEF n, step
<1>2. 0 \in P
  <2> DEFINE f == [j \in {i} |-> par]
  <2>1. Unfolds(f, i + 0)
    <3>1. \A j \in i + 1 .. i + 0 : FALSE
      OBVIOUS
    <3> QED
      BY <3>1
  <2> QED
    BY <2>1
<1>3. ASSUME NEW k \in Nat, k \in P PROVE k + 1 \in P
  <2>1. PICK f : Unfolds(f, i + k)
    BY <1>3
  <2> DEFINE h == [j \in i .. i + k + 1 |-> IF j = i + k + 1 THEN step(f[i + k], j) ELSE f[j]]
  <2>2. h[i + k + 1] = step(f[i + k], i + k + 1) /\ \A j \in i .. i + k : h[j] = f[j]
    OBVIOUS
  <2> HIDE DEF h
  <2>3. h[i] = par
    BY <2>1, <2>2
  <2>4. ASSUME NEW j \in i + 1 .. i + (k + 1) PROVE h[j] = step(h[j - 1], j)
    <3>1. CASE j = i + k + 1
      <4>1. j - 1 = i + k /\ i + k \in i .. i + k
        BY <3>1
      <4> QED
        BY <2>2, <3>1, <4>1
    <3>2. CASE j # i + k + 1
      <4>1. j \in i + 1 .. i + k /\ j \in i .. i + k /\ j - 1 \in i .. i + k
        BY <3>2
      <4> QED
        BY <2>1, <2>2, <4>1
    <3> QED
      BY <3>1, <3>2
  <2>5. Unfolds(h, i + (k + 1))
    BY <2>3, <2>4
  <2> QED
    BY <2>5
<1>4. n - i \in P
  <2>1. \A k \in Nat : k \in P => k + 1 \in P
    BY <1>3
  <2> HIDE DEF P
  <2>2. Nat \subseteq P
    BY <1>2, <2>1, NatSetInduction
  <2> QED
    BY <2>2 DEF n
<1>5. PICK f : Unfolds(f, n)
  <2>1. i + (n - i) = n
    BY DEF n
  <2>2. PICK f : Unfolds(f, i + (n - i))
    BY <1>4
  <2> QED
    BY <2>1, <2>2
<1>6. \E g : g = body(g)
  <2> DEFINE g == [j \in i .. n |-> f[j]]
  <2>1. \A j \in i .. n : g[j] = f[j]
    OBVIOUS
  <2>2. \A j \in i .. n : f[j] = IF j = i THEN par ELSE step(g[j - 1], j)
    <3> TAKE j \in i .. n
    <3>1. CASE j = i
      BY <1>5, <3>1
    <3>2. CASE j # i
      <4>1. j \in i + 1 .. n /\ j - 1 \in i .. n
        BY <3>2 DEF n
      <4> QED
        BY <1>5, <2>1, <3>2, <4>1
    <3> QED
      BY <3>1, <3>2
  <2>3. g = body(g)
    BY <2>2
  <2> QED
    BY <2>3
<1>7. upTo = body(upTo)
  <2> HIDE DEF body
  <2> QED
    BY <1>6
<1> HIDE DEF upTo
<1>8. upTo[i] = par
  <2>1. i \in i .. n
    BY DEF n
  <2> QED
    BY <1>7, <2>1
<1>9. \A j \in i + 1 .. n : upTo[j] = step(upTo[j - 1], j)
  <2> TAKE j \in i + 1 .. n
  <2>1. j \in i .. n /\ j # i
    BY DEF n
  <2>2. body(upTo)[j] = step(upTo[j - 1], j)
    BY <2>1
  <2> QED
    BY <1>7, <2>2
<1> QED
  BY <1>1, <1>8, <1>9 DEF n, step

LEMMA MergedRight ==
  ASSUME Len(arrival) \in Nat, NEW par, Forest(par, 1 .. Len(arrival)), NEW i \in 1 .. Len(arrival),
         NEW E,
         \A a, b \in 1 .. Len(arrival) : Similar(arrival[a], arrival[b]) => <<a, b>> \in E,
         \A a, b \in 1 .. Len(arrival) : <<a, b>> \in E => <<b, a>> \in E,
         \A a, b, c \in 1 .. Len(arrival) : <<a, b>> \in E /\ <<b, c>> \in E => <<a, c>> \in E,
         \A a, b \in 1 .. Len(arrival) : SameRoot(par, a, b) => <<a, b>> \in E
  PROVE  /\ Forest(Merged(par, i), 1 .. Len(arrival))
         /\ \A a, b \in 1 .. Len(arrival) : SameRoot(par, a, b) => SameRoot(Merged(par, i), a, b)
         /\ \A b \in i + 1 .. Len(arrival) :
              Similar(arrival[i], arrival[b]) => SameRoot(Merged(par, i), i, b)
         /\ \A a, b \in 1 .. Len(arrival) : SameRoot(Merged(par, i), a, b) => <<a, b>> \in E
<1> DEFINE n == Len(arrival)
           D == 1 .. n
           MergedUpTo(p, m) ==
             /\ Forest(p, D)
             /\ \A a, b \in D : SameRoot(par, a, b) => SameRoot(p, a, b)
             /\ \A b \in i + 1 .. m : Similar(arrival[i], arrival[b]) => SameRoot(p, i, b)
             /\ \A a, b \in D : SameRoot(p, a, b) => <<a, b>> \in E
<1>1. n \in Nat /\ i \in D /\ i \in Nat /\ i <= n
  OBVIOUS
<1>2. PICK g : /\ Merged(par, i) = g[n] /\ g[i] = par
               /\ \A j \in i + 1 .. n :
                    g[j] = IF Similar(arrival[i], arrival[j]) THEN Union(g[j - 1], i, j) ELSE g[j - 1]
  BY <1>1, MergedSteps
<1> DEFINE P == {k \in Nat : i + k <= n => MergedUpTo(g[i + k], i + k)}
<1>3. 0 \in P
  <2>1. i + 0 = i /\ \A b \in i + 1 .. i : FALSE
    BY <1>1
  <2> QED
    BY <1>2, <2>1
<1>4. ASSUME NEW k \in Nat, k \in P, i + (k + 1) <= n
      PROVE  MergedUpTo(g[i + (k + 1)], i + (k + 1))
  <2> DEFINE j == i + (k + 1)
             p == g[i + k]
             q == g[j]
  <2>1. j \in D /\ j \in i + 1 .. n /\ j - 1 = i + k /\ i + k <= n /\ i + k \in Nat /\ j \in Nat
    BY <1>1, <1>4
  <2>2. MergedUpTo(p, i + k)
    BY <1>4, <2>1
  <2>3. q = IF Similar(arrival[i], arrival[j]) THEN Union(p, i, j) ELSE p
    BY <1>2, <2>1
  <2>4. \A b \in i + 1 .. j : b \in i + 1 .. i + k \/ b = j
    BY <1>1, <2>1
  <2> HIDE DEF j, p, q
  <2>5. CASE ~Similar(arrival[i], arrival[j])
    <3>1. q = p
      BY <2>3, <2>5
    <3> QED
      BY <2>2, <2>4, <2>5, <3>1 DEF j, q
  <2>6. CASE Similar(arrival[i], arrival[j])
    <3>1. q = Union(p, i, j)
      BY <2>3, <2>6
    <3>2. Forest(p, D)
      BY <2>2
    <3>3. /\ Forest(q, D)
          /\ \A a \in D : Root(q, a) = IF Root(p, a) = Root(p, i) THEN Root(p, j) ELSE Root(p, a)
      BY <1>1, <2>1, <3>1, <3>2, UnionJoins
    <3>4. \A a, b \in D : SameRoot(p, a, b) => SameRoot(q, a, b)
      BY <3>3 DEF SameRoot
    <3>5. \A a, b \in D : SameRoot(par, a, b) => SameRoot(q, a, b)
      BY <2>2, <3>4
    <3>6. SameRoot(q, i, j)
      BY <1>1, <2>1, <3>3 DEF SameRoot
    <3>7. \A b \in i + 1 .. j : Similar(arrival[i], arrival[b]) => SameRoot(q, i, b)
      <4> TAKE b \in i + 1 .. j
      <4>1. CASE b = j
        BY <3>6, <4>1
      <4>2. CASE b # j
        <5>1. b \in i + 1 .. i + k /\ b \in D
          BY <1>1, <2>1, <2>4, <4>2
        <5>2. Similar(arrival[i], arrival[b]) => SameRoot(p, i, b)
          BY <2>2, <5>1
        <5> QED
          BY <1>1, <3>4, <5>1, <5>2
      <4> QED
        BY <4>1, <4>2
    <3>8. ASSUME NEW a \in D, NEW b \in D, SameRoot(q, a, b) PROVE <<a, b>> \in E
      <4>1. \A x, y \in D : SameRoot(p, x, y) => <<x, y>> \in E
        BY <2>2
      <4>2. <<i, j>> \in E /\ <<j, i>> \in E
        BY <1>1, <2>1, <2>6
      <4>3. CASE SameRoot(p, a, b)
        BY <3>8, <4>1, <4>3
      <4>4. CASE SameRoot(p, a, i) /\ SameRoot(p, b, j)
        <5>1. <<a, i>> \in E /\ <<b, j>> \in E
          BY <1>1, <2>1, <3>8, <4>1, <4>4
        <5>2. <<a, j>> \in E /\ <<j, b>> \in E
          BY <1>1, <2>1, <3>8, <4>2, <5>1
        <5> QED
          BY <2>1, <3>8, <5>2
      <4>5. CASE SameRoot(p, a, j) /\ SameRoot(p, b, i)
        <5>1. <<a, j>> \in E /\ <<b, i>> \in E
          BY <1>1, <2>1, <3>8, <4>1, <4>5
        <5>2. <<a, i>> \in E /\ <<i, b>> \in E
          BY <1>1, <2>1, <3>8, <4>2, <5>1
        <5> QED
          BY <1>1, <3>8, <5>2
      <4> QED
        BY <3>3, <3>8, <4>3, <4>4, <4>5 DEF SameRoot
    <3> QED
      BY <3>3, <3>5, <3>7, <3>8 DEF j, q
  <2> QED
    BY <2>5, <2>6
<1>5. \A k \in Nat : k \in P => k + 1 \in P
  BY <1>4
<1>6. n - i \in P
  <2> HIDE DEF P
  <2>1. Nat \subseteq P
    BY <1>3, <1>5, NatSetInduction
  <2> QED
    BY <1>1, <2>1
<1>7. i + (n - i) = n
  BY <1>1
<1>8. MergedUpTo(g[n], n)
  BY <1>6, <1>7
<1> QED
  BY <1>2, <1>8

-----------------------------------------------------------------------------
(* Likeness, and the chains of it.                                         *)
LEMMA SimilarBack ==
  ASSUME NEW p, NEW q, Similar(p, q)
  PROVE  Similar(q, p)
<1>1. (Bits(p) \ Bits(q)) \cup (Bits(q) \ Bits(p)) = (Bits(q) \ Bits(p)) \cup (Bits(p) \ Bits(q))
  OBVIOUS
<1>2. Apart(p, q) = Apart(q, p)
  BY <1>1 DEF Apart
<1> QED
  BY <1>2 DEF Similar

LEMMA JoinedIs ==
  ASSUME NEW S, NEW p \in S, NEW q \in S
  PROVE  <<p, q>> \in Joined(S) <=>
           \A T \in SUBSET S : p \in T /\ (\A r \in T, s \in S : Similar(r, s) => s \in T) => q \in T
BY DEF Joined

LEMMA JoinedOrders ==
  ASSUME NEW S
  PROVE  /\ \A p \in S : <<p, p>> \in Joined(S)
         /\ \A p, q \in S : Similar(p, q) => <<p, q>> \in Joined(S)
         /\ \A p, q \in S : <<p, q>> \in Joined(S) => <<q, p>> \in Joined(S)
         /\ \A p, q, r \in S :
              <<p, q>> \in Joined(S) /\ <<q, r>> \in Joined(S) => <<p, r>> \in Joined(S)
<1> DEFINE Closed(T) == \A r \in T, s \in S : Similar(r, s) => s \in T
<1>1. \A p, q \in S : <<p, q>> \in Joined(S) <=> \A T \in SUBSET S : p \in T /\ Closed(T) => q \in T
  BY JoinedIs
<1>2. \A p \in S : <<p, p>> \in Joined(S)
  BY <1>1
<1>3. \A p, q \in S : Similar(p, q) => <<p, q>> \in Joined(S)
  BY <1>1
<1>4. ASSUME NEW p \in S, NEW q \in S, <<p, q>> \in Joined(S) PROVE <<q, p>> \in Joined(S)
  <2>1. ASSUME NEW T \in SUBSET S, q \in T, Closed(T), p \notin T PROVE FALSE
    <3> DEFINE U == S \ T
    <3>1. U \in SUBSET S /\ p \in U
      BY <2>1
    <3>2. Closed(U)
      <4>1. ASSUME NEW r \in U, NEW s \in S, Similar(r, s), s \notin U PROVE FALSE
        <5>1. s \in T /\ Similar(s, r) /\ r \in S
          BY <4>1, SimilarBack
        <5> QED
          BY <2>1, <4>1, <5>1
      <4> QED
        BY <4>1
    <3>3. q \in U
      <4> HIDE DEF U, Closed
      <4> QED
        BY <1>1, <1>4, <3>1, <3>2
    <3> QED
      BY <2>1, <3>3
  <2> HIDE DEF Closed
  <2> QED
    BY <1>1, <2>1
<1>5. \A p, q, r \in S : <<p, q>> \in Joined(S) /\ <<q, r>> \in Joined(S) => <<p, r>> \in Joined(S)
  <2> HIDE DEF Closed
  <2> QED
    BY <1>1
<1> QED
  BY <1>2, <1>3, <1>4, <1>5

-----------------------------------------------------------------------------
(* What a search for groups keeps true.                                    *)
TextsHeld == {x.text : x \in FileStates}

GroupTypes ==
  /\ onDisk \in [GroupFiles -> FileStates] /\ walked \in [GroupFiles -> FileStates]
  /\ groupCtx \in {"live", "done"} /\ doing \in {"start", "hashing", "pairing", "grouped"}
  /\ kinds = CASE doing = "start" -> "none" [] doing = "hashing" -> "equal"
               [] doing = "pairing" -> "similar" [] OTHER -> kinds
  /\ doing = "grouped" => kinds \in {"equal", "similar"}
  /\ doing = "start" => byHash = {}

(* Hashing: each file once, with what it held then, and none is left out.  *)
HashesGiven ==
  kinds = "equal" =>
    /\ \A h \in byHash : h \in GroupFiles \X TextsHeld /\ h[1] \notin toHash
    /\ \A h, k \in byHash : h[1] = k[1] => h = k
    /\ \A h \in byHash : h[1] \notin Edited => h[2] = walked[h[1]].text
    /\ groupCtx = "live" =>
         \A p \in Crowded(Considered(GroupFiles)) : p \in toHash \/ \E t \in TextsHeld : <<p, t>> \in byHash
    /\ doing = "grouped" =>
         /\ groups = {[members |-> ByPath(g)] : g \in EqualGroups}
         /\ groupCtx = "live" => toHash = {}

(* Pairing: the trees join what the rows done so far found similar,    *)
(* and nothing that no chain of similar pairs joins.                       *)
PairTypes ==
  LET n == Len(arrival)
  IN  /\ n \in Nat /\ arrival \in [1 .. n -> GroupFiles] /\ compared \in 0 .. n
      /\ \A a, b \in 1 .. n : arrival[a] = arrival[b] => a = b
      /\ Forest(parent, 1 .. n)
RowsMerged ==
  \A a \in 1 .. compared : \A b \in a + 1 .. Len(arrival) :
    Similar(arrival[a], arrival[b]) => SameRoot(parent, a, b)
ChainsOnly ==
  \A a, b \in 1 .. Len(arrival) :
    SameRoot(parent, a, b) => <<arrival[a], arrival[b]>> \in Joined(Range(arrival))
PairsGiven ==
  kinds = "similar" =>
    /\ PairTypes /\ RowsMerged /\ ChainsOnly
    /\ doing = "grouped" =>
         /\ compared < Len(arrival) => groupCtx = "done"
         /\ \E cap \in Nat : groups = SimilarGroups(cap)

GroupInv == GroupTypes /\ HashesGiven /\ PairsGiven

LEMMA GroupStarts ==
  ASSUME GroupInit
  PROVE  GroupInv
<1>1. PICK disk \in FirstDisks : GroupStart(disk)
  BY DEF GroupInit
<1>2. disk \in [GroupFiles -> FileStates]
  BY GroupsAssumption
<1>3. GroupTypes
  BY <1>1, <1>2 DEF GroupStart, GroupTypes
<1>4. kinds = "none"
  BY <1>1 DEF GroupStart
<1> QED
  BY <1>3, <1>4 DEF GroupInv, HashesGiven, PairsGiven

LEMMA HashesKept ==
  ASSUME GroupTypes, HashesGiven, GroupNext
  PROVE  HashesGiven'
<1> USE DEF GroupTypes, HashesGiven
<1>1. CASE GroupCancel
  BY <1>1 DEF GroupCancel, EqualGroups, Group, Edited, Crowded, Considered, pairVars
<1>2. CASE WalkForEqual
  <2>1. PICK S \in WalkGives : toHash' = Crowded(Considered(S))
    BY <1>2 DEF WalkForEqual
  <2>2. byHash' = {} /\ doing' = "hashing" /\ groupCtx' = groupCtx /\ walked' = walked
    BY <1>2 DEF WalkForEqual
  <2>3. groupCtx = "live" => S = GroupFiles
    BY <2>1 DEF WalkGives
  <2>4. Crowded(Considered(GroupFiles))' = Crowded(Considered(GroupFiles))
    BY <2>2 DEF Crowded, Considered
  <2> QED
    BY <2>1, <2>2, <2>3, <2>4
<1>3. CASE WalkForSimilar
  BY <1>3 DEF WalkForSimilar
<1>4. CASE CompareRow
  BY <1>4 DEF CompareRow
<1>5. CASE EmitEqual
  <2>1. /\ UNCHANGED <<onDisk, walked, groupCtx, toHash, byHash>> /\ doing' = "grouped" /\ kinds = "equal"
        /\ groups' = {[members |-> ByPath(g)] : g \in EqualGroups}
        /\ toHash = {} \/ groupCtx = "done"
    BY <1>5 DEF EmitEqual
  <2>2. EqualGroups' = EqualGroups /\ Edited' = Edited
        /\ Crowded(Considered(GroupFiles))' = Crowded(Considered(GroupFiles))
    BY <2>1 DEF EqualGroups, Group, Edited, Crowded, Considered
  <2> QED
    BY <2>1, <2>2
<1>6. ASSUME NEW p \in GroupFiles, HashOne(p) PROVE HashesGiven'
  <2> DEFINE new == <<p, onDisk[p].text>>
  <2>1. /\ kinds = "equal" /\ doing = "hashing" /\ p \in toHash
        /\ toHash' = toHash \ {p} /\ byHash' = byHash \cup {new}
        /\ UNCHANGED <<onDisk, walked, groupCtx, doing, kinds>>
    BY <1>6 DEF HashOne
  <2>2. new \in GroupFiles \X TextsHeld /\ new[1] = p /\ new[2] = onDisk[p].text
    BY DEF TextsHeld
  <2>3. p \notin Edited => onDisk[p].text = walked[p].text
    BY DEF Edited
  <2>4. Edited' = Edited /\ Crowded(Considered(GroupFiles))' = Crowded(Considered(GroupFiles))
    BY <2>1 DEF Edited, Crowded, Considered
  <2>5. \A h \in byHash : h[1] # p
    BY <2>1
  <2> HIDE DEF new
  <2>6. \A h \in byHash' : h \in GroupFiles \X TextsHeld /\ h[1] \notin toHash'
    BY <2>1, <2>2, <2>5
  <2>7. \A h, k \in byHash' : h[1] = k[1] => h = k
    BY <2>1, <2>2, <2>5
  <2>8. \A h \in byHash' : h[1] \notin Edited => h[2] = walked[h[1]].text
    BY <2>1, <2>2, <2>3
  <2>9. ASSUME groupCtx = "live", NEW q \in Crowded(Considered(GroupFiles))
        PROVE  q \in toHash' \/ \E t \in TextsHeld : <<q, t>> \in byHash'
    <3>1. CASE q = p
      <4>1. onDisk[p].text \in TextsHeld /\ <<q, onDisk[p].text>> \in byHash'
        BY <2>1, <3>1 DEF TextsHeld, new
      <4> QED
        BY <4>1
    <3>2. CASE q # p
      BY <2>1, <2>9, <3>2
    <3> QED
      BY <3>1, <3>2
  <2> QED
    BY <2>1, <2>4, <2>6, <2>7, <2>8, <2>9
<1>7. ASSUME NEW p \in GroupFiles, NEW f \in FileStates, EditFile(p, f) PROVE HashesGiven'
  <2>1. /\ kinds = "equal" /\ doing = "hashing" /\ p \notin Edited
        /\ onDisk' = [onDisk EXCEPT ![p] = f]
        /\ UNCHANGED <<walked, groupCtx, doing, toHash, byHash, kinds>>
    BY <1>7 DEF EditFile
  <2>2. \A q \in GroupFiles : q \notin Edited' => q \notin Edited
    BY <2>1 DEF Edited
  <2>3. Crowded(Considered(GroupFiles))' = Crowded(Considered(GroupFiles))
    BY <2>1 DEF Crowded, Considered
  <2>4. \A h \in byHash : h[1] \in GroupFiles
    BY <2>1
  <2> QED
    BY <2>1, <2>2, <2>3, <2>4
<1>8. ASSUME NEW cap \in {1, Cardinality(GroupFiles)}, EmitSimilar(cap) PROVE HashesGiven'
  BY <1>8 DEF EmitSimilar
<1> QED
  BY <1>1, <1>2, <1>3, <1>4, <1>5, <1>6, <1>7, <1>8 DEF GroupNext

LEMMA PairsKept ==
  ASSUME GroupTypes, PairsGiven, GroupNext
  PROVE  PairsGiven'
<1> DEFINE n == Len(arrival)
           R == Range(arrival)
<1>0. ASSUME UNCHANGED <<walked, pairVars, kinds>>
      PROVE  /\ PairTypes /\ RowsMerged /\ ChainsOnly => (PairTypes /\ RowsMerged /\ ChainsOnly)'
             /\ \A cap : SimilarGroups(cap)' = SimilarGroups(cap)
  <2> USE <1>0 DEF pairVars
  <2>1. \A p, q : Apart(p, q)' = Apart(p, q) /\ (Similar(p, q)' <=> Similar(p, q))
    BY DEF Similar, Apart, Bits
  <2>2. Joined(R)' = Joined(R)
    BY DEF Joined, Similar, Apart, Bits
  <2>3. \A cap : SimilarGroups(cap)' = SimilarGroups(cap)
    BY DEF SimilarGroups, ByLikeness, Representative, Apart, Bits, Bucket
  <2>4. PairTypes => PairTypes'
    BY DEF PairTypes
  <2>5. RowsMerged => RowsMerged'
    BY <2>1 DEF RowsMerged
  <2>6. ChainsOnly => ChainsOnly'
    BY <2>2 DEF ChainsOnly
  <2> QED
    BY <2>3, <2>4, <2>5, <2>6
<1>1. CASE GroupCancel
  <2>1. UNCHANGED <<walked, pairVars, kinds>> /\ doing' = doing /\ doing # "grouped"
    BY <1>1 DEF GroupCancel
  <2> QED
    BY <1>0, <2>1 DEF PairsGiven
<1>2. CASE WalkForEqual
  BY <1>2 DEF WalkForEqual, PairsGiven
<1>3. CASE WalkForSimilar
  <2>1. PICK S \in WalkGives :
          arrival' \in SetToSeqs({p \in S : walked[p].size >= MinSize /\ Bits(p) # {}})
    BY <1>3 DEF WalkForSimilar
  <2> DEFINE C == {p \in S : walked[p].size >= MinSize /\ Bits(p) # {}}
             m == Cardinality(C)
             D == 1 .. m
  <2>2. C \subseteq GroupFiles /\ m \in Nat
    <3>1. C \subseteq GroupFiles
      BY <2>1 DEF WalkGives
    <3> HIDE DEF C
    <3> QED
      BY <3>1, GroupsAssumption, FS_Subset, FS_CardinalityType
  <2>3. arrival' \in [D -> C] /\ \A a, b \in D : a # b => arrival'[a] # arrival'[b]
    BY <2>1 DEF SetToSeqs
  <2> HIDE DEF C, m
  <2>4. Len(arrival') = m /\ arrival' \in [D -> GroupFiles] /\ DOMAIN arrival' = D
    BY <2>2, <2>3
  <2>5. parent' = [i \in D |-> i] /\ compared' = 0 /\ doing' = "pairing" /\ walked' = walked
    BY <1>3, <2>4 DEF WalkForSimilar
  <2>6. parent' \in [D -> D] /\ \A i \in D : parent'[i] = i
    BY <2>5
  <2>7. \A i \in D : i \in PathUp(parent', i) /\ PathUp(parent', i) \subseteq {i}
    <3> TAKE i \in D
    <3> DEFINE alone == {i}
    <3>1. alone \in SUBSET D /\ i \in alone /\ \A k \in alone : parent'[k] \in alone
      BY <2>6
    <3> HIDE DEF alone
    <3>2. PathUp(parent', i) \subseteq alone /\ i \in PathUp(parent', i)
      BY <2>6, <3>1, PathUpIs
    <3> QED
      BY <3>2 DEF alone
  <2>8. Forest(parent', D)
    BY <2>6, <2>7 DEF Forest
  <2>9. \A i \in D : Root(parent', i) = i
    <3> TAKE i \in D
    <3>1. Root(parent', i) \in PathUp(parent', i)
      BY <2>8, RootIs
    <3> QED
      BY <2>7, <3>1
  <2>10. \A a, b \in D :
           SameRoot(parent', a, b) => <<arrival'[a], arrival'[b]>> \in Joined(Range(arrival))'
    <3>1. ASSUME NEW a \in D, NEW b \in D, SameRoot(parent', a, b)
          PROVE  <<arrival'[a], arrival'[b]>> \in Joined(Range(arrival))'
      <4>1. a = b
        BY <2>9, <3>1 DEF SameRoot
      <4>2. arrival'[a] \in Range(arrival')
        BY <2>4 DEF Range
      <4>3. <<arrival'[a], arrival'[a]>> \in Joined(Range(arrival))'
        BY <4>2 DEF Joined
      <4> QED
        BY <4>1, <4>3
    <3> QED
      BY <3>1
  <2>11. \A a \in 1 .. compared' : FALSE
    BY <2>5
  <2>12. Len(arrival)' = m /\ compared' \in 0 .. m /\ \A a, b \in D : arrival'[a] = arrival'[b] => a = b
    BY <2>2, <2>3, <2>4, <2>5
  <2>13. PairTypes'
    BY <2>2, <2>4, <2>5, <2>8, <2>12 DEF PairTypes
  <2>14. RowsMerged' /\ ChainsOnly'
    BY <2>10, <2>11, <2>12 DEF RowsMerged, ChainsOnly
  <2> QED
    BY <2>5, <2>13, <2>14 DEF PairsGiven
<1>4. CASE CompareRow
  <2>1. /\ kinds = "similar" /\ compared < n /\ compared' = compared + 1 /\ parent' = Merged(parent, compared + 1)
        /\ UNCHANGED <<walked, arrival, doing, kinds>> /\ doing = "pairing"
    BY <1>4 DEF CompareRow, GroupTypes
  <2> DEFINE D == 1 .. n
             i == compared + 1
             E == {e \in D \X D : <<arrival[e[1]], arrival[e[2]]>> \in Joined(R)}
  <2>2. /\ n \in Nat /\ arrival \in [D -> GroupFiles] /\ compared \in 0 .. n
        /\ \A a, b \in D : arrival[a] = arrival[b] => a = b
        /\ Forest(parent, D)
        /\ \A a \in 1 .. compared : \A b \in a + 1 .. n :
             Similar(arrival[a], arrival[b]) => SameRoot(parent, a, b)
        /\ \A a, b \in D : SameRoot(parent, a, b) => <<arrival[a], arrival[b]>> \in Joined(R)
    BY <2>1 DEF PairsGiven, PairTypes, RowsMerged, ChainsOnly
  <2>3. i \in D /\ i \in Nat
    BY <2>1, <2>2
  <2>4. \A a \in D : arrival[a] \in R
    BY <2>2 DEF Range
  <2>5. \A a, b \in D : <<a, b>> \in E <=> <<arrival[a], arrival[b]>> \in Joined(R)
    OBVIOUS
  <2> HIDE DEF E, R
  <2>6. \A a, b \in D : Similar(arrival[a], arrival[b]) => <<a, b>> \in E
    BY <2>4, <2>5, JoinedOrders
  <2>7. \A a, b \in D : <<a, b>> \in E => <<b, a>> \in E
    BY <2>4, <2>5, JoinedOrders
  <2>8. \A a, b, c \in D : <<a, b>> \in E /\ <<b, c>> \in E => <<a, c>> \in E
    <3> TAKE a \in D, b \in D, c \in D
    <3>1. arrival[a] \in R /\ arrival[b] \in R /\ arrival[c] \in R
      BY <2>4
    <3> QED
      BY <2>5, <3>1, JoinedOrders
  <2>9. \A a, b \in D : SameRoot(parent, a, b) => <<a, b>> \in E
    BY <2>2, <2>5
  <2>10. /\ Forest(parent', D)
         /\ \A a, b \in D : SameRoot(parent, a, b) => SameRoot(parent', a, b)
         /\ \A b \in i + 1 .. n : Similar(arrival[i], arrival[b]) => SameRoot(parent', i, b)
         /\ \A a, b \in D : SameRoot(parent', a, b) => <<a, b>> \in E
    <3> HIDE DEF i
    <3>1. parent' = Merged(parent, i)
      BY <2>1 DEF i
    <3> QED
      BY <2>2, <2>3, <2>6, <2>7, <2>8, <2>9, <3>1, MergedRight
  <2>11. \A a \in 1 .. compared' : \A b \in a + 1 .. n :
           Similar(arrival[a], arrival[b]) => SameRoot(parent', a, b)
    <3> TAKE a \in 1 .. compared'
    <3> TAKE b \in a + 1 .. n
    <3>1. CASE a = i
      BY <2>10, <3>1
    <3>2. CASE a # i
      <4>1. a \in 1 .. compared /\ a \in D /\ b \in D
        BY <2>1, <2>2, <3>2
      <4> QED
        BY <2>2, <2>10, <4>1
    <3> QED
      BY <3>1, <3>2
  <2>12. \A a, b \in D : SameRoot(parent', a, b) => <<arrival[a], arrival[b]>> \in Joined(R)
    BY <2>5, <2>10
  <2>13. compared' \in 0 .. n
    BY <2>1, <2>2
  <2>14. Joined(R)' = Joined(R) /\ \A a, b : Similar(arrival[a], arrival[b])' <=> Similar(arrival[a], arrival[b])
    BY <2>1 DEF Joined, Similar, Apart, Bits, R
  <2>15. Len(arrival)' = n /\ arrival' = arrival
    BY <2>1
  <2>16. PairTypes'
    BY <2>2, <2>10, <2>13, <2>15 DEF PairTypes
  <2>17. RowsMerged'
    BY <2>11, <2>14, <2>15 DEF RowsMerged
  <2>18. ChainsOnly'
    BY <2>12, <2>14, <2>15 DEF ChainsOnly, R
  <2> QED
    BY <2>1, <2>16, <2>17, <2>18 DEF PairsGiven
<1>5. CASE EmitEqual
  BY <1>5 DEF EmitEqual, PairsGiven, GroupTypes
<1>6. ASSUME NEW p \in GroupFiles, HashOne(p) PROVE PairsGiven'
  BY <1>6 DEF HashOne, PairsGiven, GroupTypes
<1>7. ASSUME NEW p \in GroupFiles, NEW f \in FileStates, EditFile(p, f) PROVE PairsGiven'
  BY <1>7 DEF EditFile, PairsGiven, GroupTypes
<1>8. ASSUME NEW cap \in {1, Cardinality(GroupFiles)}, EmitSimilar(cap) PROVE PairsGiven'
  <2>1. /\ UNCHANGED <<walked, pairVars, kinds, groupCtx>> /\ doing' = "grouped" /\ kinds = "similar"
        /\ (compared = n \/ groupCtx = "done") /\ groups' = SimilarGroups(cap)
    BY <1>8 DEF EmitSimilar, GroupTypes
  <2>2. groups' = SimilarGroups(cap)
    BY <1>8 DEF EmitSimilar
  <2>3. cap \in Nat
    BY GroupsAssumption, FS_CardinalityType
  <2>4. compared' < Len(arrival)' => groupCtx' = "done"
    BY <2>1 DEF PairsGiven, pairVars
  <2>5. \E c \in Nat : groups' = SimilarGroups(c)'
    BY <1>0, <2>1, <2>2, <2>3
  <2> QED
    BY <1>0, <2>1, <2>4, <2>5 DEF PairsGiven
<1> QED
  BY <1>1, <1>2, <1>3, <1>4, <1>5, <1>6, <1>7, <1>8 DEF GroupNext

LEMMA GroupTypesKept ==
  ASSUME GroupTypes, GroupNext
  PROVE  GroupTypes'
<1>1. CASE GroupCancel
  BY <1>1 DEF GroupCancel, GroupTypes
<1>2. CASE WalkForEqual
  BY <1>2 DEF WalkForEqual, GroupTypes
<1>3. CASE WalkForSimilar
  BY <1>3 DEF WalkForSimilar, GroupTypes
<1>4. CASE CompareRow
  BY <1>4 DEF CompareRow, GroupTypes
<1>5. CASE EmitEqual
  BY <1>5 DEF EmitEqual, GroupTypes
<1>6. ASSUME NEW p \in GroupFiles, HashOne(p) PROVE GroupTypes'
  BY <1>6 DEF HashOne, GroupTypes
<1>7. ASSUME NEW p \in GroupFiles, NEW f \in FileStates, EditFile(p, f) PROVE GroupTypes'
  BY <1>7 DEF EditFile, GroupTypes
<1>8. ASSUME NEW cap \in {1, Cardinality(GroupFiles)}, EmitSimilar(cap) PROVE GroupTypes'
  BY <1>8 DEF EmitSimilar, GroupTypes
<1> QED
  BY <1>1, <1>2, <1>3, <1>4, <1>5, <1>6, <1>7, <1>8 DEF GroupNext

(* A step of something else.                                               *)
LEMMA GroupsRest ==
  ASSUME GroupInv, UNCHANGED groupVars
  PROVE  GroupInv'
<1> USE DEF groupVars, pairVars
<1>1. GroupTypes'
  BY DEF GroupInv, GroupTypes
<1>2. HashesGiven'
  <2>1. /\ EqualGroups' = EqualGroups /\ Edited' = Edited
        /\ Crowded(Considered(GroupFiles))' = Crowded(Considered(GroupFiles))
    BY DEF EqualGroups, Group, Edited, Crowded, Considered
  <2>2. UNCHANGED <<walked, kinds, byHash, toHash, groupCtx, doing, groups>>
    OBVIOUS
  <2> QED
    BY <2>1, <2>2 DEF GroupInv, HashesGiven
<1>3. PairsGiven'
  <2>1. \A p, q : Apart(p, q)' = Apart(p, q) /\ (Similar(p, q)' <=> Similar(p, q))
    BY DEF Similar, Apart, Bits
  <2>2. Joined(Range(arrival))' = Joined(Range(arrival))
    BY DEF Joined, Similar, Apart, Bits
  <2>3. \A cap : SimilarGroups(cap)' = SimilarGroups(cap)
    BY DEF SimilarGroups, ByLikeness, Representative, Apart, Bits, Bucket
  <2>4. PairTypes => PairTypes'
    BY DEF PairTypes
  <2>5. RowsMerged => RowsMerged'
    BY <2>1 DEF RowsMerged
  <2>6. ChainsOnly => ChainsOnly'
    BY <2>2 DEF ChainsOnly
  <2> QED
    BY <2>3, <2>4, <2>5, <2>6 DEF GroupInv, PairsGiven
<1> QED
  BY <1>1, <1>2, <1>3 DEF GroupInv

(* The members of a group of equal files are the group.                    *)
LEMMA ByPathIs ==
  ASSUME NEW g \in SUBSET GroupFiles
  PROVE  IsFiniteSet(g) /\ Range(ByPath(g)) = g
<1> DEFINE R == {e \in Nat \X Nat : e[1] < e[2]}
<1>1. IsFiniteSet(g) /\ g \subseteq Nat
  BY GroupsAssumption, FS_Subset
<1>2. \A x, y \in Nat : <<x, y>> \in R <=> x < y
  OBVIOUS
<1> HIDE DEF R
<1>3. Orders(R, g)
  <2>1. \A x \in g : <<x, x>> \notin R
    BY <1>1, <1>2
  <2>2. \A x, y \in g : x # y => <<x, y>> \in R \/ <<y, x>> \in R
    BY <1>1, <1>2
  <2>3. ASSUME NEW x \in g, NEW y \in g, NEW z \in g, <<x, y>> \in R, <<y, z>> \in R
        PROVE  <<x, z>> \in R
    <3>1. x \in Nat /\ y \in Nat /\ z \in Nat
      BY <1>1
    <3>2. x < y /\ y < z
      BY <1>2, <2>3, <3>1
    <3> QED
      BY <1>2, <3>1, <3>2
  <2> QED
    BY <2>1, <2>2, <2>3 DEF Orders
<1>4. PICK s : Lists(s, R, g)
  BY <1>1, <1>3, ListingExists
<1>5. s \in [1 .. Cardinality(g) -> g] /\ \A i, j \in DOMAIN s : i < j => s[i] < s[j]
  <2>1. s \in [1 .. Cardinality(g) -> g] /\ \A i, j \in 1 .. Cardinality(g) : i < j => <<s[i], s[j]>> \in R
    BY <1>4 DEF Lists
  <2>2. \A i \in 1 .. Cardinality(g) : s[i] \in Nat
    BY <1>1, <2>1
  <2> QED
    BY <1>2, <2>1, <2>2
<1> DEFINE t == ByPath(g)
<1>6. t \in [1 .. Cardinality(g) -> g] /\ \A i, j \in DOMAIN t : i < j => t[i] < t[j]
  BY <1>5 DEF ByPath
<1> HIDE DEF t
<1>7. \A i, j \in 1 .. Cardinality(g) : i < j => <<t[i], t[j]>> \in R
  <2>1. \A i \in 1 .. Cardinality(g) : t[i] \in Nat
    BY <1>1, <1>6
  <2> QED
    BY <1>2, <1>6, <2>1
<1>8. Range(t) = g
  BY <1>1, <1>3, <1>6, <1>7, ListingOnto
<1> QED
  BY <1>1, <1>8 DEF t

LEMMA EqualGiven ==
  ASSUME GroupTypes, HashesGiven, doing = "grouped", kinds = "equal"
  PROVE  EqualRight
<1>1. /\ \A h \in byHash : h \in GroupFiles \X TextsHeld
      /\ \A h, k \in byHash : h[1] = k[1] => h = k
      /\ \A h \in byHash : h[1] \notin Edited => h[2] = walked[h[1]].text
      /\ groupCtx = "live" =>
           \A p \in Crowded(Considered(GroupFiles)) : \E t \in TextsHeld : <<p, t>> \in byHash
      /\ groups = {[members |-> ByPath(g)] : g \in EqualGroups}
  BY DEF HashesGiven
<1>2. \A t : \A p : p \in Group(t) <=> <<p, t>> \in byHash
  <2> TAKE t
  <2> TAKE p
  <2>1. ASSUME p \in Group(t) PROVE <<p, t>> \in byHash
    <3>1. PICK h \in byHash : h[2] = t /\ h[1] = p
      BY <2>1 DEF Group
    <3>2. h \in GroupFiles \X TextsHeld
      BY <1>1
    <3>3. h = <<p, t>>
      BY <3>1, <3>2
    <3> QED
      BY <3>3
  <2>2. ASSUME <<p, t>> \in byHash PROVE p \in Group(t)
    BY <2>2 DEF Group
  <2> QED
    BY <2>1, <2>2
<1>3. \A g \in EqualGroups : \E t \in TextsHeld : g = Group(t) /\ g \in SUBSET GroupFiles
  <2> TAKE g \in EqualGroups
  <2>1. PICK h \in byHash : g = Group(h[2])
    BY DEF EqualGroups
  <2>2. h[2] \in TextsHeld
    BY <1>1
  <2>3. ASSUME NEW p \in g PROVE p \in GroupFiles
    <3>1. <<p, h[2]>> \in byHash
      BY <1>2, <2>1
    <3> QED
      BY <1>1, <3>1
  <2> QED
    BY <2>1, <2>2, <2>3
<1>4. \A g \in groups : \E t \in TextsHeld : Range(g.members) = Group(t)
  <2> TAKE g \in groups
  <2>1. PICK b \in EqualGroups : g = [members |-> ByPath(b)]
    BY <1>1
  <2>2. PICK t \in TextsHeld : b = Group(t) /\ b \in SUBSET GroupFiles
    BY <1>3
  <2>3. Range(g.members) = b
    BY <2>1, <2>2, ByPathIs
  <2> QED
    BY <2>2, <2>3
<1>5. \A g \in groups : \A p, q \in Range(g.members) :
        \E t \in TextsHeld : <<p, t>> \in byHash /\ <<q, t>> \in byHash
  <2> TAKE g \in groups
  <2>1. PICK t \in TextsHeld : Range(g.members) = Group(t)
    BY <1>4
  <2> QED
    BY <1>2, <2>1
<1>6. ASSUME NEW g \in groups, NEW h \in groups, g # h
      PROVE  Range(g.members) \cap Range(h.members) = {}
  <2>1. PICK b \in EqualGroups : g = [members |-> ByPath(b)]
    BY <1>1
  <2>2. PICK c \in EqualGroups : h = [members |-> ByPath(c)]
    BY <1>1
  <2>3. PICK t \in TextsHeld : b = Group(t) /\ b \in SUBSET GroupFiles
    BY <1>3
  <2>4. PICK u \in TextsHeld : c = Group(u) /\ c \in SUBSET GroupFiles
    BY <1>3
  <2>5. t # u
    BY <1>6, <2>1, <2>2, <2>3, <2>4
  <2>6. Range(g.members) = b /\ Range(h.members) = c
    BY <2>1, <2>2, <2>3, <2>4, ByPathIs
  <2>7. ASSUME NEW p \in Group(t), p \in Group(u) PROVE FALSE
    <3>1. <<p, t>> \in byHash /\ <<p, u>> \in byHash
      BY <1>2, <2>7
    <3>2. <<p, t>> = <<p, u>>
      BY <1>1, <3>1
    <3> QED
      BY <2>5, <3>2
  <2> QED
    BY <2>3, <2>4, <2>6, <2>7
<1>7. ASSUME groupCtx = "live", NEW p \in Considered(GroupFiles) \ Edited,
             NEW q \in Considered(GroupFiles) \ Edited, p # q, walked[p] = walked[q]
      PROVE  \E g \in groups : {p, q} \subseteq Range(g.members)
  <2>1. p \in Crowded(Considered(GroupFiles)) /\ q \in Crowded(Considered(GroupFiles))
    BY <1>7 DEF Crowded
  <2>2. PICK t \in TextsHeld : <<p, t>> \in byHash
    BY <1>1, <1>7, <2>1
  <2>3. PICK u \in TextsHeld : <<q, u>> \in byHash
    BY <1>1, <1>7, <2>1
  <2>4. t = walked[p].text /\ u = walked[q].text
    <3>1. <<p, t>>[1] = p /\ <<p, t>>[2] = t /\ <<q, u>>[1] = q /\ <<q, u>>[2] = u
      OBVIOUS
    <3> QED
      BY <1>1, <1>7, <2>2, <2>3, <3>1
  <2>5. t = u
    BY <1>7, <2>4
  <2> DEFINE b == Group(t)
  <2>6. p \in b /\ q \in b
    BY <1>2, <2>2, <2>3, <2>5
  <2>7. ASSUME NEW r \in b PROVE r \in GroupFiles
    <3>1. <<r, t>> \in byHash
      BY <1>2
    <3> QED
      BY <1>1, <3>1
  <2> HIDE DEF b
  <2>8. IsFiniteSet(b) /\ Range(ByPath(b)) = b
    BY <2>7, ByPathIs
  <2>9. Cardinality(b) > 1
    <3>1. IsFiniteSet(b \ {p}) /\ Cardinality(b \ {p}) = Cardinality(b) - 1
      BY <2>6, <2>8, FS_RemoveElement
    <3>2. Cardinality(b \ {p}) \in Nat /\ Cardinality(b) \in Nat /\ Cardinality(b \ {p}) # 0
      <4>1. b \ {p} # {}
        BY <1>7, <2>6
      <4> QED
        BY <2>8, <3>1, <4>1, FS_CardinalityType, FS_EmptySet
    <3> QED
      BY <3>1, <3>2
  <2>10. b \in EqualGroups
    <3>1. b = Group(<<p, t>>[2])
      BY DEF b
    <3> QED
      BY <2>2, <2>9, <3>1 DEF EqualGroups
  <2>11. [members |-> ByPath(b)] \in groups
    BY <1>1, <2>10
  <2> DEFINE r == [members |-> ByPath(b)]
  <2>12. r \in groups /\ {p, q} \subseteq Range(r.members)
    BY <2>6, <2>8, <2>11
  <2> QED
    BY <2>12
<1> QED
  BY <1>5, <1>6, <1>7 DEF EqualRight, TextsHeld

PartOf(p) == {q \in Range(arrival) : <<p, q>> \in Joined(Range(arrival))}

(* When all rows are done, the trees are the parts.                    *)
LEMMA PartIs ==
  ASSUME PairTypes, RowsMerged, ChainsOnly, compared = Len(arrival), NEW a \in 1 .. Len(arrival)
  PROVE  PartOf(arrival[a]) = Bucket(Root(parent, a))
<1> DEFINE n == Len(arrival)
           D == 1 .. n
           R == Range(arrival)
           T == Bucket(Root(parent, a))
<1>1. n \in Nat /\ arrival \in [D -> GroupFiles] /\ DOMAIN arrival = D
  BY DEF PairTypes
<1>2. \A q : q \in R <=> \E b \in D : q = arrival[b]
  BY <1>1 DEF Range
<1>3. \A q : q \in T <=> \E b \in D : q = arrival[b] /\ Root(parent, b) = Root(parent, a)
  BY <1>1 DEF Bucket
<1>4. T \in SUBSET R /\ arrival[a] \in T
  BY <1>2, <1>3
<1> HIDE DEF R, T
<1>5. ASSUME NEW r \in T, NEW s \in R, Similar(r, s) PROVE s \in T
  <2>1. PICK b \in D : r = arrival[b] /\ Root(parent, b) = Root(parent, a)
    BY <1>3
  <2>2. PICK c \in D : s = arrival[c]
    BY <1>2
  <2>3. Root(parent, c) = Root(parent, b)
    <3>1. CASE b = c
      BY <3>1
    <3>2. CASE b < c
      <4>1. b \in 1 .. compared /\ c \in b + 1 .. n
        BY <1>1, <3>2
      <4> QED
        BY <1>5, <2>1, <2>2, <4>1 DEF RowsMerged, SameRoot
    <3>3. CASE c < b
      <4>1. c \in 1 .. compared /\ b \in c + 1 .. n
        BY <1>1, <3>3
      <4>2. Similar(s, r)
        BY <1>5, SimilarBack
      <4> QED
        BY <2>1, <2>2, <4>1, <4>2 DEF RowsMerged, SameRoot
    <3> QED
      BY <1>1, <3>1, <3>2, <3>3
  <2> QED
    BY <1>3, <2>1, <2>2, <2>3
<1>6. ASSUME NEW q \in R, <<arrival[a], q>> \in Joined(R) PROVE q \in T
  <2>1. arrival[a] \in R
    BY <1>4
  <2> QED
    BY <1>4, <1>5, <1>6, <2>1, JoinedIs
<1>7. ASSUME NEW q \in T PROVE q \in R /\ <<arrival[a], q>> \in Joined(R)
  <2>1. PICK b \in D : q = arrival[b] /\ Root(parent, b) = Root(parent, a)
    BY <1>3
  <2> QED
    BY <1>4, <2>1 DEF ChainsOnly, SameRoot, R
<1> QED
  BY <1>6, <1>7 DEF PartOf, R, T

LEMMA ApartType ==
  ASSUME GroupTypes, NEW p \in GroupFiles, NEW q \in GroupFiles
  PROVE  Apart(p, q) \in Nat
<1> DEFINE X == (Bits(p) \ Bits(q)) \cup (Bits(q) \ Bits(p))
<1>1. walked[p] \in FileStates /\ walked[q] \in FileStates
  BY DEF GroupTypes
<1>2. IsFiniteSet(Bits(p)) /\ IsFiniteSet(Bits(q))
  BY <1>1, GroupsAssumption DEF Bits
<1>3. IsFiniteSet(Bits(p) \cup Bits(q)) /\ X \subseteq Bits(p) \cup Bits(q)
  BY <1>2, FS_Union
<1> HIDE DEF X
<1>4. Cardinality(X) \in Nat
  BY <1>3, FS_Subset, FS_CardinalityType
<1> QED
  BY <1>4 DEF Apart, X

LEMMA RepresentativeIs ==
  ASSUME GroupTypes, NEW g \in SUBSET GroupFiles, g # {}
  PROVE  Representative(g) \in g
<1> DEFINE big(p, q) == walked[p].size > walked[q].size \/ (walked[p].size = walked[q].size /\ p < q)
           R == {e \in g \X g : big(e[2], e[1])}
<1>1. IsFiniteSet(g) /\ g \subseteq Nat
  BY GroupsAssumption, FS_Subset
<1>2. \A p \in g : walked[p].size \in Nat
  BY GroupsAssumption DEF GroupTypes
<1>3. \A p, q \in g : <<p, q>> \in R <=> big(q, p)
  OBVIOUS
<1> HIDE DEF R
<1>4. Orders(R, g)
  <2>1. \A p \in g : <<p, p>> \notin R
    BY <1>1, <1>2, <1>3
  <2>2. \A p, q \in g : p # q => <<p, q>> \in R \/ <<q, p>> \in R
    BY <1>1, <1>2, <1>3
  <2>3. ASSUME NEW p \in g, NEW q \in g, NEW r \in g, <<p, q>> \in R, <<q, r>> \in R
        PROVE  <<p, r>> \in R
    <3>1. p \in Nat /\ q \in Nat /\ r \in Nat
      BY <1>1
    <3>2. walked[p].size \in Nat /\ walked[q].size \in Nat /\ walked[r].size \in Nat
      BY <1>2
    <3>3. big(q, p) /\ big(r, q)
      BY <1>3, <2>3
    <3>4. big(r, p)
      BY <3>1, <3>2, <3>3
    <3> HIDE DEF big
    <3> QED
      BY <1>3, <3>4
  <2> HIDE DEF big
  <2> QED
    BY <2>1, <2>2, <2>3 DEF Orders
<1>5. \E m \in g : \A x \in g \ {m} : <<x, m>> \in R
  <2>1. IsFiniteSet(g) /\ g # {} /\ Orders(R, g)
    BY <1>1, <1>4
  <2> HIDE DEF big
  <2> QED
    BY ONLY <2>1, LastOfSet
<1>6. \E m \in g : \A x \in g \ {m} : big(m, x)
  BY <1>3, <1>5
<1> QED
  BY <1>6 DEF Representative

LEMMA ByLikenessIs ==
  ASSUME GroupTypes, NEW g \in SUBSET GroupFiles, g # {}
  PROVE  /\ ByLikeness(g) \in [1 .. Cardinality(g) -> g] /\ Range(ByLikeness(g)) = g
         /\ \A i, j \in 1 .. Cardinality(g) :
              i < j => Apart(Representative(g), ByLikeness(g)[i]) <= Apart(Representative(g), ByLikeness(g)[j])
<1> DEFINE rep == Representative(g)
           nearer(p, q) == Apart(rep, p) < Apart(rep, q) \/ (Apart(rep, p) = Apart(rep, q) /\ p < q)
           R == {e \in g \X g : nearer(e[1], e[2])}
           t == ByLikeness(g)
<1>1. IsFiniteSet(g) /\ g \subseteq Nat
  BY GroupsAssumption, FS_Subset
<1>2. \A p \in g : Apart(rep, p) \in Nat
  <2>1. rep \in GroupFiles
    BY RepresentativeIs
  <2> QED
    BY <2>1, ApartType
<1>3. t = CHOOSE s \in [1 .. Cardinality(g) -> g] : \A i, j \in DOMAIN s : i < j => nearer(s[i], s[j])
  BY DEF ByLikeness
<1> HIDE DEF rep, t
<1>4. \A p, q \in g : <<p, q>> \in R <=> nearer(p, q)
  OBVIOUS
<1> HIDE DEF R
<1>5. Orders(R, g)
  <2>1. \A p \in g : <<p, p>> \notin R
    BY <1>1, <1>2, <1>4
  <2>2. \A p, q \in g : p # q => <<p, q>> \in R \/ <<q, p>> \in R
    BY <1>1, <1>2, <1>4
  <2>3. ASSUME NEW p \in g, NEW q \in g, NEW r \in g, <<p, q>> \in R, <<q, r>> \in R
        PROVE  <<p, r>> \in R
    <3>1. p \in Nat /\ q \in Nat /\ r \in Nat
      BY <1>1
    <3>2. Apart(rep, p) \in Nat /\ Apart(rep, q) \in Nat /\ Apart(rep, r) \in Nat
      BY <1>2
    <3>3. nearer(p, q) /\ nearer(q, r)
      BY <1>4, <2>3
    <3>4. nearer(p, r)
      BY <3>1, <3>2, <3>3
    <3> HIDE DEF nearer
    <3> QED
      BY <1>4, <3>4
  <2> HIDE DEF nearer
  <2> QED
    BY <2>1, <2>2, <2>3 DEF Orders
<1>6. PICK s : Lists(s, R, g)
  BY <1>1, <1>5, ListingExists
<1>7. s \in [1 .. Cardinality(g) -> g] /\ \A i, j \in DOMAIN s : i < j => nearer(s[i], s[j])
  <2>1. s \in [1 .. Cardinality(g) -> g] /\ \A i, j \in 1 .. Cardinality(g) : i < j => <<s[i], s[j]>> \in R
    BY <1>6 DEF Lists
  <2> HIDE DEF nearer
  <2> QED
    BY <1>4, <2>1
<1>8. t \in [1 .. Cardinality(g) -> g] /\ \A i, j \in DOMAIN t : i < j => nearer(t[i], t[j])
  <2> HIDE DEF nearer
  <2> QED
    BY <1>3, <1>7
<1>9. \A i, j \in 1 .. Cardinality(g) : i < j => <<t[i], t[j]>> \in R
  <2> HIDE DEF nearer
  <2> QED
    BY <1>4, <1>8
<1>10. Range(t) = g
  BY <1>1, <1>5, <1>8, <1>9, ListingOnto
<1>11. \A i, j \in 1 .. Cardinality(g) : i < j => Apart(rep, t[i]) <= Apart(rep, t[j])
  <2> TAKE i \in 1 .. Cardinality(g), j \in 1 .. Cardinality(g)
  <2>1. t[i] \in g /\ t[j] \in g
    BY <1>8
  <2>2. Apart(rep, t[i]) \in Nat /\ Apart(rep, t[j]) \in Nat
    BY <1>2, <2>1
  <2>3. i < j => nearer(t[i], t[j])
    <3> HIDE DEF nearer
    <3> QED
      BY <1>8
  <2> QED
    BY <2>2, <2>3
<1> QED
  BY <1>8, <1>10, <1>11 DEF rep, t

(* What is emitted of a part, and what it says of it.                      *)
Emitted(cap, g) ==
  [members |-> SubSeq(ByLikeness(g), 1, Min({cap, Cardinality(g)})),
   rep |-> Representative(g), total |-> Cardinality(g)]

LEMMA EmittedIs ==
  ASSUME GroupTypes, NEW cap \in Nat, NEW g \in SUBSET GroupFiles, g # {}
  PROVE  LET e == Emitted(cap, g)
         IN  /\ e.rep = Representative(g) /\ e.total = Cardinality(g)
             /\ Range(e.members) \subseteq g
             /\ \A p \in Range(e.members), q \in g \ Range(e.members) : Apart(e.rep, p) <= Apart(e.rep, q)
<1> DEFINE e == Emitted(cap, g)
           s == ByLikeness(g)
           c == Cardinality(g)
           m == Min({cap, c})
           rep == Representative(g)
<1>1. IsFiniteSet(g) /\ c \in Nat
  BY GroupsAssumption, FS_Subset, FS_CardinalityType
<1>2. m \in Nat /\ m <= c
  <2> DEFINE two == {cap, c}
  <2>1. two \in SUBSET Nat /\ two # {} /\ c \in two
    BY <1>1
  <2> HIDE DEF two
  <2>2. Min(two) \in two /\ Min(two) <= c
    BY <2>1, LeastNat
  <2> QED
    BY <2>1, <2>2 DEF two
<1>3. s \in [1 .. c -> g] /\ Range(s) = g
      /\ \A i, j \in 1 .. c : i < j => Apart(rep, s[i]) <= Apart(rep, s[j])
  BY ByLikenessIs
<1>4. e.rep = rep /\ e.total = c /\ e.members = SubSeq(s, 1, m)
  BY DEF Emitted
<1> HIDE DEF e, s, c, m, rep
<1>5. DOMAIN e.members = 1 .. m /\ \A i \in 1 .. m : e.members[i] = s[i]
  <2>1. \A i \in 1 .. m : s[i] \in g
    BY <1>1, <1>2, <1>3
  <2>2. /\ SubSeq(s, 1, m) \in Seq(g) /\ Len(SubSeq(s, 1, m)) = IF 1 <= m THEN m - 1 + 1 ELSE 0
        /\ \A i \in 1 .. m - 1 + 1 : SubSeq(s, 1, m)[i] = s[1 + i - 1]
    BY <1>2, <2>1, SubSeqProperties
  <2>3. Len(SubSeq(s, 1, m)) = m /\ \A i \in 1 .. m : SubSeq(s, 1, m)[i] = s[i]
    BY <1>2, <2>2
  <2>4. DOMAIN SubSeq(s, 1, m) = 1 .. m
    BY <2>2, <2>3, LenProperties
  <2> QED
    BY <1>4, <2>3, <2>4
<1>6. \A p : p \in Range(e.members) <=> \E i \in 1 .. m : p = s[i]
  BY <1>5 DEF Range
<1>7. Range(e.members) \subseteq g
  BY <1>1, <1>2, <1>3, <1>6
<1>8. ASSUME NEW p \in Range(e.members), NEW q \in g \ Range(e.members)
      PROVE  Apart(rep, p) <= Apart(rep, q)
  <2>1. PICK i \in 1 .. m : p = s[i]
    BY <1>6
  <2>2. PICK j \in 1 .. c : q = s[j]
    BY <1>3 DEF Range
  <2>3. i < j
    <3>1. j \notin 1 .. m
      BY <1>6, <1>8, <2>2
    <3> QED
      BY <1>1, <1>2, <3>1
  <2> QED
    BY <1>1, <1>2, <1>3, <2>1, <2>2, <2>3
<1> QED
  BY <1>4, <1>7, <1>8 DEF e, c, rep

(* The groups are the parts the chains make, which says more than          *)
(* SimilarRight claims.                                                    *)
GroupChainsRight ==
  LET parts == {g \in {PartOf(p) : p \in Range(arrival)} : Cardinality(g) > 1}
  IN  /\ groups = {} \/ {g.rep : g \in groups} = {Representative(g) : g \in parts}
      /\ groupCtx = "live" /\ groups = {} => parts = {}
      /\ \A g \in groups :
           /\ Range(g.members) \subseteq PartOf(g.rep) /\ g.total = Cardinality(PartOf(g.rep))
           /\ Len(g.members) < g.total =>
                \A p \in Range(g.members), q \in PartOf(g.rep) \ Range(g.members) :
                  Apart(g.rep, p) <= Apart(g.rep, q)

LEMMA ChainsGiven ==
  ASSUME GroupTypes, PairsGiven, doing = "grouped", kinds = "similar"
  PROVE  GroupChainsRight
<1> DEFINE n == Len(arrival)
           D == 1 .. n
           R == Range(arrival)
           parts == {g \in {PartOf(p) : p \in R} : Cardinality(g) > 1}
<1>1. /\ PairTypes /\ RowsMerged /\ ChainsOnly
      /\ compared < n => groupCtx = "done"
  BY DEF PairsGiven
<1>2. PICK cap \in Nat : groups = SimilarGroups(cap)
  BY DEF PairsGiven
<1>3. n \in Nat /\ arrival \in [D -> GroupFiles] /\ DOMAIN arrival = D /\ compared \in 0 .. n
  BY <1>1 DEF PairTypes
<1>4. \A q : q \in R <=> \E b \in D : q = arrival[b]
  BY <1>3 DEF Range
<1>5. R \subseteq GroupFiles /\ \A p \in R : PartOf(p) \subseteq R
  BY <1>3, <1>4 DEF PartOf
<1>6. GroupChainsRight <=>
        /\ groups = {} \/ {g.rep : g \in groups} = {Representative(g) : g \in parts}
        /\ groupCtx = "live" /\ groups = {} => parts = {}
        /\ \A g \in groups :
             /\ Range(g.members) \subseteq PartOf(g.rep) /\ g.total = Cardinality(PartOf(g.rep))
             /\ Len(g.members) < g.total =>
                  \A p \in Range(g.members), q \in PartOf(g.rep) \ Range(g.members) :
                    Apart(g.rep, p) <= Apart(g.rep, q)
  BY DEF GroupChainsRight
<1> HIDE DEF R
<1>7. CASE compared < n
  <2>1. groups = {}
    BY <1>2, <1>7 DEF SimilarGroups
  <2>2. groupCtx = "done"
    BY <1>1, <1>7
  <2> HIDE DEF parts
  <2> QED
    BY <1>6, <2>1, <2>2
<1>8. CASE compared = n /\ n < 2
  <2>1. groups = {}
    BY <1>2, <1>8 DEF SimilarGroups
  <2>2. ASSUME NEW p \in R PROVE ~(Cardinality(PartOf(p)) > 1)
    <3> DEFINE one == {arrival[1]}
    <3>1. PartOf(p) \subseteq one
      BY <1>3, <1>4, <1>5, <1>8, <2>2
    <3>2. IsFiniteSet(one) /\ Cardinality(one) = 1
      BY FS_Singleton
    <3> HIDE DEF one
    <3>3. Cardinality(PartOf(p)) <= 1 /\ Cardinality(PartOf(p)) \in Nat
      BY <3>1, <3>2, FS_Subset, FS_CardinalityType
    <3> QED
      BY <3>3
  <2>3. parts = {}
    BY <2>2
  <2> HIDE DEF parts
  <2> QED
    BY <1>6, <2>1, <2>3
<1>9. CASE compared = n /\ ~(n < 2)
  <2>1. \A a \in D : PartOf(arrival[a]) = Bucket(Root(parent, a)) /\ Root(parent, a) \in D
    <3>1. Forest(parent, D)
      BY <1>1 DEF PairTypes
    <3> QED
      BY <1>1, <1>9, <3>1, PartIs, RootIs
  <2>2. {g \in {Bucket(r) : r \in DOMAIN arrival} : Cardinality(g) > 1} = parts
    <3>1. ASSUME NEW r \in D, Cardinality(Bucket(r)) > 1 PROVE Bucket(r) \in parts
      <4>1. Bucket(r) # {}
        BY <3>1, FS_EmptySet
      <4>2. PICK a \in D : Root(parent, a) = r
        BY <1>3, <4>1 DEF Bucket
      <4>3. PartOf(arrival[a]) = Bucket(r) /\ arrival[a] \in R
        BY <1>4, <2>1, <4>2
      <4> QED
        BY <3>1, <4>3
    <3>2. ASSUME NEW g \in parts PROVE g \in {g0 \in {Bucket(r) : r \in D} : Cardinality(g0) > 1}
      <4>1. PICK p \in R : g = PartOf(p) /\ Cardinality(g) > 1
        BY <3>2
      <4>2. PICK a \in D : p = arrival[a]
        BY <1>4
      <4> QED
        BY <2>1, <4>1, <4>2
    <3> QED
      BY <1>3, <3>1, <3>2
  <2>3. groups = {Emitted(cap, g) : g \in parts}
    <3>1. groups = {Emitted(cap, g) :
                      g \in {g \in {Bucket(r) : r \in DOMAIN arrival} : Cardinality(g) > 1}}
      BY <1>2, <1>3, <1>9 DEF SimilarGroups, Emitted
    <3> HIDE DEF parts
    <3> QED
      BY <2>2, <3>1
  <2>4. ASSUME NEW g \in parts
        PROVE  /\ g \in SUBSET GroupFiles /\ g # {}
               /\ Representative(g) \in g /\ PartOf(Representative(g)) = g
    <3>1. PICK p \in R : g = PartOf(p) /\ Cardinality(g) > 1
      BY <2>4
    <3>2. g \in SUBSET GroupFiles /\ g \subseteq R
      BY <1>5, <3>1
    <3>3. g # {}
      BY <3>1, FS_EmptySet
    <3>4. Representative(g) \in g
      BY <3>2, <3>3, RepresentativeIs
    <3> DEFINE rep == Representative(g)
    <3>5. rep \in R /\ <<p, rep>> \in Joined(R)
      BY <3>1, <3>2, <3>4 DEF PartOf, R
    <3> HIDE DEF rep
    <3>6. \A q \in R : <<rep, q>> \in Joined(R) <=> <<p, q>> \in Joined(R)
      <4> TAKE q \in R
      <4>1. <<rep, p>> \in Joined(R)
        BY <3>5, JoinedOrders
      <4>2. <<rep, q>> \in Joined(R) => <<p, q>> \in Joined(R)
        BY <3>5, JoinedOrders
      <4>3. <<p, q>> \in Joined(R) => <<rep, q>> \in Joined(R)
        BY <3>5, <4>1, JoinedOrders
      <4> QED
        BY <4>2, <4>3
    <3>7. PartOf(rep) = PartOf(p)
      BY <3>6 DEF PartOf, R
    <3> QED
      BY <3>1, <3>2, <3>3, <3>4, <3>7 DEF rep
  <2> HIDE DEF parts
  <2>5. ASSUME NEW g \in parts
        PROVE  LET e == Emitted(cap, g)
               IN  /\ e.rep = Representative(g) /\ e.total = Cardinality(g)
                   /\ Range(e.members) \subseteq g
                   /\ \A p \in Range(e.members), q \in g \ Range(e.members) :
                        Apart(e.rep, p) <= Apart(e.rep, q)
    <3>1. g \in SUBSET GroupFiles /\ g # {}
      BY <2>4
    <3> QED
      BY <3>1, EmittedIs
  <2>6. {g.rep : g \in groups} = {Representative(g) : g \in parts}
    <3>1. \A e : e \in groups <=> \E g \in parts : e = Emitted(cap, g)
      BY <2>3
    <3>2. \A g \in parts : Emitted(cap, g).rep = Representative(g)
      BY <2>5
    <3>3. \A x : x \in {g.rep : g \in groups} <=> \E g \in parts : x = Representative(g)
      BY <3>1, <3>2
    <3> QED
      BY <3>3
  <2>7. groups = {} => parts = {}
    BY <2>3
  <2>8. ASSUME NEW e \in groups
        PROVE  /\ Range(e.members) \subseteq PartOf(e.rep) /\ e.total = Cardinality(PartOf(e.rep))
               /\ \A p \in Range(e.members), q \in PartOf(e.rep) \ Range(e.members) :
                    Apart(e.rep, p) <= Apart(e.rep, q)
    <3>1. PICK g \in parts : e = Emitted(cap, g)
      BY <2>3
    <3>2. PartOf(e.rep) = g
      BY <2>4, <2>5, <3>1
    <3>3. /\ e.total = Cardinality(g) /\ Range(e.members) \subseteq g
          /\ \A p \in Range(e.members), q \in g \ Range(e.members) : Apart(e.rep, p) <= Apart(e.rep, q)
      BY <2>5, <3>1
    <3> QED
      BY <3>2, <3>3
  <2>9. \A g \in groups :
          /\ Range(g.members) \subseteq PartOf(g.rep) /\ g.total = Cardinality(PartOf(g.rep))
          /\ Len(g.members) < g.total =>
               \A p \in Range(g.members), q \in PartOf(g.rep) \ Range(g.members) :
                 Apart(g.rep, p) <= Apart(g.rep, q)
    BY ONLY <2>8
  <2>10. groups = {} \/ {g.rep : g \in groups} = {Representative(g) : g \in parts}
    BY ONLY <2>6
  <2>11. groupCtx = "live" /\ groups = {} => parts = {}
    BY ONLY <2>7
  <2> QED
    BY ONLY <1>6, <2>9, <2>10, <2>11, Zenon
<1>10. compared < n \/ (compared = n /\ n < 2) \/ (compared = n /\ ~(n < 2))
  <2>1. n \in Nat /\ compared \in 0 .. n
    BY <1>3
  <2> HIDE DEF n
  <2> QED
    BY <2>1
<1> QED
  BY ONLY <1>7, <1>8, <1>9, <1>10

LEMMA SimilarGiven == GroupChainsRight => SimilarRight
<1> SUFFICES ASSUME GroupChainsRight PROVE SimilarRight
  OBVIOUS
<1> DEFINE parts == {g \in {PartOf(p) : p \in Range(arrival)} : Cardinality(g) > 1}
<1>1. /\ groups = {} \/ {g.rep : g \in groups} = {Representative(g) : g \in parts}
      /\ groupCtx = "live" /\ groups = {} => parts = {}
      /\ \A g \in groups :
           /\ Range(g.members) \subseteq PartOf(g.rep) /\ g.total = Cardinality(PartOf(g.rep))
           /\ Len(g.members) < g.total =>
                \A p \in Range(g.members), q \in PartOf(g.rep) \ Range(g.members) :
                  Apart(g.rep, p) <= Apart(g.rep, q)
  BY DEF GroupChainsRight
<1>2. SimilarRight <=>
        /\ groupCtx = "live" /\ groups = {} => parts = {}
        /\ groups # {} =>
             \A g \in parts : AllSimilar(g) => \E h \in groups : h.rep = Representative(g)
        /\ \A g \in groups :
             /\ Range(g.members) \subseteq PartOf(g.rep)
             /\ AllSimilar(PartOf(g.rep)) =>
                  /\ g.total = Cardinality(PartOf(g.rep))
                  /\ \A p \in Range(g.members), q \in PartOf(g.rep) \ Range(g.members) :
                       Len(g.members) < g.total => Apart(g.rep, p) <= Apart(g.rep, q)
  BY DEF SimilarRight, PartOf
<1> HIDE DEF parts
<1>3. ASSUME groups # {}, NEW g \in parts PROVE \E h \in groups : h.rep = Representative(g)
  <2>1. Representative(g) \in {h.rep : h \in groups}
    BY <1>1, <1>3
  <2> QED
    BY <2>1
<1> QED
  BY <1>1, <1>2, <1>3

(* The groups of equal files are those of their definition, and those of   *)
(* similar ones lie within the chains of similar pairs, with all of a set  *)
(* of which any two are similar in one, whatever changes meanwhile.        *)
THEOREM GroupsTold == GroupSpec => []GroupsExact
<1>1. GroupInit => GroupInv
  BY GroupStarts
<1>2. GroupInv /\ [GroupNext]_groupVars => GroupInv'
  <2>1. GroupInv /\ GroupNext => GroupInv'
    BY GroupTypesKept, HashesKept, PairsKept DEF GroupInv
  <2>2. GroupInv /\ UNCHANGED groupVars => GroupInv'
    BY GroupsRest
  <2> QED
    BY <2>1, <2>2
<1>3. GroupInv => GroupsExact
  <2>1. ASSUME GroupInv, doing = "grouped", kinds = "equal" PROVE EqualRight
    BY <2>1, EqualGiven DEF GroupInv
  <2>2. ASSUME GroupInv, doing = "grouped", kinds = "similar" PROVE SimilarRight
    BY <2>2, ChainsGiven, SimilarGiven DEF GroupInv
  <2>3. ASSUME GroupInv, doing = "grouped" PROVE kinds \in {"equal", "similar"}
    BY <2>3 DEF GroupInv, GroupTypes
  <2> QED
    BY <2>1, <2>2, <2>3 DEF GroupsExact
<1> QED
  BY <1>1, <1>2, <1>3, PTL DEF GroupSpec

-----------------------------------------------------------------------------
(* The symbol index and the exports: each map is what the files taken in   *)
(* so far give it.                                                         *)
Built == results \ unbuilt
Taken == {p \in results \ unnoted : Attributed(p)}

IndexGiven ==
  /\ IsFiniteSet(results) /\ unbuilt \subseteq results
  /\ definedIn = UNION {Definitions(p) : p \in Built}
  /\ referencedBy = UNION {References(files[p]) \X {p} : p \in Built}
  /\ callsByName = UNION {CallEdges(files[p]) : p \in Built}
  /\ testFiles = {p \in Built : files[p].test}
  /\ dispatchTargets = UNION {ValueRefs(files[p]) : p \in Built}

SignalsGiven ==
  /\ unnoted \subseteq results
  /\ refPkgs = UNION {References(files[p]) \X {EffectivePkg(p)} : p \in Taken}
  /\ valueRefFuncs = UNION {ValueRefs(files[p]) : p \in Taken}
  /\ sigTypes = UNION {SignatureTypes(files[p]) : p \in Taken}
  /\ interfaceMethods = UNION {InterfaceMethods(files[p]) : p \in Taken}

(* The first file to define a name gives its entry; it is ambiguous if     *)
(* another package defines it too.                                         *)
DefinedBy(n) == {p \in Taken : n \in ExportedNames(p)}
EntryOf(p, n, m) == [kind |-> KindOf(p, n), path |-> p, pkg |-> EffectivePkg(p), multi |-> m]
Elsewhere(p, n) == \E q \in DefinedBy(n) : EffectivePkg(q) # EffectivePkg(p)
DefsGiven ==
  \A n \in Names :
    /\ DefinedBy(n) = {} => defs[n] = NoDef
    /\ DefinedBy(n) # {} =>
         \E p \in DefinedBy(n), m \in BOOLEAN : defs[n] = EntryOf(p, n, m) /\ (m <=> Elsewhere(p, n))

ReportInv == IndexGiven /\ SignalsGiven /\ DefsGiven

LEMMA ReportStarts ==
  ASSUME GraphInit, ExportInit
  PROVE  ReportInv
<1>1. PICK tr \in SourceTrees : \E found \in SUBSET DOMAIN tr : GraphStart(tr, found)
  BY DEF GraphInit
<1>2. PICK found \in SUBSET DOMAIN tr : GraphStart(tr, found)
  BY <1>1
<1>3. IsFiniteSet(found)
  BY <1>1, CodeGraphAssumption, FS_Subset
<1>4. Built = {} /\ Taken = {} /\ results = found
  BY <1>2 DEF Built, Taken, GraphStart, ExportInit
<1>5. IndexGiven
  BY <1>2, <1>3, <1>4 DEF IndexGiven, GraphStart
<1>6. SignalsGiven
  BY <1>4 DEF SignalsGiven, ExportInit
<1>7. DefsGiven
  BY <1>4 DEF DefsGiven, DefinedBy, ExportInit
<1> QED
  BY <1>5, <1>6, <1>7 DEF ReportInv

LEMMA BuildKeeps ==
  ASSUME ReportInv, BuildNext, UNCHANGED exportVars
  PROVE  ReportInv'
<1>1. PICK p \in unbuilt : AddFile(p)
  BY DEF BuildNext
<1>2. files' = files /\ results' = results /\ unbuilt' = unbuilt \ {p} /\ p \in results
  BY <1>1 DEF AddFile, ReportInv, IndexGiven
<1>3. Built' = Built \cup {p}
  BY <1>1, <1>2 DEF Built
<1>4. /\ \A q : Definitions(q)' = Definitions(q)
  BY <1>2 DEF Definitions
<1>5. IndexGiven'
  <2>1. definedIn' = UNION {Definitions(q) : q \in Built \cup {p}}
    BY <1>1 DEF AddFile, ReportInv, IndexGiven
  <2>2. referencedBy' = UNION {References(files[q]) \X {q} : q \in Built \cup {p}}
    BY <1>1 DEF AddFile, ReportInv, IndexGiven
  <2>3. callsByName' = UNION {CallEdges(files[q]) : q \in Built \cup {p}}
    BY <1>1 DEF AddFile, ReportInv, IndexGiven
  <2>4. dispatchTargets' = UNION {ValueRefs(files[q]) : q \in Built \cup {p}}
    BY <1>1 DEF AddFile, ReportInv, IndexGiven
  <2>5. testFiles' = {q \in Built \cup {p} : files[q].test}
    <3>1. testFiles' = IF files[p].test THEN testFiles \cup {p} ELSE testFiles
      BY <1>1 DEF AddFile
    <3>2. testFiles = {q \in Built : files[q].test}
      BY DEF ReportInv, IndexGiven
    <3> QED
      BY <3>1, <3>2
  <2>6. IsFiniteSet(results) /\ unbuilt' \subseteq results
    BY <1>2 DEF ReportInv, IndexGiven
  <2>7. definedIn' = UNION {Definitions(q) : q \in Built}'
    BY <1>3, <1>4, <2>1
  <2> QED
    BY <1>2, <1>3, <2>2, <2>3, <2>4, <2>5, <2>6, <2>7 DEF IndexGiven
<1>6. SignalsGiven' /\ DefsGiven'
  <2>1. Taken' = Taken /\ \A q : EffectivePkg(q)' = EffectivePkg(q)
    BY <1>2 DEF Taken, Attributed, EffectivePkg, exportVars
  <2>2. \A q : ExportedNames(q)' = ExportedNames(q) /\ \A n : KindOf(q, n)' = KindOf(q, n)
    BY <1>2 DEF ExportedNames, KindOf
  <2>3. \A n : DefinedBy(n)' = DefinedBy(n)
    BY <2>1, <2>2 DEF DefinedBy
  <2>4. \A q, n : /\ (Elsewhere(q, n)' <=> Elsewhere(q, n))
                  /\ \A m : EntryOf(q, n, m)' = EntryOf(q, n, m)
    BY <2>1, <2>2, <2>3 DEF Elsewhere, EntryOf
  <2>5. SignalsGiven'
    BY <1>2, <2>1 DEF SignalsGiven, ReportInv, exportVars
  <2>6. DefsGiven'
    <3>1. DefsGiven /\ defs' = defs
      BY DEF ReportInv, exportVars
    <3> QED
      BY <2>3, <2>4, <3>1 DEF DefsGiven
  <2> QED
    BY <2>5, <2>6
<1> QED
  BY <1>5, <1>6 DEF ReportInv

LEMMA NoteKeeps ==
  ASSUME ReportInv, ExportNext, UNCHANGED graphVars
  PROVE  ReportInv'
<1>1. PICK p \in unnoted : NoteFile(p)
  BY DEF ExportNext
<1>2. files' = files /\ results' = results /\ unbuilt' = unbuilt /\ UNCHANGED indexVars
  BY DEF graphVars
<1>3. unnoted' = unnoted \ {p} /\ p \in results
  BY <1>1 DEF NoteFile, ReportInv, SignalsGiven
<1>4. IndexGiven'
  <2>1. Built' = Built /\ \A q : Definitions(q)' = Definitions(q)
    BY <1>2 DEF Built, Definitions
  <2> QED
    BY <1>2, <2>1 DEF IndexGiven, ReportInv, indexVars
<1>5. /\ \A q : (Attributed(q)' <=> Attributed(q)) /\ EffectivePkg(q)' = EffectivePkg(q)
      /\ \A q : ExportedNames(q)' = ExportedNames(q) /\ \A n : KindOf(q, n)' = KindOf(q, n)
  BY <1>2 DEF Attributed, EffectivePkg, ExportedNames, KindOf
<1>6. \A q, n, m : EntryOf(q, n, m)' = EntryOf(q, n, m)
  BY <1>5 DEF EntryOf
<1>7. CASE ~Attributed(p)
  <2>1. Taken' = Taken
    BY <1>2, <1>3, <1>5, <1>7 DEF Taken
  <2>2. UNCHANGED <<defs, refPkgs, valueRefFuncs, sigTypes, interfaceMethods>>
    BY <1>1, <1>7 DEF NoteFile
  <2>3. SignalsGiven'
    BY <1>2, <1>3, <1>5, <2>1, <2>2 DEF SignalsGiven, ReportInv
  <2>4. \A n : DefinedBy(n)' = DefinedBy(n)
    BY <1>5, <2>1 DEF DefinedBy
  <2>5. \A q, n : Elsewhere(q, n)' <=> Elsewhere(q, n)
    BY <1>5, <2>4 DEF Elsewhere
  <2>6. DefsGiven'
    <3>1. DefsGiven
      BY DEF ReportInv
    <3> QED
      BY <1>6, <2>2, <2>4, <2>5, <3>1 DEF DefsGiven
  <2> QED
    BY <1>4, <2>3, <2>6 DEF ReportInv
<1>8. CASE Attributed(p)
  <2>1. Taken' = Taken \cup {p} /\ p \notin Taken
    BY <1>1, <1>2, <1>3, <1>5, <1>8 DEF Taken
  <2>2. /\ refPkgs' = refPkgs \cup (References(files[p]) \X {EffectivePkg(p)})
        /\ valueRefFuncs' = valueRefFuncs \cup ValueRefs(files[p])
        /\ sigTypes' = sigTypes \cup SignatureTypes(files[p])
        /\ interfaceMethods' = interfaceMethods \cup InterfaceMethods(files[p])
        /\ defs' = Noted(p)
    BY <1>1, <1>8 DEF NoteFile
  <2>3. SignalsGiven'
    <3>1. refPkgs' = UNION {References(files[q]) \X {EffectivePkg(q)} : q \in Taken \cup {p}}
      BY <2>2 DEF SignalsGiven, ReportInv
    <3>2. valueRefFuncs' = UNION {ValueRefs(files[q]) : q \in Taken \cup {p}}
      BY <2>2 DEF SignalsGiven, ReportInv
    <3>3. sigTypes' = UNION {SignatureTypes(files[q]) : q \in Taken \cup {p}}
      BY <2>2 DEF SignalsGiven, ReportInv
    <3>4. interfaceMethods' = UNION {InterfaceMethods(files[q]) : q \in Taken \cup {p}}
      BY <2>2 DEF SignalsGiven, ReportInv
    <3>5. refPkgs' = UNION {References(files[q]) \X {EffectivePkg(q)} : q \in Taken}'
      BY <1>2, <1>5, <2>1, <3>1
    <3>6. unnoted' \subseteq results'
      BY <1>2, <1>3 DEF SignalsGiven, ReportInv
    <3> QED
      BY <1>2, <2>1, <3>2, <3>3, <3>4, <3>5, <3>6 DEF SignalsGiven
  <2>4. \A n : DefinedBy(n)' = IF n \in ExportedNames(p) THEN DefinedBy(n) \cup {p} ELSE DefinedBy(n)
    BY <1>5, <2>1 DEF DefinedBy
  <2>5. ASSUME NEW n \in Names
        PROVE  /\ DefinedBy(n)' = {} => defs'[n] = NoDef
               /\ DefinedBy(n)' # {} =>
                    \E q \in DefinedBy(n)', m \in BOOLEAN :
                      defs'[n] = EntryOf(q, n, m) /\ (m <=> Elsewhere(q, n)')
    <3>1. /\ DefinedBy(n) = {} => defs[n] = NoDef
          /\ DefinedBy(n) # {} =>
               \E q \in DefinedBy(n), m \in BOOLEAN : defs[n] = EntryOf(q, n, m) /\ (m <=> Elsewhere(q, n))
      BY DEF ReportInv, DefsGiven
    <3>2. defs'[n] = IF n \notin ExportedNames(p) THEN defs[n]
                     ELSE IF defs[n] = NoDef THEN EntryOf(p, n, FALSE)
                     ELSE [defs[n] EXCEPT !.multi = @ \/ defs[n].pkg # EffectivePkg(p)]
      BY <2>2 DEF Noted, EntryOf
    <3>3. \A q : Elsewhere(q, n)' <=> \E r \in DefinedBy(n)' : EffectivePkg(r) # EffectivePkg(q)
      BY <1>5 DEF Elsewhere
    <3>4. CASE n \notin ExportedNames(p)
      <4>1. DefinedBy(n)' = DefinedBy(n) /\ defs'[n] = defs[n]
        BY <2>4, <3>2, <3>4
      <4>2. \A q : Elsewhere(q, n)' <=> Elsewhere(q, n)
        BY <3>3, <4>1 DEF Elsewhere
      <4> QED
        BY <3>1, <4>1, <4>2
    <3>5. CASE n \in ExportedNames(p) /\ DefinedBy(n) = {}
      <4>1. DefinedBy(n)' = {p} /\ defs'[n] = EntryOf(p, n, FALSE)
        BY <2>4, <3>1, <3>2, <3>5
      <4>2. ~Elsewhere(p, n)'
        BY <3>3, <4>1
      <4>3. p \in DefinedBy(n)' /\ FALSE \in BOOLEAN
        BY <4>1
      <4> QED
        BY <4>1, <4>2, <4>3
    <3>6. CASE n \in ExportedNames(p) /\ DefinedBy(n) # {}
      <4>1. PICK q \in DefinedBy(n), m \in BOOLEAN : defs[n] = EntryOf(q, n, m) /\ (m <=> Elsewhere(q, n))
        BY <3>1, <3>6
      <4>2. defs[n] # NoDef
        <5>1. defs[n].kind \in {"function", "type"}
          BY <4>1 DEF EntryOf, KindOf
        <5>2. NoDef.kind = "none"
          BY DEF NoDef
        <5> QED
          BY <5>1, <5>2
      <4> DEFINE k == m \/ EffectivePkg(q) # EffectivePkg(p)
      <4>3. defs'[n] = EntryOf(q, n, k)
        <5>1. defs'[n] = [defs[n] EXCEPT !.multi = @ \/ defs[n].pkg # EffectivePkg(p)]
          BY <3>2, <3>6, <4>2
        <5>2. defs[n].pkg = EffectivePkg(q) /\ defs[n].multi = m
          BY <4>1 DEF EntryOf
        <5>3. defs'[n] = [EntryOf(q, n, m) EXCEPT !.multi = k]
          BY <4>1, <5>1, <5>2
        <5> HIDE DEF k
        <5> QED
          BY <5>3 DEF EntryOf
      <4>4. DefinedBy(n)' = DefinedBy(n) \cup {p}
        BY <2>4, <3>6
      <4>5. Elsewhere(q, n)' <=> k
        <5>1. Elsewhere(q, n)' <=> \E r \in DefinedBy(n) \cup {p} : EffectivePkg(r) # EffectivePkg(q)
          BY <3>3, <4>4
        <5>2. m <=> \E r \in DefinedBy(n) : EffectivePkg(r) # EffectivePkg(q)
          BY <4>1 DEF Elsewhere
        <5> QED
          BY <5>1, <5>2
      <4>6. k \in BOOLEAN
        OBVIOUS
      <4> HIDE DEF k
      <4>7. q \in DefinedBy(n)'
        BY <4>4
      <4>8. \E b \in BOOLEAN : defs'[n] = EntryOf(q, n, b) /\ (b <=> Elsewhere(q, n)')
        BY <4>3, <4>5, <4>6
      <4> QED
        BY <4>7, <4>8
    <3> QED
      BY <3>4, <3>5, <3>6
  <2>6. DefsGiven'
    BY <1>2, <1>6, <2>5 DEF DefsGiven
  <2> QED
    BY <1>4, <2>3, <2>6 DEF ReportInv
<1> QED
  BY <1>7, <1>8

LEMMA ReportStands ==
  ASSUME ReportInv, UNCHANGED <<graphVars, exportVars>>
  PROVE  ReportInv'
<1>1. /\ files' = files /\ results' = results /\ unbuilt' = unbuilt /\ UNCHANGED indexVars
      /\ UNCHANGED exportVars
  BY DEF graphVars
<1>2. /\ Built' = Built /\ Taken' = Taken
      /\ \A q : /\ Definitions(q)' = Definitions(q) /\ EffectivePkg(q)' = EffectivePkg(q)
                /\ ExportedNames(q)' = ExportedNames(q)
                /\ \A n : KindOf(q, n)' = KindOf(q, n)
  BY <1>1 DEF Built, Taken, Attributed, Definitions, EffectivePkg, ExportedNames, KindOf, exportVars
<1>3. \A n : DefinedBy(n)' = DefinedBy(n)
  BY <1>2 DEF DefinedBy
<1>4. \A q, n : /\ (Elsewhere(q, n)' <=> Elsewhere(q, n))
                /\ \A m : EntryOf(q, n, m)' = EntryOf(q, n, m)
  BY <1>2, <1>3 DEF Elsewhere, EntryOf
<1>5. IndexGiven'
  BY <1>1, <1>2 DEF IndexGiven, ReportInv, indexVars
<1>6. SignalsGiven'
  BY <1>1, <1>2 DEF SignalsGiven, ReportInv, exportVars
<1>7. DefsGiven'
  <2>1. DefsGiven /\ defs' = defs
    BY <1>1 DEF ReportInv, exportVars
  <2> QED
    BY <1>3, <1>4, <2>1 DEF DefsGiven
<1> QED
  BY <1>5, <1>6, <1>7 DEF ReportInv

-----------------------------------------------------------------------------
(* What the maps say once every file has been taken in.                    *)
LEMMA MentionedIs ==
  ASSUME NEW p, NEW n \in Names
  PROVE  n \in References(files[p]) <=>
           \E d \in AllDecls(files[p]) :
             n = d.recv \/ n \in d.params \cup d.uses
               \/ \E c \in d.calls : n = c.callee \/ n \in c.args
<1>1. n # NoName
  BY CodeGraphAssumption
<1> QED
  BY <1>1 DEF References, ValueRefs, CallRefs, TypeRefs

LEMMA AllTaken ==
  ASSUME ReportInv, unnoted = {}
  PROVE  /\ \A p : p \in Taken <=> p \in results /\ Attributed(p)
         /\ \A n : DefinedBy(n) = DefiningFiles(n)
BY DEF Taken, DefinedBy, DefiningFiles

LEMMA UsersAre ==
  ASSUME ReportInv, unnoted = {}, NEW n \in Names
  PROVE  UserPkgs(n) = {EffectivePkg(p) : p \in Mentions(n)}
<1>1. refPkgs = UNION {References(files[p]) \X {EffectivePkg(p)} : p \in Taken}
  BY DEF ReportInv, SignalsGiven
<1>2. Mentions(n) = {p \in Taken : n \in References(files[p])}
  BY AllTaken, MentionedIs DEF Mentions
<1>3. ASSUME NEW x PROVE x \in UserPkgs(n) <=> <<n, x>> \in refPkgs
  <2>1. \A r \in refPkgs : r = <<r[1], r[2]>>
    BY <1>1
  <2>2. ASSUME x \in UserPkgs(n) PROVE <<n, x>> \in refPkgs
    <3>1. PICK r \in refPkgs : r[1] = n /\ r[2] = x
      BY <2>2 DEF UserPkgs
    <3> QED
      BY <2>1, <3>1
  <2>3. ASSUME <<n, x>> \in refPkgs PROVE x \in UserPkgs(n)
    <3>1. <<n, x>>[1] = n /\ <<n, x>>[2] = x
      OBVIOUS
    <3> QED
      BY <2>3, <3>1 DEF UserPkgs
  <2> QED
    BY <2>2, <2>3
<1>4. ASSUME NEW x
      PROVE  <<n, x>> \in refPkgs <=> \E p \in Taken : n \in References(files[p]) /\ x = EffectivePkg(p)
  BY <1>1
<1> QED
  BY <1>2, <1>3, <1>4

(* One package: the packages of the files are one and the same.            *)
LEMMA OnePackageIs ==
  ASSUME NEW S, IsFiniteSet(S)
  PROVE  OnePackage(S) <=> \E x : {EffectivePkg(p) : p \in S} = {x}
<1> DEFINE T == {EffectivePkg(p) : p \in S}
           f == [p \in S |-> EffectivePkg(p)]
<1>1. f \in Surjection(S, T)
  BY DEF Surjection
<1>2. IsFiniteSet(T)
  BY <1>1, FS_Surjection
<1>3. OnePackage(S) <=> Cardinality(T) = 1
  BY DEF OnePackage
<1> HIDE DEF T
<1>4. OnePackage(S) <=> \E x : T = {x}
  BY <1>2, <1>3, FS_Singleton
<1> QED
  BY <1>4 DEF T

(* The signals that keep a name exported.                                  *)
LEMMA ExemptIs ==
  ASSUME ReportInv, unnoted = {}, NEW n \in Upper
  PROVE  n \in BoundaryExempt <=>
           \E q, r \in results :
             /\ Attributed(q) /\ Attributed(r)
             /\ \E d \in AllDecls(files[q]), e \in AllDecls(files[r]) :
                  d.what = "func" /\ n \in d.params /\ \E c \in e.calls : d.name \in c.args
<1>1. /\ valueRefFuncs = UNION {ValueRefs(files[p]) : p \in Taken}
      /\ sigTypes = UNION {SignatureTypes(files[p]) : p \in Taken}
  BY DEF ReportInv, SignalsGiven
<1>2. ASSUME NEW q, NEW f
      PROVE  <<f, n>> \in SignatureTypes(files[q]) <=>
               \E d \in AllDecls(files[q]) : d.what = "func" /\ n \in d.params /\ d.name = f
  <2>1. <<f, n>> \in SignatureTypes(files[q]) <=>
          \E i \in Decls(files[q], "func") :
            <<f, n>> \in {<<files[q].decls[i].name, t>> : t \in files[q].decls[i].params \cap Upper}
    BY DEF SignatureTypes
  <2>2. <<f, n>> \in SignatureTypes(files[q]) <=>
          \E i \in Decls(files[q], "func") :
            f = files[q].decls[i].name /\ n \in files[q].decls[i].params
    BY <2>1
  <2> QED
    BY <2>2 DEF Decls, AllDecls, Range
<1>3. \A s \in sigTypes : s = <<s[1], s[2]>>
  BY <1>1 DEF SignatureTypes
<1>4. n \in BoundaryExempt <=> \E f \in valueRefFuncs : <<f, n>> \in sigTypes
  <2>1. ASSUME n \in BoundaryExempt PROVE \E f \in valueRefFuncs : <<f, n>> \in sigTypes
    <3>1. PICK s \in sigTypes : s[1] \in valueRefFuncs /\ s[2] = n
      BY <2>1 DEF BoundaryExempt
    <3> QED
      BY <1>3, <3>1
  <2>2. ASSUME NEW f \in valueRefFuncs, <<f, n>> \in sigTypes PROVE n \in BoundaryExempt
    <3>1. <<f, n>>[1] = f /\ <<f, n>>[2] = n
      OBVIOUS
    <3> QED
      BY <2>2, <3>1 DEF BoundaryExempt
  <2> QED
    BY <2>1, <2>2
<1>5. ASSUME NEW f PROVE f \in valueRefFuncs <=>
        \E r \in Taken : \E e \in AllDecls(files[r]) : \E c \in e.calls : f \in c.args
  BY <1>1 DEF ValueRefs
<1>6. ASSUME NEW f PROVE <<f, n>> \in sigTypes <=>
        \E q \in Taken : \E d \in AllDecls(files[q]) : d.what = "func" /\ n \in d.params /\ d.name = f
  <2>1. <<f, n>> \in sigTypes <=> \E q \in Taken : <<f, n>> \in SignatureTypes(files[q])
    BY <1>1
  <2> QED
    BY ONLY <1>2, <2>1
<1>7. n \in BoundaryExempt <=>
        \E f : /\ \E r \in Taken : \E e \in AllDecls(files[r]) : \E c \in e.calls : f \in c.args
               /\ \E q \in Taken : \E d \in AllDecls(files[q]) :
                    d.what = "func" /\ n \in d.params /\ d.name = f
  BY <1>4, <1>5, <1>6
<1>8. n \in BoundaryExempt <=>
        \E q, r \in Taken : \E d \in AllDecls(files[q]), e \in AllDecls(files[r]) :
          d.what = "func" /\ n \in d.params /\ \E c \in e.calls : d.name \in c.args
  BY <1>7
<1> QED
  BY <1>8, AllTaken

LEMMA PinnedIs ==
  ASSUME ReportInv, unnoted = {}, NEW n \in Upper, NEW p
  PROVE  Pinned(n, p) <=>
           \/ IsReflectionDispatched(KindOf(p, n), n, p)
           \/ KindOf(p, n) = "type" /\ n \in BoundaryExempt
           \/ KindOf(p, n) = "function" /\ n \in interfaceMethods
<1>1. interfaceMethods = UNION {InterfaceMethods(files[q]) : q \in Taken}
  BY DEF ReportInv, SignalsGiven
<1>2. n \in interfaceMethods <=>
        \E q \in results : Attributed(q) /\ \E d \in AllDecls(files[q]) : n \in d.methods
  BY <1>1, AllTaken DEF InterfaceMethods
<1> QED
  BY <1>2, ExemptIs DEF Pinned

-----------------------------------------------------------------------------
(* The reports.                                                            *)
Local(n) ==
  /\ Mentions(n) # {} /\ DefiningFiles(n) # {}
  /\ OnePackage(Mentions(n) \cup DefiningFiles(n))

LEMMA FirstDefines ==
  ASSUME ReportInv, unnoted = {}, NEW n \in Names, DefiningFiles(n) # {}
  PROVE  \E p \in DefiningFiles(n) :
           /\ defs[n] # NoDef
           /\ defs[n].kind = KindOf(p, n) /\ defs[n].path = p /\ defs[n].pkg = EffectivePkg(p)
           /\ defs[n].multi <=> \E q \in DefiningFiles(n) : EffectivePkg(q) # EffectivePkg(p)
           /\ n \in Upper
<1>1. PICK p \in DefiningFiles(n), m \in BOOLEAN :
        defs[n] = EntryOf(p, n, m) /\ (m <=> Elsewhere(p, n))
  BY AllTaken DEF ReportInv, DefsGiven
<1>2. defs[n].kind = KindOf(p, n) /\ defs[n].path = p /\ defs[n].pkg = EffectivePkg(p)
  BY <1>1 DEF EntryOf
<1>3. defs[n].multi = m
  BY <1>1 DEF EntryOf
<1>4. Elsewhere(p, n) <=> \E q \in DefiningFiles(n) : EffectivePkg(q) # EffectivePkg(p)
  BY AllTaken DEF Elsewhere
<1>5. defs[n] # NoDef
  <2>1. defs[n].kind \in {"function", "type"}
    BY <1>2 DEF KindOf
  <2>2. NoDef.kind = "none"
    BY DEF NoDef
  <2> QED
    BY <2>1, <2>2
<1>6. n \in Upper
  BY DEF DefiningFiles, ExportedNames, Exported
<1>7. defs[n].multi <=> \E q \in DefiningFiles(n) : EffectivePkg(q) # EffectivePkg(p)
  BY <1>1, <1>3, <1>4
<1> QED
  BY <1>2, <1>5, <1>6, <1>7

LEMMA CandidateIsLocal ==
  ASSUME ReportInv, unnoted = {}, NEW n \in Names, Candidate(n)
  PROVE  Local(n) /\ \E p \in DefiningFiles(n) : ~Pinned(n, p)
<1>1. DefiningFiles(n) # {}
  <2>1. defs[n] # NoDef
    BY DEF Candidate
  <2> QED
    BY <2>1, AllTaken DEF ReportInv, DefsGiven
<1>2. PICK p \in DefiningFiles(n) :
        /\ defs[n] # NoDef
        /\ defs[n].kind = KindOf(p, n) /\ defs[n].path = p /\ defs[n].pkg = EffectivePkg(p)
        /\ defs[n].multi <=> \E q \in DefiningFiles(n) : EffectivePkg(q) # EffectivePkg(p)
        /\ n \in Upper
  BY <1>1, FirstDefines
<1>3. {EffectivePkg(q) : q \in Mentions(n)} = {EffectivePkg(p)}
  BY <1>2, UsersAre DEF Candidate
<1>4. Mentions(n) # {}
  BY <1>3
<1>5. \A q \in DefiningFiles(n) : EffectivePkg(q) = EffectivePkg(p)
  BY <1>2 DEF Candidate
<1>6. {EffectivePkg(q) : q \in Mentions(n) \cup DefiningFiles(n)} = {EffectivePkg(p)}
  BY <1>3, <1>5
<1>7. IsFiniteSet(Mentions(n) \cup DefiningFiles(n))
  <2>1. Mentions(n) \cup DefiningFiles(n) \subseteq results
    BY DEF Mentions, DefiningFiles
  <2> QED
    BY <2>1, FS_Subset DEF ReportInv, IndexGiven
<1>8. Local(n)
  BY <1>1, <1>4, <1>6, <1>7, OnePackageIs DEF Local
<1>9. ~Pinned(n, p)
  BY <1>2, PinnedIs DEF Candidate
<1> QED
  BY <1>8, <1>9

LEMMA LocalIsCandidate ==
  ASSUME ReportInv, unnoted = {}, NEW n \in Names, Local(n),
         \A p \in DefiningFiles(n) : ~Pinned(n, p)
  PROVE  Candidate(n)
<1>1. DefiningFiles(n) # {} /\ Mentions(n) # {}
  BY DEF Local
<1>2. PICK p \in DefiningFiles(n) :
        /\ defs[n] # NoDef
        /\ defs[n].kind = KindOf(p, n) /\ defs[n].path = p /\ defs[n].pkg = EffectivePkg(p)
        /\ defs[n].multi <=> \E q \in DefiningFiles(n) : EffectivePkg(q) # EffectivePkg(p)
        /\ n \in Upper
  BY <1>1, FirstDefines
<1>3. IsFiniteSet(Mentions(n) \cup DefiningFiles(n))
  <2>1. Mentions(n) \cup DefiningFiles(n) \subseteq results
    BY DEF Mentions, DefiningFiles
  <2> QED
    BY <2>1, FS_Subset DEF ReportInv, IndexGiven
<1>4. PICK x : {EffectivePkg(q) : q \in Mentions(n) \cup DefiningFiles(n)} = {x}
  BY <1>3, OnePackageIs DEF Local
<1>5. \A q \in Mentions(n) \cup DefiningFiles(n) : EffectivePkg(q) = EffectivePkg(p)
  BY <1>4
<1>6. UserPkgs(n) = {EffectivePkg(p)}
  BY <1>1, <1>5, UsersAre
<1>7. ~defs[n].multi
  BY <1>2, <1>5
<1>8. ~Pinned(n, p)
  BY <1>2
<1> QED
  BY <1>2, <1>6, <1>7, <1>8, PinnedIs DEF Candidate

(* A name no one mentions has no callers, and so reaches no one.           *)
BfsStep(t, limit, f) ==
  [d \in 0 .. limit |->
     IF d = 0 THEN [visited |-> {}, frontier |-> CallersOf(t)]
     ELSE LET prev == f[d - 1]
              seen == {v[1] : v \in prev.visited} \cup {t}
              fresh == prev.frontier \ seen
          IN  [visited |-> prev.visited \cup {<<n, d>> : n \in fresh},
               frontier |-> (UNION {CallersOf(n) : n \in fresh}) \ seen]]
Bfs(t, limit) == CHOOSE f : f = BfsStep(t, limit, f)

LEMMA ImpactIs ==
  ASSUME NEW t
  PROVE  Impact(t, 0) = Bfs(t, Cardinality(Names))[Cardinality(Names)].visited
BY DEF Impact, Bfs, BfsStep

LEMMA NothingNext ==
  ASSUME NEW t, NEW limit, NEW f, NEW d \in 0 .. limit, d # 0,
         f[d - 1] = [visited |-> {}, frontier |-> {}]
  PROVE  BfsStep(t, limit, f)[d] = [visited |-> {}, frontier |-> {}]
<1> DEFINE prev == f[d - 1]
           seen == {v[1] : v \in prev.visited} \cup {t}
           fresh == prev.frontier \ seen
<1>1. fresh = {} /\ prev.visited = {}
  OBVIOUS
<1>2. /\ prev.visited \cup {<<n, d>> : n \in fresh} = {}
      /\ (UNION {CallersOf(n) : n \in fresh}) \ seen = {}
  BY <1>1
<1>3. BfsStep(t, limit, f)[d] =
        [visited |-> prev.visited \cup {<<n, d>> : n \in fresh},
         frontier |-> (UNION {CallersOf(n) : n \in fresh}) \ seen]
  BY DEF BfsStep
<1> QED
  BY ONLY <1>2, <1>3

LEMMA NoCallersNoImpact ==
  ASSUME NEW t, CallersOf(t) = {}
  PROVE  Impact(t, 0) = {}
<1> DEFINE lim == Cardinality(Names)
           none == [visited |-> {}, frontier |-> {}]
           g == [d \in 0 .. lim |-> none]
           h == Bfs(t, lim)
           S == {d \in Nat : d <= lim => h[d] = none}
<1>1. lim \in Nat
  BY CodeGraphAssumption, FS_CardinalityType
<1> HIDE DEF lim
<1>2. g = BfsStep(t, lim, g)
  <2>1. ASSUME NEW d \in 0 .. lim PROVE BfsStep(t, lim, g)[d] = none
    <3>1. CASE d = 0
      BY <3>1 DEF BfsStep
    <3>2. CASE d # 0
      <4>1. g[d - 1] = none
        BY <1>1, <3>2
      <4> QED
        BY <3>2, <4>1, NothingNext
    <3> QED
      BY <3>1, <3>2
  <2> HIDE DEF none
  <2> QED
    BY <2>1 DEF BfsStep
<1>3. h = BfsStep(t, lim, h)
  BY <1>2 DEF Bfs
<1> HIDE DEF h
<1>4. h[0] = none
  <2>1. 0 \in 0 .. lim
    BY <1>1
  <2>2. BfsStep(t, lim, h)[0] = none
    BY <2>1 DEF BfsStep
  <2> QED
    BY <1>3, <2>2
<1>5. ASSUME NEW d \in Nat, d \in S PROVE d + 1 \in S
  <2>1. SUFFICES ASSUME d + 1 <= lim PROVE h[d + 1] = none
    BY <1>5
  <2>2. h[d] = none /\ d + 1 \in 0 .. lim /\ d + 1 # 0 /\ (d + 1) - 1 = d
    BY <1>1, <1>5, <2>1
  <2>3. BfsStep(t, lim, h)[d + 1] = none
    BY <2>2, NothingNext
  <2> QED
    BY <1>3, <2>3
<1>6. 0 \in S
  BY <1>4
<1> HIDE DEF S
<1>7. Nat \subseteq S
  BY <1>5, <1>6, NatSetInduction
<1>8. h[lim] = none
  BY <1>1, <1>7 DEF S
<1> QED
  BY <1>8, ImpactIs DEF h, lim

LEMMA DeadIsDead ==
  ASSUME ReportInv, unbuilt = {}, unnoted = {}, NEW d \in DeadCode
  PROVE  /\ d.name \notin Candidates /\ Impact(d.name, 0) = {}
         /\ [path |-> d.path, kind |-> d.kind, owner |-> d.owner]
              \in FindDefinition(d.name, {d.kind})
         /\ d.kind = "function" /\ d.path \notin testFiles =>
              \E g \in TestGaps : g.path = d.path /\ d.name \in g.untested
<1>1. PICK e \in definedIn :
        /\ d = [name |-> e.name, path |-> e.path, kind |-> e.kind, owner |-> e.owner]
        /\ WhoCalls(e.name) = {} /\ files[e.path].lang \in RefLangs
  BY DEF DeadCode
<1>2. d.name = e.name /\ d.path = e.path /\ d.kind = e.kind /\ d.owner = e.owner
  BY <1>1
<1>3. Built = results
  BY DEF Built
<1>4. \A p \in results : e.name \notin References(files[p])
  <2>1. ASSUME NEW p \in results, e.name \in References(files[p]) PROVE FALSE
    <3>1. <<e.name, p>> \in referencedBy
      BY <1>3, <2>1 DEF ReportInv, IndexGiven
    <3>2. <<e.name, p>>[1] = e.name /\ <<e.name, p>>[2] = p
      OBVIOUS
    <3> QED
      BY <1>1, <3>1, <3>2 DEF WhoCalls
  <2> QED
    BY <2>1
<1>5. e.name \notin Candidates
  <2>1. ASSUME e.name \in Names PROVE Mentions(e.name) = {}
    BY <1>4, <2>1, MentionedIs DEF Mentions
  <2> QED
    BY <2>1, CandidateIsLocal DEF Candidates, Local
<1>6. Impact(e.name, 0) = {}
  <2>1. ASSUME NEW c \in callsByName, c[2] = e.name PROVE FALSE
    <3>1. PICK p \in results : c \in CallEdges(files[p])
      BY <1>3 DEF ReportInv, IndexGiven
    <3>2. PICK i \in Decls(files[p], "func") : \E b \in files[p].decls[i].calls : c[2] = b.callee
      BY <3>1 DEF CallEdges
    <3>3. files[p].decls[i] \in AllDecls(files[p])
      BY <3>2 DEF Decls, AllDecls, Range
    <3>4. c[2] \in References(files[p])
      BY <3>2, <3>3 DEF References, CallRefs
    <3> QED
      BY <1>4, <2>1, <3>4
  <2>2. CallersOf(e.name) = {}
    BY <2>1 DEF CallersOf
  <2> QED
    BY <2>2, NoCallersNoImpact
<1>7. [path |-> e.path, kind |-> e.kind, owner |-> e.owner] \in FindDefinition(e.name, {e.kind})
  BY DEF FindDefinition
<1>8. ASSUME e.kind = "function", e.path \notin testFiles
      PROVE  \E g \in TestGaps : g.path = e.path /\ e.name \in g.untested
  <2>1. PICK p \in results : e \in Definitions(p)
    BY <1>3 DEF ReportInv, IndexGiven
  <2>2. e.path = p
    BY <2>1 DEF Definitions
  <2>3. e.name \notin dispatchTargets
    <3>1. dispatchTargets = UNION {ValueRefs(files[q]) : q \in results}
      BY <1>3 DEF ReportInv, IndexGiven
    <3> QED
      BY <1>4, <3>1 DEF References
  <2>4. ~ReferencedFromTest(e.name)
    BY <1>1 DEF ReferencedFromTest
  <2> DEFINE assessable == {x \in definedIn : x.path = p /\ x.kind = "function" /\ x.name \notin dispatchTargets}
             untested == {x \in assessable : ~ReferencedFromTest(x.name)}
             gap == [path |-> p, functions |-> Cardinality(assessable),
                     untested |-> {x.name : x \in untested}, fully |-> untested = assessable]
  <2>5. e \in untested
    BY <1>8, <2>2, <2>3, <2>4
  <2>6. gap \in TestGaps
    <3>1. p \in results \ testFiles /\ files[p].lang \in RefLangs /\ untested # {}
      BY <1>1, <1>8, <2>1, <2>2, <2>5
    <3> QED
      BY <3>1 DEF TestGaps
  <2>7. gap.path = p /\ gap.untested = {x.name : x \in untested}
    OBVIOUS
  <2>8. e.name \in {x.name : x \in untested}
    BY <2>5
  <2> HIDE DEF gap
  <2> QED
    BY <2>2, <2>6, <2>7, <2>8
<1> QED
  BY <1>2, <1>5, <1>6, <1>7, <1>8

(* Whatever the order the two passes take the files in, the reports on     *)
(* dead code, unused exports and untested functions fit together and fit   *)
(* the sources (BuildCodeGraph, FindUnusedExports, DeadCode, TestGaps).    *)
THEOREM VerdictsTold == ReportSpec => []VerdictsAgree
<1>1. GraphInit /\ ExportInit => ReportInv
  BY ReportStarts
<1>2. ReportInv /\ [ReportNext]_<<graphVars, exportVars>> => ReportInv'
  BY BuildKeeps, NoteKeeps, ReportStands DEF ReportNext
<1>3. ReportInv => VerdictsAgree
  <2> SUFFICES ASSUME ReportInv, unbuilt = {}, unnoted = {} PROVE VerdictsAgree
    BY DEF VerdictsAgree
  <2>1. ASSUME NEW n \in Names
        PROVE  /\ Candidate(n) => Local(n) /\ \E p \in DefiningFiles(n) : ~Pinned(n, p)
               /\ Local(n) /\ Uniform(n) /\ (\A p \in DefiningFiles(n) : ~Pinned(n, p)) => Candidate(n)
    BY CandidateIsLocal, LocalIsCandidate
  <2> QED
    BY <2>1, DeadIsDead DEF VerdictsAgree, Local
<1> QED
  BY <1>1, <1>2, <1>3, PTL DEF ReportSpec
=============================================================================
