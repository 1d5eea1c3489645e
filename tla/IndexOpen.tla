----------------------------- MODULE IndexOpen ------------------------------
(***************************************************************************)
(* resolveIndexBackend (cmd/file-search-on/index_path.go) and              *)
(* openBoltIndex (internal/index/bbolt.go): several processes started in   *)
(* one directory share one index path.  bbolt takes an exclusive lock on   *)
(* the open file; a file of another schema is removed and opened anew; a   *)
(* process that waits too long for the lock works in memory.               *)
(*                                                                         *)
(* The lock belongs to the open file, the removal to the path.  Files are  *)
(* numbered in the order of their creation; path is the one the directory  *)
(* entry names, 0 when there is none.                                      *)
(***************************************************************************)
EXTENDS Integers, FiniteSets

CONSTANTS
  Procs,     \* processes
  BuildOf,   \* schema id of each process's binary
  FirstFile, \* contents the file may have at the start
  None,      \* nobody, no schema
  MaxFiles   \* bound: files ever created under the path

Builds == {BuildOf[p] : p \in Procs}

(* "blank" has no meta bucket yet, "foreign" a meta bucket no binary here  *)
(* writes, "broken" is not a bbolt file.                                   *)
Contents == Builds \cup {"blank", "foreign", "broken"}

ASSUME IndexOpenAssumption ==
  /\ BuildOf \in [Procs -> Builds]
  /\ FirstFile \subseteq Contents \cup {None}
  /\ {"blank", "foreign", "broken"} \cap Builds = {}
  /\ None \notin Procs /\ MaxFiles \in Nat \ {0}

VARIABLES
  path,     \* file under the index path
  created,  \* files created so far
  content,  \* content of each file
  lock,     \* holder of each file's lock
  fd,       \* file each process has open
  opening,  \* where each process is
  removers, \* processes that have removed a stale file
  reason    \* IndexBackend.Reason

openVars == <<path, created, content, lock, fd, opening, removers, reason>>

FileIds == 1 .. MaxFiles
Stages == {"begin", "locking", "locked", "stale", "persistent", "memory", "failed", "gone"}

OpenStart(c) ==
  /\ path = IF c = None THEN 0 ELSE 1
  /\ content = [f \in FileIds |-> IF f = 1 /\ c # None THEN c ELSE "blank"]
  /\ created = path
  /\ lock = [f \in FileIds |-> None]
  /\ fd = [p \in Procs |-> 0]
  /\ opening = [p \in Procs |-> "begin"]
  /\ removers = {}
  /\ reason = [p \in Procs |-> "none"]

OpenInit == \E c \in FirstFile : OpenStart(c)

Goto(p, s) == opening' = [opening EXCEPT ![p] = s]
GoMemory(p, r) == Goto(p, "memory") /\ reason' = [reason EXCEPT ![p] = r]
LocksWithout(p) == [f \in FileIds |-> IF lock[f] = p THEN None ELSE lock[f]]

-----------------------------------------------------------------------------
(* --no-index, and the default path that cannot be resolved: no file is    *)
(* touched.                                                                *)
NoIndex(p) ==
  /\ opening[p] = "begin" /\ p \notin removers
  /\ \E r \in {"no_index_flag", "lock_contention"} : GoMemory(p, r)
  /\ UNCHANGED <<path, created, content, lock, fd, removers>>

(* bbolt.Open opens the file or creates it, without the lock.              *)
OpenPath(p) ==
  /\ opening[p] = "begin"
  /\ IF path # 0
       THEN fd' = [fd EXCEPT ![p] = path] /\ UNCHANGED <<path, created>>
       ELSE /\ created < MaxFiles
            /\ created' = created + 1 /\ path' = created + 1
            /\ fd' = [fd EXCEPT ![p] = created + 1]
  /\ Goto(p, "locking")
  /\ UNCHANGED <<content, lock, removers, reason>>

TakeLock(p) ==
  /\ opening[p] = "locking" /\ lock[fd[p]] = None
  /\ lock' = [lock EXCEPT ![fd[p]] = p]
  /\ Goto(p, "locked")
  /\ UNCHANGED <<path, created, content, fd, removers, reason>>

(* Five seconds without the lock.                                          *)
LockTimeout_Never(p) == FALSE
LockTimeout(p) ==
  /\ opening[p] = "locking" /\ lock[fd[p]] # None
  /\ GoMemory(p, "lock_contention")
  /\ fd' = [fd EXCEPT ![p] = 0]
  /\ UNCHANGED <<path, created, content, lock, removers>>

Adopted_AnySchema(p) == content[fd[p]] # "broken"
Adopted(p) == content[fd[p]] \in {"blank", BuildOf[p]}

(* initOrValidateSchema stamps a file without a meta bucket and accepts    *)
(* one of its own schema.                                                  *)
Adopt(p) ==
  /\ opening[p] = "locked" /\ Adopted(p)
  /\ content' = [content EXCEPT ![fd[p]] = IF @ = "blank" THEN BuildOf[p] ELSE @]
  /\ Goto(p, "persistent")
  /\ UNCHANGED <<path, created, lock, fd, removers, reason>>

(* Any other file is closed, its lock with it.  A stale one is rebuilt at  *)
(* the first try; at the second, and when it is no bbolt file, the command *)
(* fails.                                                                  *)
Reject(p) ==
  /\ opening[p] = "locked" /\ ~Adopted(p)
  /\ Goto(p, IF content[fd[p]] = "broken" \/ p \in removers THEN "failed" ELSE "stale")
  /\ lock' = LocksWithout(p)
  /\ fd' = [fd EXCEPT ![p] = 0]
  /\ UNCHANGED <<path, created, content, removers, reason>>

(* os.Remove takes whatever file the path names by now.                    *)
Rebuild(p) ==
  /\ opening[p] = "stale"
  /\ path' = 0
  /\ removers' = removers \cup {p}
  /\ Goto(p, "begin")
  /\ UNCHANGED <<created, content, lock, fd, reason>>

(* The file cannot be opened, locked, read or removed.                     *)
OpenFails(p) ==
  /\ opening[p] \in {"begin", "locking", "locked", "stale"}
  /\ lock' = LocksWithout(p)
  /\ fd' = [fd EXCEPT ![p] = 0]
  /\ Goto(p, "failed")
  /\ UNCHANGED <<path, created, content, removers, reason>>

(* The process ends, at Close or killed at any point; the system drops its *)
(* lock.                                                                   *)
Leave(p) ==
  /\ opening[p] # "gone"
  /\ lock' = LocksWithout(p)
  /\ fd' = [fd EXCEPT ![p] = 0]
  /\ Goto(p, "gone")
  /\ UNCHANGED <<path, created, content, removers, reason>>

OpenStep(p) ==
  \/ NoIndex(p) \/ OpenPath(p) \/ TakeLock(p) \/ LockTimeout(p)
  \/ Adopt(p) \/ Reject(p) \/ Rebuild(p)

OpenNext == \E p \in Procs : OpenStep(p) \/ OpenFails(p) \/ Leave(p)

OpenSpec == OpenInit /\ [][OpenNext]_openVars

-----------------------------------------------------------------------------
OpenTypeOK ==
  /\ path \in 0 .. created /\ created \in 0 .. MaxFiles
  /\ content \in [FileIds -> Contents]
  /\ lock \in [FileIds -> Procs \cup {None}]
  /\ fd \in [Procs -> 0 .. created]
  /\ opening \in [Procs -> Stages]
  /\ removers \subseteq Procs
  /\ reason \in [Procs -> {"none", "no_index_flag", "lock_contention"}]

(* A process serves cached attributes only out of a file of its own        *)
(* schema that it alone has open for writing, however many processes start *)
(* and however often the file is removed under them.                       *)
OwnSchema ==
  \A p \in Procs :
    opening[p] = "persistent" => /\ content[fd[p]] = BuildOf[p]
                                 /\ lock[fd[p]] = p
                                 /\ \A q \in Procs \ {p} :
                                      opening[q] = "persistent" => fd[q] # fd[p]

(* A file in use loses its name, and with it everything cached in it, only *)
(* to a process that had found a file of another schema there: when two    *)
(* rebuilds race, or binaries of two schemas share the path.  One rebuild  *)
(* after an upgrade takes nothing from anybody.                            *)
Unlinked(p) == opening[p] = "persistent" /\ fd[p] # path

UnlinkedByRace ==
  \A p \in Procs : Unlinked(p) =>
    \E q \in removers \ {p} :
      BuildOf[q] # BuildOf[p] \/ removers \ {q} # {}

(* Processes that share an index path disturb one another in no other way. *)
IndexSafe == OwnSchema /\ UnlinkedByRace

(* Every process gets an index or an error, whoever holds the lock.        *)
Settled == {p \in Procs : opening[p] \in {"persistent", "memory", "failed", "gone"}}
OpenSettles == <>(Settled = Procs)
=============================================================================
