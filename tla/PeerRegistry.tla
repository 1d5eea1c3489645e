---------------------------- MODULE PeerRegistry ----------------------------
(***************************************************************************)
(* The registry of running dashboards (internal/monitor/registry.go): one  *)
(* file <pid>.json per process in a shared directory, written by Register, *)
(* removed by the function it returns, read and pruned by Peers in every   *)
(* other process.  os.WriteFile creates or truncates the file first and    *)
(* writes it then; Peers decides on what it has read and removes the path  *)
(* afterwards.                                                             *)
(*                                                                         *)
(* A process may be killed at any moment, and its pid given to a new one.  *)
(***************************************************************************)
EXTENDS Integers, FiniteSets

CONSTANTS
  Pids,    \* process ids
  MaxScans \* bound: scans each pid's processes begin

ASSUME PeerRegistryAssumption == MaxScans \in Nat

VARIABLES
  entry,   \* each file: "none", "torn" (created, not written), "full"
  proc,    \* each pid: "free", "up", "writing", "registered"
  todo,    \* files a scan has still to read
  doomed,  \* the file a scan has decided to remove, in a set
  listed,  \* what the scan has collected
  steady,  \* registered when the scan began and ever since
  scans,   \* scans begun
  raced    \* pids whose file some scan may remove from under them

regVars == <<entry, proc, todo, doomed, listed, steady, scans, raced>>

RegInit ==
  /\ entry = [p \in Pids |-> "none"]
  /\ proc = [p \in Pids |-> "free"]
  /\ todo = [p \in Pids |-> {}]
  /\ doomed = [p \in Pids |-> {}]
  /\ listed = [p \in Pids |-> {}]
  /\ steady = [p \in Pids |-> {}]
  /\ scans = [p \in Pids |-> 0]
  /\ raced = {}

Alive(p) == proc[p] # "free"
Present == {p \in Pids : entry[p] # "none"}
Scanning(r) == todo[r] # {} \/ doomed[r] # {}
ScanVars == <<todo, doomed, listed, steady, scans>>

-----------------------------------------------------------------------------
(* A process starts, under a pid that an earlier one may have left behind. *)
Launch(p) ==
  /\ proc[p] = "free" /\ proc' = [proc EXCEPT ![p] = "up"]
  /\ UNCHANGED <<entry, ScanVars, raced>>

(* os.WriteFile opens with O_CREATE|O_TRUNC ...                            *)
CreateEntry(p) ==
  /\ proc[p] = "up" /\ proc' = [proc EXCEPT ![p] = "writing"]
  /\ entry' = [entry EXCEPT ![p] = "torn"]
  /\ raced' = IF \E r \in Pids : p \in doomed[r] THEN raced \cup {p} ELSE raced
  /\ UNCHANGED ScanVars

(* ... and writes to the file it opened, whether or not the path still     *)
(* names it.                                                               *)
WriteEntry(p) ==
  /\ proc[p] = "writing" /\ proc' = [proc EXCEPT ![p] = "registered"]
  /\ entry' = [entry EXCEPT ![p] = IF @ = "torn" THEN "full" ELSE @]
  /\ UNCHANGED <<ScanVars, raced>>

(* The process is gone, with the scan it was in.                           *)
Gone(p) ==
  /\ proc' = [proc EXCEPT ![p] = "free"]
  /\ todo' = [todo EXCEPT ![p] = {}] /\ doomed' = [doomed EXCEPT ![p] = {}]
  /\ steady' = [r \in Pids |-> IF r = p THEN {} ELSE steady[r] \ {p}]
  /\ raced' = raced \ {p}
  /\ UNCHANGED <<listed, scans>>

(* The deferred deregister at the end of Serve, then the process ends.     *)
Deregister(p) ==
  /\ proc[p] = "registered" /\ entry' = [entry EXCEPT ![p] = "none"]
  /\ Gone(p)

Kill(p) == Alive(p) /\ Gone(p) /\ UNCHANGED entry

-----------------------------------------------------------------------------
(* Peers: the directory is globbed, then the files are read one by one.    *)
Glob(r) ==
  /\ Alive(r) /\ ~Scanning(r) /\ scans[r] < MaxScans
  /\ todo' = [todo EXCEPT ![r] = Present]
  /\ listed' = [listed EXCEPT ![r] = {}]
  /\ steady' = [steady EXCEPT ![r] = {p \in Present : proc[p] = "registered"}]
  /\ scans' = [scans EXCEPT ![r] = @ + 1]
  /\ UNCHANGED <<entry, proc, doomed, raced>>

Verdict_AnyPid(p) == IF entry[p] = "none" THEN "gone" ELSE "remove"
Verdict(p) ==
  CASE entry[p] = "none" -> "gone"
    [] entry[p] = "torn" -> "remove"
    [] entry[p] = "full" /\ ~Alive(p) -> "remove"
    [] OTHER -> "list"

(* One file: read, decoded, its process probed.  Removing it is a step of  *)
(* its own; a file that is half written is taken for a corrupt one.        *)
ReadEntry(r, p) ==
  /\ doomed[r] = {} /\ p \in todo[r]
  /\ todo' = [todo EXCEPT ![r] = @ \ {p}]
  /\ doomed' = [doomed EXCEPT ![r] = IF Verdict(p) = "remove" THEN {p} ELSE {}]
  /\ listed' = [listed EXCEPT ![r] = IF Verdict(p) = "list" THEN @ \cup {p} ELSE @]
  /\ raced' = IF entry[p] = "torn" /\ Alive(p) THEN raced \cup {p} ELSE raced
  /\ UNCHANGED <<entry, proc, steady, scans>>

Prune(r) ==
  /\ \E p \in doomed[r] : entry' = [entry EXCEPT ![p] = "none"]
  /\ doomed' = [doomed EXCEPT ![r] = {}]
  /\ UNCHANGED <<proc, todo, listed, steady, scans, raced>>

RegNext ==
  \/ \E p \in Pids : \/ Launch(p) \/ CreateEntry(p) \/ WriteEntry(p)
                     \/ Deregister(p) \/ Kill(p)
  \/ \E r \in Pids : Glob(r) \/ Prune(r) \/ \E p \in Pids : ReadEntry(r, p)

ScanStep(r) == Prune(r) \/ \E p \in Pids : ReadEntry(r, p)

RegSpec == RegInit /\ [][RegNext]_regVars

-----------------------------------------------------------------------------
RegTypeOK ==
  /\ entry \in [Pids -> {"none", "torn", "full"}]
  /\ proc \in [Pids -> {"free", "up", "writing", "registered"}]
  /\ todo \in [Pids -> SUBSET Pids]
  /\ doomed \in [Pids -> SUBSET Pids] /\ \A r \in Pids : Cardinality(doomed[r]) <= 1
  /\ listed \in [Pids -> SUBSET Pids] /\ steady \in [Pids -> SUBSET Pids]
  /\ scans \in [Pids -> 0 .. MaxScans]
  /\ raced \subseteq Pids

(* A live dashboard whose registration succeeded stays discoverable,       *)
(* whatever others scan, crash and prune, with two exceptions the code     *)
(* leaves open: a scan read its file between creation and write, or was    *)
(* about to remove the file of its dead predecessor with the same pid.     *)
StaysListed ==
  \A p \in Pids : proc[p] = "registered" /\ entry[p] # "full" => p \in raced

(* Peers returns every instance that was registered all the time it ran,   *)
(* however many others come, go and are pruned meanwhile.                  *)
SteadyListed ==
  \A r \in Pids : steady[r] \ raced \subseteq todo[r] \cup listed[r]

(* Nobody who is there goes unlisted, in the directory or in an answer.    *)
PeersListed == StaysListed /\ SteadyListed

(* A crashed instance heals out of the registry: a scan that meets the     *)
(* file of a dead process finishes with that file removed.                 *)
DeadPruned ==
  \A r, p \in Pids :
    (p \in todo[r] /\ ~Alive(p)) ~> (entry[p] = "none" \/ Alive(p) \/ ~Alive(r))
=============================================================================
