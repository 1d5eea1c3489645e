----------------------------- MODULE WalkStream -----------------------------
(***************************************************************************)
(* The concurrent walk behind every search (internal/search/walker.go):    *)
(* one producer queues the files of each root in turn, workers evaluate    *)
(* them, and the caller's goroutine reads the results (Walk, the search    *)
(* handlers and warmers, and the CLI's stream printers, which may give up  *)
(* at a result they cannot print).  A context may be cancelled at any      *)
(* moment.                                                                 *)
(*                                                                         *)
(* A file is a place in one root's listing, so a path below two roots is   *)
(* two files.  Neither the order of a listing nor that of the results      *)
(* matters, and no file is queued twice, so a channel is the set of what   *)
(* it holds.                                                               *)
(***************************************************************************)
EXTENDS Integers, FiniteSets

CONSTANTS
  Files,      \* regular files that survive the excludes, of all roots
  NRoots,     \* number of roots
  FilesOf,    \* FilesOf[r]: the files below root r
  Matching,   \* those the expression accepts
  None,       \* "no file"
  Workers,    \* worker goroutines
  OutCap,     \* capacity of the result channel
  CanCancel,  \* the context may be cancelled
  CanQuit     \* the reader stops at a result it cannot print

Roots == 1 .. NRoots

ASSUME WalkAssumption ==
  /\ NRoots \in Nat
  /\ FilesOf \in [Roots -> SUBSET Files]
  /\ \A r, s \in Roots : r # s => FilesOf[r] \cap FilesOf[s] = {}
  /\ Files = UNION {FilesOf[r] : r \in Roots}
  /\ Matching \subseteq Files
  /\ None \notin Files
  /\ Workers # {}
  /\ OutCap \in Nat \ {0}
  /\ {CanCancel, CanQuit} \subseteq BOOLEAN

VARIABLES
  ctx,        \* "live" or "done"
  phase,      \* WalkStream: "setup", "walk", "wait" (jobs closed), "returned"
  root,       \* the root being walked
  todo,       \* its files not yet queued
  walkErr,    \* walkErrs # nil
  jobs,       \* the job channel
  at,         \* each worker: "off", "idle", "busy", "sending"
  held,       \* the file it has
  out,        \* the result channel, closed once phase = "returned"
  ret,        \* what WalkStream returned
  reader,     \* the caller: "reading", "quit", "done", "failed"
  received    \* results it has read

vars == <<ctx, phase, root, todo, walkErr, jobs, at, held, out, ret, reader, received>>
producerVars == <<phase, root, todo, walkErr, ret>>
workerVars == <<at, held>>
readerVars == <<reader, received>>

JobsCap == 2 * Cardinality(Workers)

Init ==
  /\ ctx = "live"
  /\ phase = "setup" /\ root = 1 /\ todo = {} /\ walkErr = FALSE
  /\ jobs = {} /\ out = {}
  /\ at = [w \in Workers |-> "off"] /\ held = [w \in Workers |-> None]
  /\ ret = "none"
  /\ reader = "reading" /\ received = {}

(* A timeout, Ctrl-C, or the client.                                       *)
Cancel ==
  /\ CanCancel /\ ctx = "live"
  /\ ctx' = "done"
  /\ UNCHANGED <<producerVars, jobs, workerVars, out, readerVars>>

-----------------------------------------------------------------------------
(* WalkStream itself.                                                      *)

ListingOf(r) == IF r \in Roots THEN FilesOf[r] ELSE {}

(* The expression compiles: the workers start, the first root is walked.   *)
Start ==
  /\ phase = "setup"
  /\ phase' = "walk"
  /\ todo' = ListingOf(1)
  /\ at' = [w \in Workers |-> "idle"]
  /\ UNCHANGED <<ctx, root, walkErr, ret, jobs, held, out, readerVars>>

SetupFails ==
  /\ phase = "setup"
  /\ phase' = "returned" /\ ret' = "error"
  /\ UNCHANGED <<ctx, root, todo, walkErr, jobs, workerVars, out, readerVars>>

(* The callback of fs.WalkDir: send the next file, or give up when the     *)
(* context is done.  With both ready, Go's select picks either.            *)
Queue(f) ==
  /\ phase = "walk" /\ f \in todo
  /\ Cardinality(jobs) < JobsCap
  /\ jobs' = jobs \cup {f}
  /\ todo' = todo \ {f}
  /\ UNCHANGED <<ctx, phase, root, walkErr, ret, workerVars, out, readerVars>>

Abandon ==
  /\ phase = "walk" /\ todo # {} /\ ctx = "done"
  /\ walkErr' = TRUE
  /\ phase' = "wait"
  /\ UNCHANGED <<ctx, root, todo, ret, jobs, workerVars, out, readerVars>>

(* The end of a root: the next one, unless the context is done; after the  *)
(* last one the job channel is closed.                                     *)
NextListing_SameRoot == ListingOf(root)
NextListing == ListingOf(root + 1)

NextRoot ==
  /\ phase = "walk" /\ todo = {}
  /\ IF ctx = "live" /\ root < NRoots
     THEN root' = root + 1 /\ todo' = NextListing /\ UNCHANGED phase
     ELSE phase' = "wait" /\ UNCHANGED <<root, todo>>
  /\ UNCHANGED <<ctx, walkErr, ret, jobs, workerVars, out, readerVars>>

(* wg.Wait, the ctx.Err() sweep, and the deferred close of out.            *)
AllOff_OneOff == \E w \in Workers : at[w] = "off"
AllOff == \A w \in Workers : at[w] = "off"

WalkError_NoSweep == walkErr
WalkError == walkErr \/ ctx = "done"

Return ==
  /\ phase = "wait" /\ AllOff
  /\ phase' = "returned"
  /\ ret' = IF WalkError THEN "cancelled" ELSE "nil"
  /\ UNCHANGED <<ctx, root, todo, walkErr, jobs, workerVars, out, readerVars>>

-----------------------------------------------------------------------------
(* A worker.                                                               *)

Become(w, a, f) ==
  /\ at' = [at EXCEPT ![w] = a]
  /\ held' = [held EXCEPT ![w] = f]

Take(w) ==
  /\ at[w] = "idle"
  /\ \E f \in jobs : jobs' = jobs \ {f} /\ Become(w, "busy", f)
  /\ UNCHANGED <<ctx, producerVars, out, readerVars>>

(* The job channel is closed and drained, or the context is done.          *)
MayLeave_NotClosed(w) == ctx = "done"
MayLeave_Closed(w) == ctx = "done" \/ phase # "walk"
MayLeave(w) == ctx = "done" \/ (phase # "walk" /\ jobs = {})

Leave(w) ==
  /\ at[w] = "idle" /\ MayLeave(w)
  /\ Become(w, "off", None)
  /\ UNCHANGED <<ctx, producerVars, jobs, out, readerVars>>

(* process: build the attributes, evaluate the expression.  A file that    *)
(* cannot be read does not match.  Once the context is done the build may  *)
(* be cut short, with an error that stops the worker or one that skips the *)
(* file.                                                                   *)
Process_EmitsMiss(w) ==
  /\ at[w] = "busy"
  /\ Become(w, "sending", IF held[w] \in Matching THEN held[w] ELSE None)
  /\ UNCHANGED <<ctx, producerVars, jobs, out, readerVars>>
Process(w) ==
  /\ at[w] = "busy"
  /\ \/ held[w] \in Matching /\ Become(w, "sending", held[w])
     \/ (held[w] \notin Matching \/ ctx = "done") /\ Become(w, "idle", None)
     \/ ctx = "done" /\ Become(w, "off", None)
  /\ UNCHANGED <<ctx, producerVars, jobs, out, readerVars>>

Send_OrDrop(w) ==
  /\ at[w] = "sending"
  /\ out' = IF Cardinality(out) < OutCap THEN out \cup {held[w]} ELSE out
  /\ Become(w, "idle", None)
  /\ UNCHANGED <<ctx, producerVars, jobs, readerVars>>
Send_Blocking(w) ==
  /\ at[w] = "sending" /\ Cardinality(out) < OutCap
  /\ out' = out \cup {held[w]}
  /\ Become(w, "idle", None)
  /\ UNCHANGED <<ctx, producerVars, jobs, readerVars>>
Send(w) ==
  /\ at[w] = "sending"
  /\ \/ /\ Cardinality(out) < OutCap
        /\ out' = out \cup {held[w]}
        /\ Become(w, "idle", None)
     \/ /\ ctx = "done"
        /\ Become(w, "off", None)
        /\ UNCHANGED out
  /\ UNCHANGED <<ctx, producerVars, jobs, readerVars>>

-----------------------------------------------------------------------------
(* The caller.                                                             *)

Receive ==
  /\ reader = "reading"
  /\ \E f \in out : out' = out \ {f} /\ received' = received \cup {f}
  /\ UNCHANGED <<ctx, producerVars, jobs, workerVars, reader>>

(* printJSONStream, printTemplateStream: the result cannot be printed and  *)
(* the range over the channel is left.                                     *)
Quit ==
  /\ CanQuit /\ reader = "reading" /\ received # {}
  /\ reader' = "quit"
  /\ UNCHANGED <<ctx, producerVars, jobs, workerVars, out, received>>

(* The channel is closed and drained, or the reader has quit, and then     *)
(* <-done.                                                                 *)
Finish ==
  /\ phase = "returned"
  /\ \/ reader = "reading" /\ out = {} /\ reader' = "done"
     \/ reader = "quit" /\ reader' = "failed"
  /\ UNCHANGED <<ctx, producerVars, jobs, workerVars, out, received>>

-----------------------------------------------------------------------------
ProducerNext == Start \/ SetupFails \/ (\E f \in Files : Queue(f)) \/ Abandon \/ NextRoot \/ Return
WorkerNext(w) == Take(w) \/ Leave(w) \/ Process(w) \/ Send(w)
ReaderNext == Receive \/ Quit \/ Finish

Next == ProducerNext \/ (\E w \in Workers : WorkerNext(w)) \/ ReaderNext \/ Cancel

Spec == Init /\ [][Next]_vars

(* Go runs every goroutine that can run; nothing makes a reader quit.      *)
Fairness ==
  /\ WF_vars(ProducerNext)
  /\ \A w \in Workers : WF_vars(WorkerNext(w))
  /\ WF_vars(Receive \/ Finish)

FairSpec == Spec /\ Fairness

-----------------------------------------------------------------------------
(* Type invariant.                                                         *)
TypeOK ==
  /\ ctx \in {"live", "done"}
  /\ phase \in {"setup", "walk", "wait", "returned"}
  /\ root \in Nat /\ todo \subseteq Files /\ walkErr \in BOOLEAN
  /\ jobs \subseteq Files /\ out \subseteq Files /\ received \subseteq Files
  /\ at \in [Workers -> {"off", "idle", "busy", "sending"}]
  /\ held \in [Workers -> Files \cup {None}]
  /\ ret \in {"none", "nil", "cancelled", "error"}
  /\ reader \in {"reading", "quit", "done", "failed"}

(* No worker is left when out is closed: a send on it would panic.         *)
NoSendAfterClose == phase = "returned" => at = [w \in Workers |-> "off"]

(* The files of the roots walked so far, and those a worker has.           *)
Listed == UNION {ListingOf(r) : r \in 1 .. root}
InHand == {held[w] : w \in {v \in Workers : at[v] \in {"busy", "sending"}}}

(* A file is in one place at most, in one worker's hands at most: none is  *)
(* evaluated or reported twice, with several roots and any scheduling.     *)
OnePlace ==
  /\ \A S \in {todo, jobs, InHand, out} : S \cap received = {}
  /\ \A S \in {todo, jobs, InHand} : S \cap out = {}
  /\ todo \cap jobs = {} /\ todo \cap InHand = {} /\ jobs \cap InHand = {}
  /\ \A v, w \in Workers : v # w /\ held[v] = held[w] => held[v] = None

(* A worker leaves early only because the context is done, so a walk whose *)
(* context stays live loses no file between the channels: what matches is  *)
(* somewhere on its way to the reader.                                     *)
NothingLost ==
  ctx = "live" /\ phase \in {"walk", "wait"} =>
    Listed \cap Matching \subseteq todo \cup jobs \cup InHand \cup out \cup received

(* WalkStream returns an error when the walk was cut short, however late   *)
(* or early the context ended (the sweep at its end): with a nil error     *)
(* every matching file is with the reader or in the channel.               *)
NilMeansComplete == ret = "nil" => Matching \subseteq out \cup received

(* The walk hands over its files without a panic, a repetition or a loss.  *)
WalkOrderly == NoSendAfterClose /\ OnePlace /\ NothingLost /\ NilMeansComplete

(* Seen from its caller a walk is a search.                                *)
Search == INSTANCE SearchResult WITH
  found <- received,
  outcome <- CASE reader \in {"reading", "quit"} -> "running"
               [] reader = "done" /\ ret = "nil" -> "complete"
               [] OTHER -> "partial"

IsSearch == Search!Spec

(* A reader that ranges over out until it is closed gets the call back,    *)
(* cancelled or not, with more files than the job channel holds.           *)
CallReturns == <>(reader # "reading")

(* Whatever the reader does, a cancelled search comes back.                *)
CancelReturns == (ctx = "done") ~> (reader \in {"done", "failed"})

(* No caller hangs on a walk it reads to the end or has cancelled.         *)
WalkReturns == CallReturns /\ CancelReturns

(* WalkStream's doc: "out is closed before WalkStream returns; consumers   *)
(* should range over it".  streamSearch waits for WalkStream whether or    *)
(* not its printer has ranged over all of it.                              *)
StreamReturns == <>(reader \in {"done", "failed"})
=============================================================================
