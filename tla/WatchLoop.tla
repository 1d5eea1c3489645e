----------------------------- MODULE WatchLoop ------------------------------
(***************************************************************************)
(* Continuous search: the event loop watchLoop with its debounce timers    *)
(* (internal/search/watch.go), the handler Watch gives it, and the         *)
(* collector of the watch_search tool that stops the watch when it has     *)
(* enough (internal/mcpserver/watch_tool.go).                              *)
(*                                                                         *)
(* Timers are numbered as they are made; the callback of each runs on a    *)
(* goroutine of its own.  Critical sections of mu are single steps.  A     *)
(* file's content is a version, 0 when there is no file, and every version *)
(* matches the expression.                                                 *)
(***************************************************************************)
EXTENDS Integers, Sequences, FiniteSets

CONSTANTS
  Paths,      \* files under the watched directories
  NoEvent,    \* what a timer not yet made is for
  MaxMatches, \* the tool's max_events, 0 for no limit
  MaxChanges  \* bound: changes to the tree, so events, so timers

VARIABLES
  disk,       \* version of each file
  changes,    \* changes made to the tree so far
  events,     \* watcher.Events: what fsnotify has still to deliver
  latest,     \* history: op of the last event received for each path
  watchCtx,   \* "live" or "done"
  watchPhase, \* "loop", "draining" (the exit defer's wg.Wait), "returned"
  timers,     \* the map: the timer of each path, 0 when there is none
  made,       \* timers made
  what,       \* path and op of each timer
  stage,      \* where each timer and its callback are
  seen,       \* version each callback evaluated
  wg,         \* counter of the WaitGroup
  collected   \* matches reported

watchVars == <<disk, changes, events, latest, watchCtx, watchPhase, timers, made, what, stage,
          seen, wg, collected>>
treeVars == <<disk, changes>>
timerVars == <<timers, made, what>>

Ops == {"write", "remove"}   \* create and write are handled alike
Timers == 1 .. MaxChanges
Versions == 0 .. MaxChanges
Event == [path : Paths, op : Ops]

ASSUME WatchLoopAssumption ==
  MaxMatches \in Nat /\ MaxChanges \in Nat /\ NoEvent \notin Event

Handling == {"acting", "statted", "matched"}
Stages == {"unused", "armed", "fired", "over", "stopped"} \cup Handling

(* Timers at a stage of S, and those whose Add no Done has balanced.       *)
In(S) == {t \in Timers : stage[t] \in S}
Unfinished == In({"armed", "fired"} \cup Handling)

HitMax == MaxMatches > 0 /\ Len(collected) >= MaxMatches

-----------------------------------------------------------------------------
WatchInit ==
  /\ disk = [p \in Paths |-> 0] /\ changes = 0
  /\ events = <<>> /\ latest = [p \in Paths |-> "none"]
  /\ watchCtx = "live" /\ watchPhase = "loop"
  /\ timers = [p \in Paths |-> 0] /\ made = 0
  /\ what = [t \in Timers |-> NoEvent]
  /\ stage = [t \in Timers |-> "unused"]
  /\ seen = [t \in Timers |-> 0]
  /\ wg = 0
  /\ collected = <<>>

-----------------------------------------------------------------------------
(* The tree, and fsnotify, which reports every change in order.            *)
Change(p, v, op) ==
  /\ changes < MaxChanges /\ changes' = changes + 1
  /\ disk' = [disk EXCEPT ![p] = v]
  /\ events' = Append(events, [path |-> p, op |-> op])
  /\ UNCHANGED <<latest, watchCtx, watchPhase, timerVars, stage, seen, wg, collected>>

WriteFile(p) == Change(p, changes + 1, "write")
RemoveFile(p) == disk[p] # 0 /\ Change(p, 0, "remove")

(* Deadline, client or signal.                                             *)
CancelWatch ==
  /\ watchCtx = "live" /\ watchCtx' = "done"
  /\ UNCHANGED <<treeVars, events, latest, watchPhase, timerVars, stage, seen, wg, collected>>

-----------------------------------------------------------------------------
(* Stopping the timers S: Stop has an effect on an armed one only, whose   *)
(* callback then never runs and whose Add is taken back; one that has      *)
(* fired is left to finish.  ("_Bug" definitions, here and below, are the  *)
(* one they precede with a bug that a property has to catch.)              *)
Stopped(S) == S \cap In({"armed"})

Dones_All(S) == Cardinality(S)
Dones_None(S) == 0
Dones(S) == Cardinality(Stopped(S))

(* case event := <-watcher.Events: schedule replaces the timer of the      *)
(* path.                                                                   *)
Schedule ==
  /\ watchPhase = "loop" /\ events # <<>>
  /\ LET e == Head(events)
         new == made + 1
         old == {timers[e.path]} \ {0}
     IN  /\ made' = new
         /\ what' = [what EXCEPT ![new] = e]
         /\ stage' = [t \in Timers |-> IF t = new THEN "armed"
                                       ELSE IF t \in Stopped(old) THEN "stopped" ELSE stage[t]]
         /\ wg' = wg + 1 - Dones(old)
         /\ timers' = [timers EXCEPT ![e.path] = new]
         /\ latest' = [latest EXCEPT ![e.path] = e.op]
  /\ events' = Tail(events)
  /\ UNCHANGED <<treeVars, watchCtx, watchPhase, seen, collected>>

(* case <-ctx.Done(), and the exit defer up to wg.Wait.                    *)
InMap == {timers[p] : p \in Paths} \ {0}

LeaveLoop ==
  /\ watchPhase = "loop" /\ watchCtx = "done"
  /\ watchPhase' = "draining"
  /\ stage' = [t \in Timers |-> IF t \in Stopped(InMap) THEN "stopped" ELSE stage[t]]
  /\ wg' = wg - Dones(InMap)
  /\ UNCHANGED <<treeVars, events, latest, watchCtx, timerVars, seen, collected>>

WaitOver_Skipped == TRUE
WaitOver == wg = 0

LoopReturns ==
  /\ watchPhase = "draining" /\ WaitOver
  /\ watchPhase' = "returned"
  /\ UNCHANGED <<treeVars, events, latest, watchCtx, timerVars, stage, seen, wg, collected>>

-----------------------------------------------------------------------------
(* Timer t.                                                                *)

TimerAt(t, s) == stage' = [stage EXCEPT ![t] = s]

Fire(t) ==
  /\ stage[t] = "armed"
  /\ TimerAt(t, "fired")
  /\ UNCHANGED <<treeVars, events, latest, watchCtx, watchPhase, timerVars, seen, wg, collected>>

(* defer wg.Done()                                                         *)
CallbackOver(t) ==
  /\ TimerAt(t, "over")
  /\ wg' = wg - 1

(* The callback's critical section: only the timer still in the map acts.  *)
Current_Any(t) == timers[what[t].path] # 0
Current(t) == timers[what[t].path] = t

Callback(t) ==
  /\ stage[t] = "fired"
  /\ \/ /\ Current(t)
        /\ timers' = [timers EXCEPT ![what[t].path] = 0]
        /\ TimerAt(t, "acting") /\ wg' = wg
     \/ /\ ~Current(t)
        /\ timers' = timers
        /\ CallbackOver(t)
  /\ UNCHANGED <<treeVars, events, latest, watchCtx, watchPhase, made, what, seen, collected>>

(* onEvent of Watch, up to os.Stat: a removal has no match to emit, nor    *)
(* has anything once the context is done.                                  *)
Stat(t) ==
  /\ stage[t] = "acting"
  /\ IF what[t].op = "write" /\ watchCtx = "live" /\ disk[what[t].path] # 0
     THEN TimerAt(t, "statted") /\ wg' = wg
     ELSE CallbackOver(t)
  /\ UNCHANGED <<treeVars, events, latest, watchCtx, watchPhase, timerVars, seen, collected>>

(* BuildAttributesWith and Evaluate, which fail if the file is gone by now *)
(* or the context is done.                                                 *)
Evaluate(t) ==
  /\ stage[t] = "statted"
  /\ \/ /\ disk[what[t].path] # 0
        /\ seen' = [seen EXCEPT ![t] = disk[what[t].path]]
        /\ TimerAt(t, "matched") /\ wg' = wg
     \/ /\ disk[what[t].path] = 0 \/ watchCtx = "done"
        /\ seen' = seen
        /\ CallbackOver(t)
  /\ UNCHANGED <<treeVars, events, latest, watchCtx, watchPhase, timerVars, collected>>

(* onMatch of the tool: a late match is dropped, the last one that fits    *)
(* cancels the watch.                                                      *)
Full_Off == FALSE
Full == HitMax

OnMatch(t) ==
  /\ stage[t] = "matched"
  /\ collected' = IF Full THEN collected
                  ELSE Append(collected, [path |-> what[t].path, ver |-> seen[t]])
  /\ watchCtx' = IF MaxMatches > 0 /\ Len(collected') >= MaxMatches THEN "done" ELSE watchCtx
  /\ CallbackOver(t)
  /\ UNCHANGED <<treeVars, events, latest, watchPhase, timerVars, seen>>

-----------------------------------------------------------------------------
TreeNext == \E p \in Paths : WriteFile(p) \/ RemoveFile(p)
LoopNext == Schedule \/ LeaveLoop \/ LoopReturns
TimerNext(t) == Fire(t) \/ Callback(t) \/ Stat(t) \/ Evaluate(t) \/ OnMatch(t)

WatchNext == TreeNext \/ CancelWatch \/ LoopNext \/ \E t \in Timers : TimerNext(t)

WatchSpec == WatchInit /\ [][WatchNext]_watchVars

(* Go runs the loop and the callbacks; time makes armed timers fire.       *)
WatchFairness == WF_watchVars(LoopNext) /\ \A t \in Timers : WF_watchVars(TimerNext(t))

WatchFairSpec == WatchSpec /\ WatchFairness

-----------------------------------------------------------------------------
(* Type invariant.  A WaitGroup that goes below zero panics.               *)
WatchTypeOK ==
  /\ disk \in [Paths -> Versions] /\ changes \in Versions
  /\ events \in Seq(Event) /\ latest \in [Paths -> Ops \cup {"none"}]
  /\ watchCtx \in {"live", "done"} /\ watchPhase \in {"loop", "draining", "returned"}
  /\ timers \in [Paths -> 0 .. made] /\ made \in Versions
  /\ what \in [Timers -> Event \cup {NoEvent}]
  /\ \A t \in Timers : /\ what[t] # NoEvent <=> t <= made
                       /\ stage[t] # "unused" <=> t <= made
  /\ stage \in [Timers -> Stages]
  /\ seen \in [Timers -> Versions]
  /\ wg \in Nat
  /\ collected \in Seq([path : Paths, ver : Versions])

(* The WaitGroup's counter is the number of timers armed or running        *)
(* callbacks, whatever timers were replaced, stopped or overtaken.         *)
WgExact == wg = Cardinality(Unfinished)

(* watchLoop's comment: onEvent cannot fire after it has returned.  The    *)
(* index may be closed and the collected matches read from then on.        *)
NoCallbackAfterReturn == watchPhase = "returned" => Unfinished = {}

(* What the caller has read after the return no late callback changes.     *)
ResultStable == [][watchPhase = "returned" => collected' = collected]_watchVars

(* Once per debounce window, latest wins: a callback that acts has the op  *)
(* of the last event received for its path.                                *)
LatestWins ==
  [][\A t \in Timers : stage[t] = "fired" /\ stage'[t] = "acting" =>
       what[t].op = latest[what[t].path]]_watchVars

(* No change is missed: while the watch is live, a file has been reported  *)
(* at its current version unless the event is still on its way: in the     *)
(* queue, in the map, or with a callback that has not yet read the file or *)
(* not yet reported what it read.                                          *)
Reported(p, v) ==
  \E i \in DOMAIN collected : collected[i].path = p /\ collected[i].ver = v

Queued(p) == \E i \in DOMAIN events : events[i].path = p /\ events[i].op = "write"

Carries(t, p) ==
  /\ \/ stage[t] \in {"armed", "fired"} /\ timers[p] = t
     \/ stage[t] \in {"acting", "statted"}
     \/ stage[t] = "matched" /\ seen[t] = disk[p]
  /\ what[t].path = p /\ what[t].op = "write"

OnItsWay(p) == Queued(p) \/ \E t \in Timers : Carries(t, p)

NothingMissed ==
  watchCtx = "live" =>
    \A p \in Paths : disk[p] # 0 => Reported(p, disk[p]) \/ OnItsWay(p)

(* The tool never returns more than it was asked for, although callbacks   *)
(* that were running when the watch was cancelled still report.            *)
WithinLimit ==
  MaxMatches > 0 => /\ Len(collected) <= MaxMatches
                    /\ Len(collected) = MaxMatches => watchCtx = "done"

(* What the watch counts is what there is: callbacks, matches, and nothing *)
(* after its return.                                                       *)
CountsExact == WgExact /\ NoCallbackAfterReturn /\ WithinLimit

(* The watch loop and its collector (watch.go, watch_tool.go): the counts  *)
(* agree with what runs and what was asked for, and as long as the watch   *)
(* goes on, what a file has become is reported or on its way.              *)
WatchExact == CountsExact /\ NothingMissed

(* No step lets an overtaken event or a late callback through.             *)
StepsRight == ResultStable /\ LatestWins

(* A cancelled watch comes back: no callback is waited for that was        *)
(* stopped, and none waits for the loop.                                   *)
CancelledReturns == (watchCtx = "done") ~> (watchPhase = "returned")

(* A saved file is reported, unless it changes again or the watch ends.    *)
SaveReported ==
  \A p \in Paths, v \in Versions \ {0} :
    (disk[p] = v) ~> (Reported(p, v) \/ disk[p] # v \/ watchCtx = "done")

(* Whatever is under way comes to its end (watch.go:186-253).              *)
WatchSettles == CancelledReturns /\ SaveReported
=============================================================================
