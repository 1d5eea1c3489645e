----------------------------- MODULE MC_Streams -----------------------------
(* Instances for TLC of what has to come to an end: a walk, a watch, and   *)
(* the body writer under Close.  Each behaviour runs one of them, with the *)
(* others at rest in their first state.                                    *)
(*                                                                         *)
(* The walk has two roots with five files, one more than the job channel   *)
(* of two workers holds; three of them match, so that one is received, one *)
(* waits in the result channel and one is being sent.                      *)
EXTENDS WalkStream, WatchLoop, BodyCache, TLC

CONSTANTS f1, f2, f3, f4, f5, v1, v2

VARIABLE part

SomeFiles == {f1, f2, f3, f4, f5}
TwoRoots == <<{f1, f2}, {f3, f4, f5}>>
SomeMatch == {f1, f3, f4}
MCSizeOf == v1 :> 1 @@ v2 :> 2

StreamsInit ==
  /\ part \in {"walk", "watch", "close"}
  /\ Init /\ WatchInit /\ BodyInit

StreamsNext ==
  /\ IF part = "walk" THEN Next ELSE UNCHANGED vars
  /\ IF part = "watch" THEN WatchNext ELSE UNCHANGED watchVars
  /\ IF part = "close" THEN BodyNext ELSE UNCHANGED bodyVars
  /\ UNCHANGED part

(* The fairness of each part, of the part that runs.                       *)
StreamsFairness ==
  /\ WF_vars(part = "walk" /\ ProducerNext)
  /\ \A w \in Workers : WF_vars(part = "walk" /\ WorkerNext(w))
  /\ WF_vars(part = "walk" /\ (Receive \/ Finish))
  /\ WF_watchVars(part = "watch" /\ LoopNext)
  /\ \A t \in Timers : WF_watchVars(part = "watch" /\ TimerNext(t))
  /\ WF_bodyVars(part = "close" /\ WriterNext)

StreamsSpec ==
  /\ StreamsInit
  /\ [][StreamsNext]_<<vars, watchVars, bodyVars, part>>
  /\ StreamsFairness

(* What has been started comes to its end, by what Go schedules and the    *)
(* timers that are armed: a walk returns, a cancelled watch returns and a  *)
(* saved file is reported, Close returns.                                  *)
StreamsSettle ==
  /\ part = "walk" => WalkReturns
  /\ part = "watch" => WatchSettles
  /\ part = "close" => CloseTerminates

WalkOnly == part = "walk" /\ StreamsSpec
=============================================================================
