-------------------------- MODULE WatchLoop_proofs --------------------------
(***************************************************************************)
(* What holds of WatchLoop for any number of files, changes, timers and    *)
(* wanted matches.                                                         *)
(***************************************************************************)
EXTENDS WatchLoop, DataLemmas, FiniteSetTheorems

Report == [path : Paths, ver : Versions]

(* The types.  No more timers are made than changes, so there is a number  *)
(* for the next one.                                                       *)
TypeInv ==
  /\ disk \in [Paths -> Versions] /\ changes \in Versions
  /\ events \in Seq(Event) /\ latest \in [Paths -> Ops \cup {"none"}]
  /\ watchCtx \in {"live", "done"} /\ watchPhase \in {"loop", "draining", "returned"}
  /\ timers \in [Paths -> 0 .. made] /\ made \in Versions
  /\ made + Len(events) <= changes
  /\ what \in [Timers -> Event \cup {NoEvent}]
  /\ stage \in [Timers -> Stages]
  /\ \A t \in Timers : /\ what[t] # NoEvent <=> t <= made
                       /\ stage[t] # "unused" <=> t <= made
  /\ seen \in [Timers -> Versions]
  /\ wg \in Int
  /\ collected \in Seq(Report)

LEMMA Made ==
  ASSUME TypeInv, NEW t \in Timers, stage[t] # "unused"
  PROVE  what[t] \in Event /\ what[t].path \in Paths /\ what[t].op \in Ops /\ t \in 1 .. made
BY WatchLoopAssumption DEF TypeInv, Event, Timers, Versions

(* Between changes there is an event at the head and a number for its      *)
(* timer.                                                                  *)
LEMMA NextTimer ==
  ASSUME TypeInv, events # <<>>
  PROVE  /\ Head(events) \in Event /\ Head(events).path \in Paths /\ Head(events).op \in Ops
         /\ Tail(events) \in Seq(Event) /\ Len(Tail(events)) = Len(events) - 1
         /\ made + 1 \in Timers /\ made + 1 \in Versions
         /\ stage[made + 1] = "unused"
<1>1. /\ Head(events) \in Event /\ Tail(events) \in Seq(Event)
      /\ Len(Tail(events)) = Len(events) - 1 /\ Len(events) \in Nat /\ Len(events) # 0
  BY HeadTail, EmptyBatch, LenProperties, EmptySeq DEF TypeInv
<1>2. made + 1 \in Timers /\ made + 1 \in Versions /\ ~(made + 1 <= made)
  BY <1>1, WatchLoopAssumption DEF TypeInv, Versions, Timers
<1>3. QED
  BY <1>1, <1>2 DEF TypeInv, Event

LEMMA ChangeIs ==
  ASSUME TypeInv, NEW p \in Paths, WriteFile(p) \/ RemoveFile(p)
  PROVE  \E op \in Ops, v \in Versions : Change(p, v, op) /\ (v # 0 => op = "write")
<1>1. changes < MaxChanges /\ changes + 1 \in Versions /\ 0 \in Versions
  BY WatchLoopAssumption DEF WriteFile, RemoveFile, Change, TypeInv, Versions
<1>2. QED
  BY <1>1 DEF WriteFile, RemoveFile, Ops

THEOREM TypesHold == WatchSpec => []TypeInv
<1> USE WatchLoopAssumption
<1>1. WatchInit => TypeInv
  <2>1. <<>> \in Seq(Event) /\ <<>> \in Seq(Report) /\ Len(<<>>) = 0
    BY EmptyBatch
  <2>2. QED
    BY <2>1 DEF WatchInit, TypeInv, Versions, Timers, Stages, Handling
<1>2. TypeInv /\ [WatchNext]_watchVars => TypeInv'
  <2> SUFFICES ASSUME TypeInv, [WatchNext]_watchVars PROVE TypeInv'
    OBVIOUS
  <2>1. ASSUME NEW p \in Paths, WriteFile(p) \/ RemoveFile(p) PROVE TypeInv'
    <3>1. PICK op \in Ops, v \in Versions : Change(p, v, op)
      BY <2>1, ChangeIs
    <3>2. [path |-> p, op |-> op] \in Event
      BY DEF Event
    <3>3. events' \in Seq(Event) /\ Len(events') = Len(events) + 1 /\ Len(events) \in Nat
      BY <3>1, <3>2, AppendType DEF Change, TypeInv
    <3>4. changes' \in Versions /\ changes' = changes + 1
      BY <3>1 DEF Change, TypeInv, Versions
    <3>5. made + Len(events') <= changes'
      BY <3>3, <3>4 DEF TypeInv, Versions
    <3>6. disk' \in [Paths -> Versions]
      BY <3>1 DEF Change, TypeInv
    <3>7. QED
      BY <3>1, <3>3, <3>4, <3>5, <3>6 DEF Change, TypeInv, timerVars
  <2>2. CASE CancelWatch
    BY <2>2 DEF CancelWatch, TypeInv, treeVars, timerVars
  <2>3. CASE Schedule
    <3> DEFINE new == made + 1
    <3>1. events # <<>> /\ new \in Timers /\ new \in Versions /\ stage[new] = "unused"
      BY <2>3, NextTimer DEF Schedule
    <3>2. events' \in Seq(Event) /\ Len(events') = Len(events) - 1 /\ Len(events) \in Nat
      BY <2>3, NextTimer, LenProperties DEF Schedule, TypeInv
    <3>3. made' = new /\ made' + Len(events') <= changes'
      BY <2>3, <3>2 DEF Schedule, TypeInv, Versions, treeVars
    <3>4. /\ latest' \in [Paths -> Ops \cup {"none"}]
          /\ timers' \in [Paths -> 0 .. made']
      BY <2>3, <3>1, NextTimer DEF Schedule, TypeInv, Versions
    <3>5. /\ what' \in [Timers -> Event \cup {NoEvent}]
          /\ \A t \in Timers : what'[t] # NoEvent <=> t <= made'
      <4>1. what' = [what EXCEPT ![new] = Head(events)] /\ made' = made + 1
        BY <2>3 DEF Schedule
      <4>2. Head(events) \in Event /\ Head(events) # NoEvent
        BY <3>1, NextTimer
      <4>3. \A t \in Timers : t <= made + 1 <=> t <= made \/ t = new
        BY <3>1 DEF TypeInv, Versions, Timers
      <4>4. \A t \in Timers : what'[t] = IF t = new THEN Head(events) ELSE what[t]
        BY <4>1 DEF TypeInv
      <4>5. what' \in [Timers -> Event \cup {NoEvent}]
        BY <4>1, <4>2 DEF TypeInv
      <4>6. QED
        BY <4>1, <4>2, <4>3, <4>4, <4>5 DEF TypeInv
    <3>6. \A t \in Stopped({timers[Head(events).path]} \ {0}) : stage[t] = "armed"
      BY DEF Stopped, In
    <3>7. /\ stage' \in [Timers -> Stages]
          /\ \A t \in Timers : stage'[t] # "unused" <=> t <= made'
      <4> DEFINE old == Stopped({timers[Head(events).path]} \ {0})
      <4>1. /\ stage' = [t \in Timers |-> IF t = new THEN "armed"
                                         ELSE IF t \in old THEN "stopped" ELSE stage[t]]
            /\ made' = made + 1
        BY <2>3 DEF Schedule
      <4>2. \A t \in Timers : t <= made + 1 <=> t <= made \/ t = new
        BY <3>1 DEF TypeInv, Versions, Timers
      <4>3. \A t \in Timers : stage[t] \in Stages /\ (stage[t] # "unused" <=> t <= made)
        BY DEF TypeInv
      <4>4. {"armed", "stopped"} \subseteq Stages
        BY DEF Stages
      <4> HIDE DEF old
      <4>5. \A t \in old : stage[t] = "armed"
        BY <3>6 DEF old
      <4>6. QED
        BY <4>1, <4>2, <4>3, <4>4, <4>5
    <3>8. wg' \in Int
      <4>1. Stopped({timers[Head(events).path]} \ {0}) \subseteq {timers[Head(events).path]}
        BY DEF Stopped
      <4>2. Dones({timers[Head(events).path]} \ {0}) \in Nat
        <5>1. IsFiniteSet({timers[Head(events).path]})
          BY FS_Singleton
        <5>2. QED
          BY <4>1, <5>1, FS_Subset, FS_CardinalityType DEF Dones
      <4>3. QED
        BY <2>3, <4>2 DEF Schedule, TypeInv
    <3>9. QED
      BY <2>3, <3>1, <3>2, <3>3, <3>4, <3>5, <3>7, <3>8 DEF Schedule, TypeInv, treeVars
  <2>4. CASE LeaveLoop
    <3>1. \A t \in Stopped(InMap) : stage[t] = "armed"
      BY DEF Stopped, In
    <3>2. /\ stage' \in [Timers -> Stages]
          /\ \A t \in Timers : stage'[t] # "unused" <=> t <= made
      BY <2>4, <3>1 DEF LeaveLoop, TypeInv, Stages
    <3>3. wg' \in Int
      <4>1. Stopped(InMap) \subseteq Timers /\ IsFiniteSet(Timers)
        BY FS_Interval DEF Stopped, In, Timers
      <4>2. Dones(InMap) \in Nat
        BY <4>1, FS_Subset, FS_CardinalityType DEF Dones
      <4>3. QED
        BY <2>4, <4>2 DEF LeaveLoop, TypeInv
    <3>4. QED
      BY <2>4, <3>2, <3>3 DEF LeaveLoop, TypeInv, treeVars, timerVars
  <2>5. CASE LoopReturns
    BY <2>5 DEF LoopReturns, TypeInv, treeVars, timerVars
  <2>6. ASSUME NEW t \in Timers, TimerNext(t) PROVE TypeInv'
    <3> USE DEF CallbackOver, TimerAt
    <3>1. CASE Fire(t)
      BY <3>1 DEF Fire, TypeInv, Stages, treeVars, timerVars
    <3>2. CASE Callback(t)
      <4>1. timers' \in [Paths -> 0 .. made]
        <5>1. 0 \in 0 .. made
          BY DEF TypeInv, Versions
        <5>2. timers' = timers \/ timers' = [timers EXCEPT ![what[t].path] = 0]
          BY <3>2 DEF Callback
        <5>3. QED
          BY <5>1, <5>2 DEF TypeInv
      <4>2. /\ stage[t] = "fired" /\ wg' \in Int
            /\ stage' = [stage EXCEPT ![t] = "acting"] \/ stage' = [stage EXCEPT ![t] = "over"]
        BY <3>2 DEF Callback, TypeInv
      <4>3. stage' \in [Timers -> Stages] /\ \A u \in Timers : stage'[u] # "unused" <=> u <= made
        BY <4>2 DEF TypeInv, Stages, Handling
      <4>4. QED
        BY <3>2, <4>1, <4>2, <4>3 DEF Callback, TypeInv, treeVars
    <3>3. CASE Stat(t)
      BY <3>3 DEF Stat, TypeInv, Stages, Handling, treeVars, timerVars
    <3>4. CASE Evaluate(t)
      <4>1. what[t].path \in Paths /\ disk[what[t].path] \in Versions
        BY <3>4, Made DEF Evaluate, TypeInv
      <4>2. seen' \in [Timers -> Versions]
        BY <3>4, <4>1 DEF Evaluate, TypeInv
      <4>3. QED
        BY <3>4, <4>2, SMTT(60) DEF Evaluate, TypeInv, Stages, Handling, treeVars, timerVars
    <3>5. CASE OnMatch(t)
      <4>1. [path |-> what[t].path, ver |-> seen[t]] \in Report
        BY <3>5, Made DEF OnMatch, TypeInv, Report
      <4>2. collected' \in Seq(Report)
        BY <3>5, <4>1, AppendType DEF OnMatch, TypeInv
      <4>3. watchCtx' \in {"live", "done"}
        BY <3>5 DEF OnMatch, TypeInv
      <4>4. QED
        BY <3>5, <4>2, <4>3 DEF OnMatch, TypeInv, Stages, treeVars, timerVars
    <3>6. QED
      BY <2>6, <3>1, <3>2, <3>3, <3>4, <3>5 DEF TimerNext
  <2>7. CASE UNCHANGED watchVars
    BY <2>7 DEF watchVars, TypeInv
  <2>8. QED
    BY <2>1, <2>2, <2>3, <2>4, <2>5, <2>6, <2>7 DEF WatchNext, TreeNext, LoopNext
<1>3. QED
  BY <1>1, <1>2, PTL DEF WatchSpec

-----------------------------------------------------------------------------
(* The map holds for each path the last timer made for it, with the op of  *)
(* the last event received, until its callback takes it out or it is       *)
(* stopped on the way out; and no other timer is armed.                    *)
InTheMap(p) ==
  timers[p] # 0 =>
    /\ what[timers[p]].path = p /\ what[timers[p]].op = latest[p]
    /\ stage[timers[p]] \in {"armed", "fired", "stopped"}
    /\ watchPhase = "loop" => stage[timers[p]] # "stopped"

MapInv ==
  /\ \A p \in Paths : InTheMap(p)
  /\ \A t \in Timers : stage[t] = "armed" => watchPhase = "loop" /\ timers[what[t].path] = t

LEMMA TimerOf == ASSUME TypeInv, NEW p \in Paths, timers[p] # 0 PROVE timers[p] \in Timers
BY WatchLoopAssumption DEF TypeInv, Versions, Timers

(* What the callback of t does leaves the map alone but for its own entry. *)
LEMMA OwnStep ==
  ASSUME TypeInv, MapInv, NEW t \in Timers, NEW s \in Stages, TimerAt(t, s),
         s \notin {"armed", "stopped"}, UNCHANGED <<watchPhase, made, what, latest>>,
         \/ stage[t] \in {"armed", "fired"} /\ timers' = timers /\ s = "fired"
         \/ timers' = timers /\ stage[t] \notin {"armed", "fired", "stopped"}
         \/ timers' = timers /\ stage[t] = "fired" /\ timers[what[t].path] # t
         \/ timers' = [timers EXCEPT ![what[t].path] = 0] /\ timers[what[t].path] = t
  PROVE  MapInv'
<1>1. stage'[t] = s /\ \A u \in Timers : u # t => stage'[u] = stage[u]
  BY DEF TimerAt, TypeInv
<1>2. \A p \in Paths : timers'[p] # 0 => timers'[p] = timers[p] /\ timers[p] \in Timers
  BY TimerOf DEF TypeInv
<1>3. \A p \in Paths : timers[p] = t => what[t].path = p
  BY DEF MapInv, InTheMap, Timers
<1>4. ASSUME NEW p \in Paths PROVE InTheMap(p)'
  <2>1. CASE timers'[p] = t
    <3>1. s = "fired"
      <4>1. timers[p] = t /\ what[t].path = p /\ stage[t] \in {"armed", "fired", "stopped"}
        BY <1>2, <1>3, <2>1 DEF MapInv, InTheMap, Timers
      <4>2. timers'[p] # 0
        BY <2>1 DEF Timers
      <4>3. QED
        BY <4>1, <4>2 DEF TypeInv
    <3>2. QED
      BY <1>1, <1>2, <2>1, <3>1 DEF MapInv, InTheMap
  <2>2. CASE timers'[p] # t
    BY <1>1, <1>2, <2>2 DEF MapInv, InTheMap
  <2>3. QED
    BY <2>1, <2>2
<1>5. ASSUME NEW u \in Timers, stage'[u] = "armed"
      PROVE  watchPhase' = "loop" /\ timers'[what'[u].path] = u
  <2>1. u # t /\ stage[u] = "armed"
    BY <1>1, <1>5
  <2>2. watchPhase = "loop" /\ timers[what[u].path] = u /\ what[u].path \in Paths
    BY <2>1, Made DEF MapInv
  <2>3. timers'[what[u].path] = u
    BY <2>1, <2>2 DEF TypeInv
  <2>4. QED
    BY <2>2, <2>3
<1>6. QED
  BY <1>4, <1>5 DEF MapInv

LEMMA MapKept ==
  ASSUME TypeInv, MapInv, [WatchNext]_watchVars
  PROVE  MapInv'
<1>1. ASSUME NEW p \in Paths, WriteFile(p) \/ RemoveFile(p) PROVE MapInv'
  BY <1>1 DEF WriteFile, RemoveFile, Change, MapInv, InTheMap, timerVars
<1>2. CASE CancelWatch
  BY <1>2 DEF CancelWatch, MapInv, InTheMap, timerVars
<1>3. CASE Schedule
  <2> DEFINE new == made + 1
             q == Head(events).path
             old == Stopped({timers[q]} \ {0})
  <2>1. /\ watchPhase = "loop" /\ watchPhase' = "loop" /\ q \in Paths /\ new \in Timers
        /\ stage[new] = "unused"
    BY <1>3, NextTimer DEF Schedule, Event
  <2>2. /\ \A p \in Paths : /\ timers'[p] = IF p = q THEN new ELSE timers[p]
                            /\ latest'[p] = IF p = q THEN Head(events).op ELSE latest[p]
        /\ \A t \in Timers : /\ what'[t] = IF t = new THEN Head(events) ELSE what[t]
                             /\ stage'[t] = IF t = new THEN "armed"
                                            ELSE IF t \in old THEN "stopped" ELSE stage[t]
    <3>1. /\ timers' = [timers EXCEPT ![q] = new]
          /\ latest' = [latest EXCEPT ![q] = Head(events).op]
          /\ what' = [what EXCEPT ![new] = Head(events)]
          /\ stage' = [t \in Timers |-> IF t = new THEN "armed"
                                        ELSE IF t \in old THEN "stopped" ELSE stage[t]]
      BY <1>3 DEF Schedule
    <3> HIDE DEF old, q, new
    <3>2. QED
      BY <3>1 DEF TypeInv
  <2>3. \A t \in old : t = timers[q] /\ t # 0 /\ stage[t] = "armed"
    BY DEF Stopped, In
  <2>4. timers[q] # 0 /\ stage[timers[q]] = "armed" => timers[q] \in old
    BY <2>1, TimerOf DEF Stopped, In
  <2>5. \A p \in Paths : timers[p] # 0 => what[timers[p]].path = p
    BY DEF MapInv, InTheMap
  <2> HIDE DEF old, q, new
  <2>6. ASSUME NEW p \in Paths PROVE InTheMap(p)'
    <3>1. CASE p = q
      <4>1. timers'[p] = new /\ what'[new] = Head(events) /\ stage'[new] = "armed"
        BY <2>1, <2>2, <3>1
      <4>2. latest'[p] = Head(events).op /\ Head(events).path = p
        BY <2>2, <3>1 DEF q
      <4>3. QED
        BY <4>1, <4>2 DEF InTheMap
    <3>2. CASE p # q
      <4>1. timers[p] # 0 => timers[p] \in Timers /\ timers[p] # new /\ timers[p] \notin old
        BY <2>1, <2>3, <2>5, <3>2, TimerOf DEF MapInv, InTheMap
      <4>2. QED
        BY <2>1, <2>2, <3>2, <4>1 DEF MapInv, InTheMap
    <3>3. QED
      BY <3>1, <3>2
  <2>7. ASSUME NEW t \in Timers, stage'[t] = "armed"
        PROVE  watchPhase' = "loop" /\ timers'[what'[t].path] = t
    <3>1. CASE t = new
      BY <2>1, <2>2, <3>1 DEF q
    <3>2. CASE t # new
      <4>1. stage[t] = "armed" /\ t \notin old
        BY <2>2, <2>7, <3>2
      <4>2. what[t].path \in Paths /\ timers[what[t].path] = t
        BY <4>1, Made DEF MapInv
      <4>3. t # 0
        BY DEF Timers
      <4>4. what[t].path # q
        BY <2>4, <4>1, <4>2, <4>3
      <4>5. QED
        BY <2>1, <2>2, <3>2, <4>2, <4>4
    <3>3. QED
      BY <3>1, <3>2
  <2>8. QED
    BY <2>6, <2>7 DEF MapInv
<1>4. CASE LeaveLoop
  <2>1. \A t \in Timers : stage'[t] = IF t \in Stopped(InMap) THEN "stopped" ELSE stage[t]
    BY <1>4 DEF LeaveLoop
  <2>2. \A t \in Timers : stage'[t] # "armed"
    <3>1. \A t \in Timers : stage[t] = "armed" => t \in InMap
      BY Made DEF MapInv, InMap, Timers
    <3>2. QED
      BY <2>1, <3>1 DEF Stopped, In
  <2>3. \A p \in Paths : InTheMap(p)'
    BY <1>4, <2>1, TimerOf DEF LeaveLoop, MapInv, InTheMap, timerVars
  <2>4. QED
    BY <2>2, <2>3 DEF MapInv
<1>5. CASE LoopReturns
  BY <1>5 DEF LoopReturns, MapInv, InTheMap, timerVars
<1>6. ASSUME NEW t \in Timers, TimerNext(t) PROVE MapInv'
  <2> USE DEF Stages, Handling, CallbackOver, timerVars
  <2>1. CASE Fire(t)
    BY <2>1, OwnStep DEF Fire
  <2>2. CASE Callback(t)
    BY <2>2, OwnStep DEF Callback, Current
  <2>3. CASE Stat(t)
    BY <2>3, OwnStep DEF Stat
  <2>4. CASE Evaluate(t)
    BY <2>4, OwnStep DEF Evaluate
  <2>5. CASE OnMatch(t)
    BY <2>5, OwnStep DEF OnMatch
  <2>6. QED
    BY <1>6, <2>1, <2>2, <2>3, <2>4, <2>5 DEF TimerNext
<1>7. CASE UNCHANGED watchVars
  BY <1>7 DEF watchVars, MapInv, InTheMap
<1>8. QED
  BY <1>1, <1>2, <1>3, <1>4, <1>5, <1>6, <1>7 DEF WatchNext, TreeNext, LoopNext

LEMMA MapInit == WatchInit => MapInv
BY DEF WatchInit, MapInv, InTheMap

LEMMA MapHolds == WatchSpec => []MapInv
BY MapInit, MapKept, TypesHold, PTL DEF WatchSpec

-----------------------------------------------------------------------------
(* The WaitGroup.  Every step adds to the counter what it adds to          *)
(* Unfinished.                                                             *)
Counting == {"armed", "fired"} \cup Handling

LEMMA UnfinishedFinite ==
  /\ IsFiniteSet(Unfinished)
  /\ \A S : Stopped(S) \subseteq Unfinished /\ IsFiniteSet(Stopped(S))
<1>1. IsFiniteSet(Timers)
  BY WatchLoopAssumption, FS_Interval DEF Timers
<1>2. Unfinished \subseteq Timers /\ \A S : Stopped(S) \subseteq Unfinished
  BY DEF Unfinished, Stopped, In
<1>3. QED
  BY <1>1, <1>2, FS_Subset

LEMMA FinishCounts ==
  ASSUME TypeInv, WgExact, NEW t \in Unfinished, CallbackOver(t)
  PROVE  WgExact' /\ Unfinished' \subseteq Unfinished
<1>1. Unfinished' = Unfinished \ {t}
  BY DEF CallbackOver, TimerAt, TypeInv, Unfinished, In, Handling
<1>2. Cardinality(Unfinished \ {t}) = Cardinality(Unfinished) - 1
  BY UnfinishedFinite, FS_RemoveElement
<1>3. QED
  BY <1>1, <1>2 DEF CallbackOver, WgExact

LEMMA GoOnCounts ==
  ASSUME TypeInv, WgExact, NEW t \in Unfinished, NEW s \in Counting, TimerAt(t, s), wg' = wg
  PROVE  WgExact' /\ Unfinished' = Unfinished
<1>1. Unfinished' = Unfinished
  BY DEF TimerAt, TypeInv, Unfinished, In, Counting
<1>2. QED
  BY <1>1 DEF WgExact

LEMMA StopCounts ==
  ASSUME NEW S
  PROVE  Cardinality(Unfinished \ Stopped(S)) = Cardinality(Unfinished) - Dones(S)
<1>1. Unfinished \cap Stopped(S) = Stopped(S)
  BY UnfinishedFinite
<1>2. QED
  BY <1>1, UnfinishedFinite, FS_Difference DEF Dones

Joined == watchPhase = "returned" => Unfinished = {}

LEMMA CountKept ==
  ASSUME TypeInv, WgExact, Joined, [WatchNext]_watchVars
  PROVE  WgExact' /\ Joined'
<1>1. ASSUME UNCHANGED <<stage, wg, watchPhase>> PROVE WgExact' /\ Joined'
  BY <1>1 DEF WgExact, Joined, Unfinished, In
<1>2. CASE TreeNext \/ CancelWatch \/ UNCHANGED watchVars
  BY <1>1, <1>2 DEF TreeNext, WriteFile, RemoveFile, Change, CancelWatch, watchVars
<1>3. CASE Schedule
  <2> DEFINE new == made + 1
             old == {timers[Head(events).path]} \ {0}
  <2>1. new \in Timers /\ stage[new] = "unused"
    BY <1>3, NextTimer DEF Schedule
  <2>2. /\ stage' = [t \in Timers |-> IF t = new THEN "armed"
                                      ELSE IF t \in Stopped(old) THEN "stopped" ELSE stage[t]]
        /\ wg' = wg + 1 - Dones(old)
        /\ watchPhase' = "loop"
    BY <1>3 DEF Schedule
  <2> HIDE DEF new, old
  <2>3. Unfinished' = (Unfinished \ Stopped(old)) \cup {new} /\ new \notin Unfinished
    BY <2>1, <2>2 DEF Unfinished, In, Handling
  <2>4. Cardinality(Unfinished') = Cardinality(Unfinished \ Stopped(old)) + 1
    <3>1. IsFiniteSet(Unfinished \ Stopped(old))
      BY UnfinishedFinite, FS_Subset
    <3>2. QED
      BY <2>3, <3>1, FS_AddElement
  <2>5. Cardinality(Unfinished) \in Int /\ Dones(old) \in Int
    BY UnfinishedFinite, FS_CardinalityType DEF Dones
  <2>6. QED
    BY <2>2, <2>4, <2>5, StopCounts DEF WgExact, Joined
<1>4. CASE LeaveLoop
  <2>1. Unfinished' = Unfinished \ Stopped(InMap)
    BY <1>4 DEF LeaveLoop, Unfinished, In, Handling
  <2>2. QED
    BY <1>4, <2>1, StopCounts DEF LeaveLoop, WgExact, Joined
<1>5. CASE LoopReturns
  <2>1. Unfinished' = Unfinished /\ wg' = wg
    BY <1>5 DEF LoopReturns, Unfinished, In
  <2>2. Unfinished = {}
    BY <1>5, UnfinishedFinite, FS_EmptySet DEF LoopReturns, WaitOver, WgExact
  <2>3. QED
    BY <2>1, <2>2 DEF WgExact, Joined
<1>6. ASSUME NEW t \in Timers, TimerNext(t) PROVE WgExact' /\ Joined'
  <2>1. t \in Unfinished /\ watchPhase' = watchPhase
    BY <1>6 DEF TimerNext, Fire, Callback, Stat, Evaluate, OnMatch, Unfinished, In, Handling
  <2>2. \/ CallbackOver(t)
        \/ wg' = wg /\ \E s \in Counting : TimerAt(t, s)
    BY <1>6 DEF TimerNext, Fire, Callback, Stat, Evaluate, OnMatch, Counting, Handling
  <2>3. QED
    BY <2>1, <2>2, FinishCounts, GoOnCounts DEF Joined
<1>7. QED
  BY <1>2, <1>3, <1>4, <1>5, <1>6 DEF WatchNext, LoopNext

LEMMA CountInit == WatchInit => WgExact /\ Joined
<1>1. WatchInit => Unfinished = {}
  BY DEF WatchInit, Unfinished, In, Handling
<1>2. QED
  BY <1>1, FS_EmptySet DEF WatchInit, WgExact, Joined

(* The counter is the number of timers armed or in their callbacks.        *)
THEOREM WgIsExact == WatchSpec => []WgExact
BY CountInit, CountKept, TypesHold, PTL DEF WatchSpec

(* No callback outlives watchLoop.                                         *)
THEOREM NoLateCallback == WatchSpec => []NoCallbackAfterReturn
<1>1. Joined => NoCallbackAfterReturn
  BY DEF Joined, NoCallbackAfterReturn
<1>2. QED
  BY <1>1, CountInit, CountKept, TypesHold, PTL DEF WatchSpec

(* The full type invariant: the counter never goes below zero.             *)
THEOREM TypeCorrect == WatchSpec => []WatchTypeOK
<1>1. TypeInv /\ WgExact => WatchTypeOK
  <2>1. WgExact => wg \in Nat
    BY UnfinishedFinite, FS_CardinalityType DEF WgExact
  <2>2. QED
    BY <2>1 DEF TypeInv, WatchTypeOK, Report
<1>2. QED
  BY <1>1, TypesHold, WgIsExact, PTL

(* What the caller has read stays as it is.                                *)
THEOREM ResultsStay == WatchSpec => ResultStable
<1>1. NoCallbackAfterReturn /\ [WatchNext]_watchVars => (watchPhase = "returned" => collected' = collected)
  <2> SUFFICES ASSUME NoCallbackAfterReturn, [WatchNext]_watchVars, watchPhase = "returned"
               PROVE  collected' = collected
    OBVIOUS
  <2>1. \A t \in Timers : ~OnMatch(t)
    BY DEF NoCallbackAfterReturn, OnMatch, Unfinished, In, Handling
  <2>2. QED
    BY <2>1 DEF WatchNext, TreeNext, WriteFile, RemoveFile, Change, CancelWatch, LoopNext, Schedule,
                LeaveLoop, LoopReturns, TimerNext, Fire, Callback, Stat, Evaluate, watchVars
<1>2. QED
  BY <1>1, NoLateCallback, PTL DEF WatchSpec, ResultStable

(* A callback acts on the latest op of its path.                           *)
THEOREM LatestOpWins == WatchSpec => LatestWins
<1> DEFINE Acts == \A t \in Timers : stage[t] = "fired" /\ stage'[t] = "acting" =>
                     what[t].op = latest[what[t].path]
<1>1. TypeInv /\ MapInv /\ [WatchNext]_watchVars => Acts
  <2> SUFFICES ASSUME TypeInv, MapInv, [WatchNext]_watchVars,
                      NEW t \in Timers, stage[t] = "fired", stage'[t] = "acting"
               PROVE  what[t].op = latest[what[t].path]
    OBVIOUS
  <2>1. PICK u \in Timers : TimerNext(u)
    BY DEF WatchNext, TreeNext, WriteFile, RemoveFile, Change, CancelWatch, LoopNext, Schedule, LeaveLoop,
           LoopReturns, watchVars
  <2>2. u = t
    BY <2>1 DEF TimerNext, Fire, Callback, Stat, Evaluate, OnMatch, CallbackOver, TimerAt, TypeInv
  <2>3. timers[what[t].path] = t
    BY <2>1, <2>2 DEF TimerNext, Fire, Callback, Stat, Evaluate, OnMatch, CallbackOver, TimerAt,
                      Current, TypeInv
  <2>4. what[t].path \in Paths /\ t # 0
    BY Made DEF Timers
  <2>5. QED
    BY <2>3, <2>4 DEF MapInv, InTheMap
<1>2. QED
  BY <1>1, TypesHold, MapHolds, PTL DEF WatchSpec, LatestWins

(* Together: both action properties of the watch.                          *)
THEOREM StepsAreRight == WatchSpec => StepsRight
BY ResultsStay, LatestOpWins DEF StepsRight

-----------------------------------------------------------------------------
(* The tool's limit.                                                       *)
LEMMA LimitKept ==
  ASSUME TypeInv, WithinLimit, [WatchNext]_watchVars
  PROVE  WithinLimit'
<1>1. ASSUME UNCHANGED collected, watchCtx' = watchCtx \/ watchCtx' = "done" PROVE WithinLimit'
  BY <1>1 DEF WithinLimit
<1>2. ASSUME NEW t \in Timers, OnMatch(t) PROVE WithinLimit'
  <2>1. CASE HitMax
    BY <1>2, <2>1 DEF OnMatch, Full, HitMax, WithinLimit
  <2>2. CASE ~HitMax
    <3>1. [path |-> what[t].path, ver |-> seen[t]] \in Report
      BY <1>2, Made DEF OnMatch, TypeInv, Report
    <3>2. Len(collected') = Len(collected) + 1 /\ Len(collected) \in Nat
      BY <1>2, <2>2, <3>1, AppendType DEF OnMatch, Full, TypeInv
    <3>3. MaxMatches > 0 => Len(collected) < MaxMatches
      BY <2>2, <3>2, WatchLoopAssumption DEF HitMax
    <3>4. QED
      BY <1>2, <3>2, <3>3, WatchLoopAssumption DEF OnMatch, WithinLimit
  <2>3. QED
    BY <2>1, <2>2
<1>3. QED
  BY <1>1, <1>2 DEF WatchNext, TreeNext, WriteFile, RemoveFile, Change, CancelWatch, LoopNext, Schedule,
     LeaveLoop, LoopReturns, TimerNext, Fire, Callback, Stat, Evaluate, watchVars

(* Never more matches than asked for, and the last one ends the watch.     *)
THEOREM LimitHolds == WatchSpec => []WithinLimit
<1>1. WatchInit => WithinLimit
  BY WatchLoopAssumption, EmptyBatch DEF WatchInit, WithinLimit
<1>2. QED
  BY <1>1, LimitKept, TypesHold, PTL DEF WatchSpec

(* Together: the WaitGroup, the callbacks and the matches are counted as   *)
(* they should be.                                                         *)
THEOREM CountsAreExact == WatchSpec => []CountsExact
BY WgIsExact, NoLateCallback, LimitHolds, PTL DEF CountsExact

-----------------------------------------------------------------------------
(* What there is on disk the last event of its path tells, be it still in  *)
(* the queue or received.                                                  *)
LastInQueue(p, i) ==
  /\ events[i].path = p
  /\ \A j \in DOMAIN events : j > i => events[j].path # p

Told(p) ==
  \/ \E i \in DOMAIN events : events[i].op = "write" /\ LastInQueue(p, i)
  \/ latest[p] = "write" /\ \A i \in DOMAIN events : events[i].path # p

QueueInv == \A p \in Paths : disk[p] # 0 => Told(p)

LEMMA QueueKept ==
  ASSUME TypeInv, QueueInv, [WatchNext]_watchVars
  PROVE  QueueInv'
<1>1. ASSUME UNCHANGED <<disk, events, latest>> PROVE QueueInv'
  BY <1>1 DEF QueueInv, Told, LastInQueue
<1>2. ASSUME NEW q \in Paths, WriteFile(q) \/ RemoveFile(q) PROVE QueueInv'
  <2>0. PICK n \in Nat : n = Len(events)
    BY LenProperties DEF TypeInv
  <2>1. PICK op \in Ops, v \in Versions : Change(q, v, op) /\ (v # 0 => op = "write")
    BY <1>2, ChangeIs
  <2>2. [path |-> q, op |-> op] \in Event
    BY DEF Event
  <2>3. /\ DOMAIN events = 1 .. n /\ n \in Nat /\ DOMAIN events' = 1 .. n + 1
        /\ \A i \in 1 .. n : events'[i] = events[i]
        /\ events'[n + 1] = [path |-> q, op |-> op]
    BY <2>0, <2>1, <2>2, AppendProperties, LenProperties DEF Change, TypeInv
  <2>4. events'[n + 1].path = q /\ events'[n + 1].op = op
    BY <2>3
  <2>5. latest' = latest /\ \A p \in Paths : disk'[p] = IF p = q THEN v ELSE disk[p]
    BY <2>1 DEF Change, TypeInv
  <2>6. ASSUME NEW p \in Paths, disk'[p] # 0 PROVE Told(p)'
    <3>1. CASE p = q
      <4>1. LastInQueue(p, n + 1)' /\ events'[n + 1].op = "write"
        BY <2>1, <2>3, <2>4, <2>5, <2>6, <3>1 DEF LastInQueue
      <4>2. n + 1 \in DOMAIN events'
        BY <2>3
      <4>3. QED
        BY <4>1, <4>2 DEF Told
    <3>2. CASE p # q
      <4>1. Told(p)
        BY <2>5, <2>6, <3>2 DEF QueueInv
      <4>2. CASE \E i \in DOMAIN events : events[i].op = "write" /\ LastInQueue(p, i)
        <5>1. PICK i \in 1 .. n : events[i].op = "write" /\ LastInQueue(p, i)
          BY <2>3, <4>2
        <5>2. i \in DOMAIN events' /\ events'[i].op = "write" /\ LastInQueue(p, i)'
          BY <2>3, <2>4, <3>2, <5>1 DEF LastInQueue
        <5>3. QED
          BY <5>2 DEF Told
      <4>3. CASE latest[p] = "write" /\ \A i \in DOMAIN events : events[i].path # p
        BY <2>3, <2>4, <2>5, <3>2, <4>3 DEF Told
      <4>4. QED
        BY <4>1, <4>2, <4>3 DEF Told
    <3>3. QED
      BY <3>1, <3>2
  <2>7. QED
    BY <2>6 DEF QueueInv
<1>3. CASE Schedule
  <2> DEFINE e == Head(events)
  <2>0. PICK n \in Nat : n = Len(events)
    BY LenProperties DEF TypeInv
  <2>1. /\ n \in Nat /\ n # 0 /\ DOMAIN events = 1 .. n /\ DOMAIN events' = 1 .. n - 1
        /\ e = events[1] /\ \A i \in 1 .. n - 1 : events'[i] = events[i + 1]
    BY <1>3, <2>0, HeadTailProperties, LenProperties, EmptySeq DEF Schedule, TypeInv
  <2>2. /\ disk' = disk
        /\ \A p \in Paths : latest'[p] = IF p = e.path THEN e.op ELSE latest[p]
    BY <1>3 DEF Schedule, TypeInv, treeVars
  <2> HIDE DEF e
  <2>3. ASSUME NEW p \in Paths, disk[p] # 0 PROVE Told(p)'
    <3>1. Told(p)
      BY <2>3 DEF QueueInv
    <3>2. CASE \E i \in DOMAIN events : events[i].op = "write" /\ LastInQueue(p, i)
      <4>1. PICK i \in 1 .. n : events[i].op = "write" /\ LastInQueue(p, i)
        BY <2>1, <3>2
      <4>2. CASE i = 1
        <5>1. latest'[p] = "write"
          BY <2>1, <2>2, <4>1, <4>2 DEF LastInQueue
        <5>2. \A j \in DOMAIN events' : events'[j].path # p
          BY <2>1, <4>1, <4>2 DEF LastInQueue
        <5>3. QED
          BY <5>1, <5>2 DEF Told
      <4>3. CASE i # 1
        <5>1. i - 1 \in DOMAIN events' /\ events'[i - 1].op = "write" /\ LastInQueue(p, i - 1)'
          <6>1. i - 1 \in 1 .. n - 1 /\ events'[i - 1] = events[i]
            BY <2>1, <4>3
          <6>2. \A j \in 1 .. n - 1 : j > i - 1 => j + 1 \in 1 .. n /\ j + 1 > i
            BY <4>3
          <6>3. QED
            BY <2>1, <4>1, <6>1, <6>2 DEF LastInQueue
        <5>2. QED
          BY <5>1 DEF Told
      <4>4. QED
        BY <4>2, <4>3
    <3>3. CASE latest[p] = "write" /\ \A i \in DOMAIN events : events[i].path # p
      BY <2>1, <2>2, <3>3 DEF Told
    <3>4. QED
      BY <3>1, <3>2, <3>3 DEF Told
  <2>4. QED
    BY <2>2, <2>3 DEF QueueInv
<1>4. QED
  BY <1>1, <1>2, <1>3 DEF WatchNext, TreeNext, CancelWatch, LoopNext, LeaveLoop, LoopReturns, TimerNext, Fire,
     Callback, Stat, Evaluate, OnMatch, treeVars, watchVars

LEMMA QueueInit == WatchInit => QueueInv
BY DEF WatchInit, QueueInv

LEMMA QueueHolds == WatchSpec => []QueueInv
BY QueueInit, QueueKept, TypesHold, PTL DEF WatchSpec

(* A file no step of this kind touches stays reported or on its way.       *)
Tracked(p) == Reported(p, disk[p]) \/ OnItsWay(p)

(* A step of one timer leaves what the others carry.                       *)
LEMMA OthersCarry ==
  ASSUME TypeInv, NEW t \in Timers, NEW s \in Stages, TimerAt(t, s),
         UNCHANGED <<treeVars, events, what>>,
         \A p \in Paths : timers[p] # t => timers'[p] = timers[p],
         \A u \in Timers : u # t => seen'[u] = seen[u],
         \A p \in Paths, v \in Versions : Reported(p, v) => Reported(p, v)',
         NEW p \in Paths, Tracked(p), ~Carries(t, p)
  PROVE  Tracked(p)'
<1>1. \A u \in Timers : u # t => stage'[u] = stage[u]
  BY DEF TimerAt, TypeInv
<1>2. CASE Reported(p, disk[p])
  BY <1>2 DEF Tracked, TypeInv, treeVars
<1>3. CASE Queued(p)
  BY <1>3 DEF Tracked, OnItsWay, Queued
<1>4. ASSUME NEW u \in Timers, Carries(u, p) PROVE Carries(u, p)'
  BY <1>1, <1>4 DEF Carries, treeVars
<1>5. QED
  BY <1>2, <1>3, <1>4 DEF Tracked, OnItsWay

LEMMA ReportedStay ==
  ASSUME TypeInv,
         \/ collected' = collected
         \/ \E r \in Report : collected' = Append(collected, r)
  PROVE  \A p \in Paths, v \in Versions : Reported(p, v) => Reported(p, v)'
<1>1. CASE collected' = collected
  BY <1>1 DEF Reported
<1>2. ASSUME NEW r \in Report, collected' = Append(collected, r)
      PROVE  \A p \in Paths, v \in Versions : Reported(p, v) => Reported(p, v)'
  <2>1. /\ DOMAIN collected = 1 .. Len(collected) /\ Len(collected) \in Nat
        /\ DOMAIN collected' = 1 .. Len(collected) + 1
        /\ \A i \in 1 .. Len(collected) : collected'[i] = collected[i]
    BY <1>2, AppendProperties, LenProperties DEF TypeInv
  <2>2. QED
    BY <2>1 DEF Reported
<1>3. QED
  BY <1>1, <1>2

LEMMA TimerTracks ==
  ASSUME TypeInv, WithinLimit, NEW t \in Timers, TimerNext(t), watchCtx' = "live",
         NEW p \in Paths, disk[p] # 0, Tracked(p)
  PROVE  Tracked(p)'
<1>1. /\ watchCtx = "live" /\ what' = what /\ UNCHANGED <<treeVars, events>>
      /\ \E s \in Stages : TimerAt(t, s)
      /\ \A q \in Paths : timers[q] # t => timers'[q] = timers[q]
      /\ \A u \in Timers : u # t => seen'[u] = seen[u]
  <2>1. \E s \in Stages : TimerAt(t, s)
    BY DEF TimerNext, Fire, Callback, Stat, Evaluate, OnMatch, CallbackOver, Stages, Handling
  <2>2. \A q \in Paths : timers[q] # t => timers'[q] = timers[q]
    BY DEF TimerNext, Fire, Callback, Current, Stat, Evaluate, OnMatch, TypeInv, timerVars
  <2>3. \A u \in Timers : u # t => seen'[u] = seen[u]
    BY DEF TimerNext, Fire, Callback, Stat, Evaluate, OnMatch, TypeInv
  <2>4. watchCtx = "live" /\ what' = what /\ UNCHANGED <<treeVars, events>>
    BY DEF TimerNext, Fire, Callback, Stat, Evaluate, OnMatch, TypeInv, timerVars
  <2>5. QED
    BY <2>1, <2>2, <2>3, <2>4
<1>2. \/ collected' = collected
      \/ \E r \in Report : collected' = Append(collected, r)
  <2>1. OnMatch(t) => [path |-> what[t].path, ver |-> seen[t]] \in Report
    BY Made DEF OnMatch, TypeInv, Report
  <2>2. QED
    BY <2>1 DEF TimerNext, Fire, Callback, Stat, Evaluate, OnMatch
<1>3. CASE ~Carries(t, p)
  BY <1>1, <1>2, <1>3, OthersCarry, ReportedStay
<1>4. CASE Carries(t, p)
  <2>1. what[t].path = p /\ what[t].op = "write" /\ what' = what /\ disk' = disk
    BY <1>1, <1>4 DEF Carries, treeVars
  <2>2. CASE Fire(t)
    BY <1>4, <2>1, <2>2 DEF Fire, TimerAt, Carries, Tracked, OnItsWay, timerVars, TypeInv
  <2>3. CASE Callback(t)
    <3>1. timers[p] = t
      BY <1>4, <2>3 DEF Callback, Carries
    <3>2. stage'[t] = "acting"
      BY <2>1, <2>3, <3>1 DEF Callback, Current, TimerAt, TypeInv
    <3>3. QED
      BY <2>1, <3>2 DEF Carries, Tracked, OnItsWay
  <2>4. CASE Stat(t)
    <3>1. stage'[t] = "statted"
      BY <1>1, <2>1, <2>4 DEF Stat, TimerAt, TypeInv
    <3>2. QED
      BY <2>1, <3>1 DEF Carries, Tracked, OnItsWay
  <2>5. CASE Evaluate(t)
    <3>1. stage'[t] = "matched" /\ seen'[t] = disk'[p]
      BY <1>1, <2>1, <2>5 DEF Evaluate, TimerAt, TypeInv
    <3>2. QED
      BY <2>1, <3>1 DEF Carries, Tracked, OnItsWay
  <2>6. CASE OnMatch(t)
    <3> DEFINE r == [path |-> what[t].path, ver |-> seen[t]]
    <3>1. r \in Report /\ r.path = p /\ r.ver = disk[p]
      BY <1>4, <2>1, <2>6, Made DEF OnMatch, TypeInv, Report, Carries
    <3>2. ~HitMax
      <4>1. HitMax => MaxMatches > 0 /\ Len(collected) = MaxMatches
        BY LenProperties, WatchLoopAssumption DEF HitMax, WithinLimit, TypeInv
      <4>2. QED
        BY <1>1, <4>1 DEF WithinLimit
    <3>3. collected' = Append(collected, r)
      BY <2>6, <3>2 DEF OnMatch, Full
    <3> HIDE DEF r
    <3>4. Len(collected) + 1 \in DOMAIN collected' /\ collected'[Len(collected) + 1] = r
      BY <3>1, <3>3, AppendProperties, LenProperties DEF TypeInv
    <3>5. QED
      BY <2>1, <3>1, <3>4 DEF Tracked, Reported
  <2>7. QED
    BY <2>2, <2>3, <2>4, <2>5, <2>6 DEF TimerNext
<1>5. QED
  BY <1>3, <1>4

LEMMA ChangeTracks ==
  ASSUME TypeInv, NEW q \in Paths, WriteFile(q) \/ RemoveFile(q),
         NEW p \in Paths, disk'[p] # 0, disk[p] # 0 => Tracked(p)
  PROVE  Tracked(p)'
<1>1. PICK op \in Ops, v \in Versions : Change(q, v, op) /\ (v # 0 => op = "write")
  BY ChangeIs
<1>2. [path |-> q, op |-> op] \in Event
  BY DEF Event
<1>3. /\ DOMAIN events = 1 .. Len(events) /\ Len(events) \in Nat
      /\ DOMAIN events' = 1 .. Len(events) + 1
      /\ \A i \in 1 .. Len(events) : events'[i] = events[i]
      /\ events'[Len(events) + 1] = [path |-> q, op |-> op]
  BY <1>1, <1>2, AppendProperties, LenProperties DEF Change, TypeInv
<1>4. /\ \A x \in Paths : disk'[x] = IF x = q THEN v ELSE disk[x]
      /\ UNCHANGED <<timers, stage, what, seen, collected>>
  BY <1>1 DEF Change, TypeInv, timerVars
<1>5. CASE p = q
  BY <1>1, <1>3, <1>4, <1>5 DEF Tracked, OnItsWay, Queued
<1>6. CASE p # q
  <2>1. Tracked(p) /\ disk'[p] = disk[p]
    BY <1>4, <1>6
  <2>2. Queued(p) => Queued(p)'
    BY <1>3 DEF Queued
  <2>3. \A t \in Timers : Carries(t, p) => Carries(t, p)'
    BY <1>4, <2>1 DEF Carries
  <2>4. Reported(p, disk[p]) => Reported(p, disk[p])'
    BY <1>4, <2>1 DEF Reported
  <2>5. QED
    BY <2>1, <2>2, <2>3, <2>4 DEF Tracked, OnItsWay
<1>7. QED
  BY <1>5, <1>6

LEMMA ScheduleTracks ==
  ASSUME TypeInv, MapInv, Schedule, NEW p \in Paths, disk[p] # 0, Tracked(p), Told(p)'
  PROVE  Tracked(p)'
<1> DEFINE new == made + 1
           e == Head(events)
           old == Stopped({timers[e.path]} \ {0})
<1>1. /\ new \in Timers /\ stage[new] = "unused" /\ e \in Event /\ e.path \in Paths
  BY NextTimer DEF Schedule
<1>2. /\ UNCHANGED <<treeVars, seen, collected>>
      /\ \A x \in Paths : /\ timers'[x] = IF x = e.path THEN new ELSE timers[x]
                         /\ latest'[x] = IF x = e.path THEN e.op ELSE latest[x]
      /\ \A t \in Timers : /\ what'[t] = IF t = new THEN e ELSE what[t]
                          /\ stage'[t] = IF t = new THEN "armed"
                                         ELSE IF t \in old THEN "stopped" ELSE stage[t]
  <2>1. /\ UNCHANGED <<treeVars, seen, collected>>
        /\ timers' = [timers EXCEPT ![e.path] = new]
        /\ latest' = [latest EXCEPT ![e.path] = e.op]
        /\ what' = [what EXCEPT ![new] = e]
        /\ stage' = [t \in Timers |-> IF t = new THEN "armed"
                                      ELSE IF t \in old THEN "stopped" ELSE stage[t]]
    BY DEF Schedule
  <2> HIDE DEF new, e, old
  <2>2. QED
    BY <2>1 DEF TypeInv
<1>3. \A t \in old : t = timers[e.path] /\ t # 0 /\ stage[t] = "armed"
  BY DEF Stopped, In
<1> HIDE DEF old
<1>4. CASE Reported(p, disk[p])
  BY <1>2, <1>4 DEF Tracked, Reported, treeVars
<1>5. CASE p = e.path
  <2>1. CASE \E i \in DOMAIN events' : events'[i].op = "write" /\ LastInQueue(p, i)'
    BY <2>1 DEF Tracked, OnItsWay, Queued, LastInQueue
  <2>2. CASE latest'[p] = "write"
    <3>1. PICK t \in Timers : t = new
      BY <1>1
    <3>2. /\ stage'[t] = "armed" /\ timers'[p] = t /\ what'[t] = e
          /\ e.path = p /\ e.op = "write"
      BY <1>1, <1>2, <1>5, <2>2, <3>1
    <3> HIDE DEF e
    <3>3. Carries(t, p)'
      BY <3>2 DEF Carries
    <3>4. QED
      BY <3>3 DEF Tracked, OnItsWay
  <2>3. QED
    BY <2>1, <2>2 DEF Told
<1>6. CASE p # e.path /\ Queued(p)
  <2>1. PICK i \in DOMAIN events : events[i].path = p /\ events[i].op = "write"
    BY <1>6 DEF Queued
  <2>2. /\ DOMAIN events = 1 .. Len(events) /\ DOMAIN events' = 1 .. Len(events) - 1
        /\ Len(events) \in Nat /\ e = events[1]
        /\ \A j \in 1 .. Len(events) - 1 : events'[j] = events[j + 1]
    BY HeadTailProperties, LenProperties, EmptySeq DEF Schedule, TypeInv
  <2>3. i \in Nat /\ i # 1 /\ i - 1 \in 1 .. Len(events) - 1
    BY <1>6, <2>1, <2>2
  <2>4. events'[i - 1] = events[i]
    BY <2>2, <2>3
  <2>5. QED
    BY <2>1, <2>2, <2>3, <2>4 DEF Tracked, OnItsWay, Queued
<1>7. ASSUME p # e.path, NEW t \in Timers, Carries(t, p) PROVE Carries(t, p)'
  <2>1. t # new /\ stage[t] # "unused"
    BY <1>1, <1>7 DEF Carries
  <2>2. t \notin old
    BY <1>1, <1>3, <1>7 DEF Carries, MapInv, InTheMap
  <2>3. stage'[t] = stage[t] /\ what'[t] = what[t] /\ timers'[p] = timers[p] /\ disk' = disk
    BY <1>2, <1>7, <2>1, <2>2 DEF treeVars
  <2>4. QED
    BY <1>2, <1>7, <2>3 DEF Carries
<1>8. QED
  BY <1>4, <1>5, <1>6, <1>7 DEF Tracked, OnItsWay

LEMMA NothingMissedKept ==
  ASSUME TypeInv, MapInv, WithinLimit, QueueInv, NothingMissed, [WatchNext]_watchVars
  PROVE  NothingMissed'
<1> SUFFICES ASSUME watchCtx' = "live", NEW p \in Paths, disk'[p] # 0 PROVE Tracked(p)'
  BY DEF NothingMissed, Tracked
<1>1. watchCtx = "live"
  BY DEF WatchNext, TreeNext, WriteFile, RemoveFile, Change, CancelWatch, LoopNext, Schedule, LeaveLoop,
         LoopReturns, TimerNext, Fire, Callback, Stat, Evaluate, OnMatch, TypeInv, watchVars
<1>2. disk[p] # 0 => Tracked(p)
  BY <1>1 DEF NothingMissed, Tracked
<1>3. ASSUME NEW q \in Paths, WriteFile(q) \/ RemoveFile(q) PROVE Tracked(p)'
  BY <1>2, <1>3, ChangeTracks
<1>4. CASE Schedule
  <2>1. disk[p] # 0 /\ Told(p)'
    BY <1>4, QueueKept DEF Schedule, treeVars, QueueInv
  <2>2. QED
    BY <1>2, <1>4, <2>1, ScheduleTracks
<1>5. CASE LoopReturns \/ UNCHANGED watchVars
  BY <1>2, <1>5 DEF LoopReturns, watchVars, treeVars, timerVars, Tracked, Reported, OnItsWay, Queued,
                    Carries
<1>6. ASSUME NEW t \in Timers, TimerNext(t) PROVE Tracked(p)'
  <2>1. disk[p] # 0
    BY <1>6 DEF TimerNext, Fire, Callback, Stat, Evaluate, OnMatch, treeVars
  <2>2. QED
    BY <1>2, <1>6, <2>1, TimerTracks
<1>7. ~CancelWatch /\ ~LeaveLoop
  BY <1>1 DEF CancelWatch, LeaveLoop
<1>8. QED
  BY <1>3, <1>4, <1>5, <1>6, <1>7 DEF WatchNext, TreeNext, LoopNext

(* No change of a watched file is lost on its way to a report.             *)
THEOREM NothingIsMissed == WatchSpec => []NothingMissed
<1>1. WatchInit => NothingMissed
  BY DEF WatchInit, NothingMissed
<1>2. QED
  BY <1>1, NothingMissedKept, TypesHold, MapHolds, LimitHolds, QueueHolds, PTL DEF WatchSpec

(* Both together: whatever fires, is cancelled or returns, no callback is  *)
(* miscounted and no change of a watched file is lost.                     *)
THEOREM WatchIsExact == WatchSpec => []WatchExact
BY CountsAreExact, NothingIsMissed, PTL DEF WatchExact
=============================================================================
