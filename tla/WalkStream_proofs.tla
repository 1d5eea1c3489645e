-------------------------- MODULE WalkStream_proofs -------------------------
(***************************************************************************)
(* What holds of WalkStream for every tree, expression, number of workers  *)
(* and channel capacity, cancelled or not; and of the call graph that one  *)
(* pass over a walk's files makes (CodeGraph), for any files and names.    *)
(***************************************************************************)
EXTENDS WalkStream, CodeGraph, DataLemmas, FiniteSetTheorems, TLAPS

LEMMA ListingType == \A r : ListingOf(r) \subseteq Files
BY WalkAssumption DEF ListingOf, Roots

LEMMA InHandIs ==
  \A f : f \in InHand <=> \E w \in Workers : at[w] \in {"busy", "sending"} /\ held[w] = f
BY DEF InHand

(* The type invariant with what a worker's state says of its hands.        *)
Hands == \A w \in Workers :
  /\ at[w] \in {"busy", "sending"} => held[w] \in Files
  /\ at[w] \in {"off", "idle"} => held[w] = None
  /\ at[w] = "sending" => held[w] \in Matching

(* Nobody works before Start and after Return.                             *)
Joined == phase \in {"setup", "returned"} => AllOff

TypeInv == TypeOK /\ Hands /\ Joined

THEOREM TypeCorrect == Spec => []TypeInv
<1>1. Init => TypeInv
  <2>1. Init => TypeOK
    <3>1. Init => walkErr \in BOOLEAN
      BY Zenon DEF Init
    <3>2. QED
      BY <3>1 DEF Init, TypeOK
  <2>2. QED
    BY <2>1 DEF Init, TypeInv, Hands, Joined, AllOff
<1>2. TypeInv /\ [Next]_vars => TypeInv'
  <2> SUFFICES ASSUME TypeInv, [Next]_vars PROVE TypeInv'
    OBVIOUS
  <2> USE DEF TypeInv, TypeOK, Hands, Joined, AllOff
  <2>1. CASE Start
    <3>1. at' = [w \in Workers |-> "idle"] /\ held' = held
      BY <2>1 DEF Start
    <3>2. \A w \in Workers : held[w] = None
      BY <2>1 DEF Start
    <3>3. QED
      BY <2>1, <3>1, <3>2, ListingType DEF Start, readerVars
  <2>2. CASE SetupFails
    BY <2>2 DEF SetupFails, workerVars, readerVars
  <2>3. ASSUME NEW f \in Files, Queue(f) PROVE TypeInv'
    BY <2>3 DEF Queue, workerVars, readerVars
  <2>4. CASE Abandon
    BY <2>4 DEF Abandon, workerVars, readerVars
  <2>5. CASE NextRoot
    BY <2>5, ListingType DEF NextRoot, NextListing, workerVars, readerVars
  <2>6. CASE Return
    BY <2>6 DEF Return, workerVars, readerVars
  <2>7. ASSUME NEW w \in Workers, Take(w) PROVE TypeInv'
    BY <2>7 DEF Take, Become, producerVars, readerVars
  <2>8. ASSUME NEW w \in Workers, Leave(w) PROVE TypeInv'
    BY <2>8 DEF Leave, Become, producerVars, readerVars
  <2>9. ASSUME NEW w \in Workers, Process(w) PROVE TypeInv'
    BY <2>9 DEF Process, Become, producerVars, readerVars
  <2>10. ASSUME NEW w \in Workers, Send(w) PROVE TypeInv'
    BY <2>10 DEF Send, Become, producerVars, readerVars
  <2>11. CASE Receive
    BY <2>11 DEF Receive, producerVars, workerVars
  <2>12. CASE Quit
    BY <2>12 DEF Quit, producerVars, workerVars
  <2>13. CASE Finish
    BY <2>13 DEF Finish, producerVars, workerVars
  <2>14. CASE Cancel
    BY <2>14 DEF Cancel, producerVars, workerVars, readerVars
  <2>15. CASE UNCHANGED vars
    BY <2>15 DEF vars
  <2>16. QED
    BY <2>1, <2>2, <2>3, <2>4, <2>5, <2>6, <2>7, <2>8, <2>9, <2>10, <2>11, <2>12,
       <2>13, <2>14, <2>15 DEF Next, ProducerNext, WorkerNext, ReaderNext
<1>3. QED
  BY <1>1, <1>2, PTL DEF Spec

-----------------------------------------------------------------------------
(* At every moment of a walk, for every tree and any number of workers, only *)
(* files of the tree are queued, held, sent and collected, and workers, the *)
(* call and its reader are in states the code knows (walker.go, WalkStream). *)
THEOREM TypesHold == Spec => []TypeOK
BY TypeCorrect, PTL DEF TypeInv

-----------------------------------------------------------------------------
(* How one worker's step changes what is in the workers' hands.            *)
LEMMA HandStep ==
  ASSUME TypeInv, NEW w \in Workers, NEW a, NEW f, Become(w, a, f)
  PROVE  /\ a \in {"busy", "sending"} => InHand' \subseteq InHand \cup {f} /\ f \in InHand'
         /\ a \notin {"busy", "sending"} => InHand' \subseteq InHand
         /\ InHand \ {held[w]} \subseteq InHand'
         /\ at[w] = "idle" => InHand \subseteq InHand'
<1>1. /\ at'[w] = a /\ held'[w] = f
      /\ \A v \in Workers : v # w => at'[v] = at[v] /\ held'[v] = held[v]
  BY DEF Become, TypeInv, TypeOK
<1>2. \A x : x \in InHand' <=> \E v \in Workers : at'[v] \in {"busy", "sending"} /\ held'[v] = x
  BY DEF InHand
<1>3. QED
  BY <1>1, <1>2, InHandIs

(* A file in somebody's hands alone is in nobody's once it is let go.      *)
LEMMA HandLeft ==
  ASSUME TypeInv, OnePlace, NEW w \in Workers, NEW a, NEW f, Become(w, a, f),
         held[w] # None, a \notin {"busy", "sending"}
  PROVE  held[w] \notin InHand'
<1>1. /\ at'[w] = a
      /\ \A v \in Workers : v # w => at'[v] = at[v] /\ held'[v] = held[v]
  BY DEF Become, TypeInv, TypeOK
<1>2. \A x : x \in InHand' <=> \E v \in Workers : at'[v] \in {"busy", "sending"} /\ held'[v] = x
  BY DEF InHand
<1>3. \A v \in Workers : v # w => held[v] # held[w]
  BY DEF OnePlace
<1>4. QED
  BY <1>1, <1>2, <1>3

LEMMA HandsHeld ==
  ASSUME TypeInv, NEW w \in Workers, held[w] # None
  PROVE  held[w] \in InHand
BY InHandIs DEF TypeInv, TypeOK, Hands

LEMMA ListedIs == \A f : f \in Listed <=> \E r \in 1 .. root : f \in ListingOf(r)
BY DEF Listed

(* What has been seen was listed, so a root still to come is new.          *)
Ahead ==
  /\ root \in Nat \ {0}
  /\ todo \subseteq ListingOf(root)
  /\ jobs \cup InHand \cup out \cup received \subseteq Listed

Fresh == phase = "setup" =>
  root = 1 /\ todo = {} /\ jobs = {} /\ out = {} /\ received = {}

PlaceInv == OnePlace /\ Ahead /\ Fresh

LEMMA NewListing ==
  ASSUME PlaceInv, TypeOK
  PROVE  \A f \in ListingOf(root + 1) : f \notin jobs \cup InHand \cup out \cup received
<1>1. ASSUME NEW f \in ListingOf(root + 1), NEW r \in 1 .. root, f \in ListingOf(r)
      PROVE  FALSE
  <2>1. root + 1 \in Roots /\ r \in Roots /\ r # root + 1
    BY <1>1 DEF ListingOf, PlaceInv, Ahead
  <2>2. f \in FilesOf[root + 1] /\ f \in FilesOf[r]
    BY <1>1, <2>1 DEF ListingOf
  <2>3. QED
    BY <2>1, <2>2, WalkAssumption
<1>2. QED
  BY <1>1, ListedIs DEF PlaceInv, Ahead

(* The places do not change.                                               *)
LEMMA SamePlaces ==
  ASSUME PlaceInv, UNCHANGED <<todo, root, jobs, at, held, out, received>>,
         phase' = "setup" => phase = "setup"
  PROVE  PlaceInv'
BY DEF PlaceInv, OnePlace, Ahead, Fresh, InHand, Listed

(* The inductive form of OnePlace.                                         *)
THEOREM PlacesKept == Spec => []PlaceInv
<1>1. Init => PlaceInv
  BY DEF Init, PlaceInv, OnePlace, Ahead, Fresh, InHand, Listed
<1>2. TypeInv /\ PlaceInv /\ [Next]_vars => PlaceInv'
  <2> SUFFICES ASSUME TypeInv, PlaceInv, [Next]_vars PROVE PlaceInv'
    OBVIOUS
  <2>1. CASE Start
    <3>1. /\ jobs' = {} /\ out' = {} /\ received' = {} /\ root' = 1
          /\ todo' = ListingOf(root') /\ phase' = "walk"
      BY <2>1 DEF Start, PlaceInv, Fresh, readerVars
    <3>2. InHand' = {} /\ \A w \in Workers : held'[w] = None
      BY <2>1 DEF Start, TypeInv, TypeOK, Joined, Hands, AllOff, InHand
    <3>3. QED
      BY <3>1, <3>2 DEF PlaceInv, OnePlace, Ahead, Fresh
  <2>2. CASE SetupFails
    BY <2>2, SamePlaces DEF SetupFails, workerVars, readerVars
  <2>3. ASSUME NEW f \in Files, Queue(f) PROVE PlaceInv'
    <3>1. /\ UNCHANGED <<root, at, held, out, received>> /\ phase' = phase /\ phase = "walk"
          /\ f \in todo /\ todo' = todo \ {f} /\ jobs' = jobs \cup {f}
      BY <2>3 DEF Queue, workerVars, readerVars
    <3>2. InHand' = InHand /\ Listed' = Listed
      BY <3>1 DEF InHand, Listed
    <3>3. f \in Listed
      BY <3>1, ListedIs DEF PlaceInv, Ahead
    <3>4. ListingOf(root)' = ListingOf(root)
      BY <3>1
    <3>5. OnePlace'
      BY <3>1, <3>2 DEF PlaceInv, OnePlace
    <3>6. QED
      BY <3>1, <3>2, <3>3, <3>4, <3>5 DEF PlaceInv, Ahead, Fresh
  <2>4. CASE Abandon
    BY <2>4, SamePlaces DEF Abandon, workerVars, readerVars
  <2>5. CASE NextRoot
    <3>1. CASE root' = root + 1 /\ todo' = ListingOf(root + 1) /\ phase' = phase
      <4>1. UNCHANGED <<jobs, at, held, out, received>> /\ phase = "walk"
        BY <2>5 DEF NextRoot, workerVars, readerVars
      <4>2. InHand' = InHand /\ Listed \subseteq Listed'
        BY <3>1, <4>1, ListedIs DEF InHand, Listed, PlaceInv, Ahead
      <4>3. OnePlace'
        BY <3>1, <4>1, <4>2, NewListing DEF PlaceInv, OnePlace, TypeInv
      <4>4. QED
        BY <3>1, <4>1, <4>2, <4>3 DEF PlaceInv, Ahead, Fresh
    <3>2. CASE phase' = "wait" /\ UNCHANGED <<root, todo>>
      BY <2>5, <3>2, SamePlaces DEF NextRoot, workerVars, readerVars
    <3>3. QED
      BY <2>5, <3>1, <3>2 DEF NextRoot, NextListing
  <2>6. CASE Return
    BY <2>6, SamePlaces DEF Return, workerVars, readerVars
  <2>7. ASSUME NEW w \in Workers, Take(w) PROVE PlaceInv'
    <3>1. PICK f \in jobs : jobs' = jobs \ {f} /\ Become(w, "busy", f)
      BY <2>7 DEF Take
    <3>2. UNCHANGED <<phase, root, todo, out, received>> /\ Listed' = Listed
      BY <2>7 DEF Take, producerVars, readerVars, Listed
    <3>3. InHand' \subseteq InHand \cup {f}
      BY <3>1, HandStep
    <3>4. \A u, v \in Workers : u # v /\ held'[u] = held'[v] => held'[u] = None
      <4>1. held' = [held EXCEPT ![w] = f] /\ f \notin InHand
        BY <3>1 DEF Become, PlaceInv, OnePlace
      <4>2. \A v \in Workers : held[v] # None => held[v] # f
        BY <4>1, HandsHeld
      <4>3. f # None /\ f \in Files
        BY <3>1, WalkAssumption DEF TypeInv, TypeOK
      <4>4. QED
        BY <4>1, <4>2, <4>3 DEF TypeInv, TypeOK, PlaceInv, OnePlace
    <3>5. OnePlace'
      BY <3>1, <3>2, <3>3, <3>4 DEF PlaceInv, OnePlace
    <3>6. Ahead' /\ Fresh'
      BY <3>1, <3>2, <3>3 DEF PlaceInv, Ahead, Fresh
    <3>7. QED
      BY <3>5, <3>6 DEF PlaceInv
  <2>8. ASSUME NEW w \in Workers, NEW a \in {"off", "idle", "sending"}, NEW f \in {None, held[w]},
               Become(w, a, f), a = "sending" => f = held[w] /\ held[w] \in InHand,
               UNCHANGED <<phase, root, todo, jobs, out, received>>
        PROVE  PlaceInv'
    <3>1. InHand' \subseteq InHand
      BY <2>8, HandStep
    <3>2. \A u, v \in Workers : u # v /\ held'[u] = held'[v] => held'[u] = None
      BY <2>8 DEF Become, PlaceInv, OnePlace, TypeInv, TypeOK
    <3>3. QED
      BY <2>8, <3>1, <3>2 DEF PlaceInv, OnePlace, Ahead, Fresh, Listed
  <2>9. ASSUME NEW w \in Workers, Leave(w) PROVE PlaceInv'
    BY <2>8, <2>9 DEF Leave, producerVars, readerVars
  <2>10. ASSUME NEW w \in Workers, Process(w) PROVE PlaceInv'
    <3>1. held[w] \in InHand
      BY <2>10, InHandIs DEF Process
    <3>2. UNCHANGED <<phase, root, todo, jobs, out, received>>
      BY <2>10 DEF Process, producerVars, readerVars
    <3>3. \E a \in {"off", "idle", "sending"}, f \in {None, held[w]} :
             Become(w, a, f) /\ (a = "sending" => f = held[w])
      BY <2>10 DEF Process
    <3>4. QED
      BY <2>8, <3>1, <3>2, <3>3
  <2>11. ASSUME NEW w \in Workers, Send(w) PROVE PlaceInv'
    <3>1. held[w] \in InHand /\ held[w] # None
      BY <2>11, InHandIs, WalkAssumption DEF Send, TypeInv, Hands
    <3>2. CASE out' = out \cup {held[w]} /\ Become(w, "idle", None)
      <4>1. UNCHANGED <<phase, root, todo, jobs, received>> /\ Listed' = Listed
        BY <2>11 DEF Send, producerVars, readerVars, Listed
      <4>2. InHand' \subseteq InHand /\ held[w] \notin InHand'
        BY <3>1, <3>2, HandStep, HandLeft DEF PlaceInv
      <4>3. \A u, v \in Workers : u # v /\ held'[u] = held'[v] => held'[u] = None
        BY <3>2 DEF Become, PlaceInv, OnePlace, TypeInv, TypeOK
      <4>4. OnePlace'
        BY <3>1, <3>2, <4>1, <4>2, <4>3 DEF PlaceInv, OnePlace
      <4>5. phase # "setup"
        BY <2>11 DEF Send, TypeInv, Joined, AllOff
      <4>6. QED
        BY <3>1, <3>2, <4>1, <4>2, <4>4, <4>5 DEF PlaceInv, Ahead, Fresh
    <3>3. CASE out' = out /\ Become(w, "off", None)
      BY <2>8, <2>11, <3>3 DEF Send, producerVars, readerVars
    <3>4. QED
      BY <2>11, <3>2, <3>3 DEF Send
  <2>12. CASE Receive
    <3>1. PICK f \in out : out' = out \ {f} /\ received' = received \cup {f}
      BY <2>12 DEF Receive
    <3>2. UNCHANGED <<phase, root, todo, jobs, at, held>>
      BY <2>12 DEF Receive, producerVars, workerVars
    <3>3. InHand' = InHand /\ Listed' = Listed
      BY <3>2 DEF InHand, Listed
    <3>4. OnePlace'
      BY <3>1, <3>2, <3>3 DEF PlaceInv, OnePlace
    <3>5. QED
      BY <3>1, <3>2, <3>3, <3>4 DEF PlaceInv, Ahead, Fresh
  <2>13. CASE Quit
    BY <2>13, SamePlaces DEF Quit, producerVars, workerVars
  <2>14. CASE Finish
    BY <2>14, SamePlaces DEF Finish, producerVars, workerVars
  <2>15. CASE Cancel
    BY <2>15, SamePlaces DEF Cancel, producerVars, workerVars, readerVars
  <2>16. CASE UNCHANGED vars
    BY <2>16, SamePlaces DEF vars
  <2>17. QED
    BY <2>1, <2>2, <2>3, <2>4, <2>5, <2>6, <2>7, <2>9, <2>10, <2>11, <2>12,
       <2>13, <2>14, <2>15, <2>16 DEF Next, ProducerNext, WorkerNext, ReaderNext
<1>3. QED
  BY <1>1, <1>2, TypeCorrect, PTL DEF Spec

(* No file is ever in two places: it is evaluated and reported once.       *)
THEOREM OnePlaceHolds == Spec => []OnePlace
BY PlacesKept, PTL DEF PlaceInv

(* No worker is left to send when the result channel is closed.            *)
THEOREM NoSendOnClosed == Spec => []NoSendAfterClose
<1>1. TypeInv => NoSendAfterClose
  BY DEF TypeInv, TypeOK, Joined, AllOff, NoSendAfterClose
<1>2. QED
  BY <1>1, TypeCorrect, PTL

-----------------------------------------------------------------------------
(* While the context is live, workers leave a walk that is over, and the   *)
(* walk is over when every root has been listed.                           *)
Leaving == ctx = "live" /\ phase \in {"walk", "wait"} /\ (\E w \in Workers : at[w] = "off")
             => phase = "wait" /\ jobs = {}
Through == ctx = "live" /\ phase = "wait" => todo = {} /\ NRoots <= root

(* What is reported matches; the result and the reader follow the walk.    *)
Accepted == out \cup received \subseteq Matching
Ending ==
  /\ ret # "none" <=> phase = "returned"
  /\ reader \in {"done", "failed"} => phase = "returned"
  /\ reader = "done" => out = {}

FlowInv == NothingLost /\ Leaving /\ Through /\ Accepted /\ Ending /\ NilMeansComplete

(* Steps that only move the phase on, or end the context.                  *)
LEMMA SameFlow ==
  ASSUME FlowInv, UNCHANGED <<todo, root, jobs, at, held, out, received, ret, reader>>,
         ctx' \in {ctx, "done"}, phase' \in {phase, "wait"},
         phase' # phase => phase = "walk" /\ (ctx' = "live" => todo = {} /\ NRoots <= root)
  PROVE  FlowInv'
<1>1. InHand' = InHand /\ Listed' = Listed
  BY DEF InHand, Listed
<1>2. NothingLost'
  BY <1>1 DEF FlowInv, NothingLost
<1>3. Leaving'
  BY DEF FlowInv, Leaving
<1>4. Through' /\ Accepted' /\ Ending' /\ NilMeansComplete'
  BY DEF FlowInv, Through, Accepted, Ending, NilMeansComplete
<1>5. QED
  BY <1>2, <1>3, <1>4 DEF FlowInv

(* Steps of a worker or of the reader before and after the walk.           *)
LEMMA MovedFlow ==
  ASSUME FlowInv, UNCHANGED <<ctx, phase, root, ret>>,
         todo' \subseteq todo, jobs' \subseteq jobs \cup todo,
         phase = "wait" => jobs' \subseteq jobs,
         out' \cup received' \subseteq Matching,
         ctx = "live" => todo \cup jobs \cup InHand \cup out \cup received \subseteq
                         todo' \cup jobs' \cup InHand' \cup out' \cup received'
                           \cup (Files \ Matching),
         ctx = "live" => \A w \in Workers :
                           at'[w] = "off" => at[w] = "off" \/ (phase = "wait" /\ jobs = {}),
         phase = "returned" => out \cup received \subseteq out' \cup received',
         reader' # reader => phase = "returned" /\ (reader' = "done" => out' = {}),
         reader' = reader => out' \subseteq out \/ phase # "returned"
  PROVE  FlowInv'
<1>1. Listed' = Listed
  BY DEF Listed
<1>2. NothingLost'
  BY <1>1 DEF FlowInv, NothingLost
<1>3. Leaving'
  BY DEF FlowInv, Leaving
<1>4. Through'
  BY DEF FlowInv, Through
<1>5. Accepted'
  BY DEF Accepted
<1>6. Ending'
  BY DEF FlowInv, Ending
<1>7. NilMeansComplete'
  BY DEF FlowInv, Ending, NilMeansComplete
<1>8. QED
  BY <1>2, <1>3, <1>4, <1>5, <1>6, <1>7 DEF FlowInv

(* All roots listed: every file has been.                                  *)
LEMMA AllListed ==
  ASSUME root \in Nat, NRoots <= root
  PROVE  Files \subseteq Listed
<1>1. ASSUME NEW f \in Files PROVE f \in Listed
  <2>1. PICK r \in Roots : f \in FilesOf[r]
    BY <1>1, WalkAssumption
  <2>2. r \in 1 .. root
    BY <2>1, WalkAssumption DEF Roots
  <2>3. QED
    BY <2>1, <2>2, ListedIs DEF ListingOf
<1>2. QED
  BY <1>1

(* The inductive form of NilMeansComplete: the channels lose nothing.      *)
THEOREM FlowKept == Spec => []FlowInv
<1>1. Init => FlowInv
  BY DEF Init, FlowInv, NothingLost, Leaving, Through, Accepted, Ending, NilMeansComplete
<1>2. TypeInv /\ TypeInv' /\ PlaceInv /\ FlowInv /\ [Next]_vars => FlowInv'
  <2> SUFFICES ASSUME TypeInv, TypeInv', PlaceInv, FlowInv, [Next]_vars PROVE FlowInv'
    OBVIOUS
  <2>1. CASE Start
    <3>1. /\ phase' = "walk" /\ root' = 1 /\ todo' = ListingOf(1)
          /\ UNCHANGED <<ret, reader, out, received>>
          /\ out = {} /\ received = {} /\ phase = "setup"
      BY <2>1 DEF Start, PlaceInv, Fresh, readerVars
    <3>2. Listed' \subseteq todo'
      BY <3>1, ListedIs DEF Listed
    <3>3. \A w \in Workers : at'[w] = "idle"
      BY <2>1 DEF Start
    <3>4. NothingLost' /\ Leaving' /\ Through' /\ Accepted'
      BY <3>1, <3>2, <3>3 DEF NothingLost, Leaving, Through, Accepted
    <3>5. Ending' /\ NilMeansComplete'
      BY <3>1 DEF FlowInv, Ending, NilMeansComplete
    <3>6. QED
      BY <3>4, <3>5 DEF FlowInv
  <2>2. CASE SetupFails
    BY <2>2 DEF SetupFails, FlowInv, NothingLost, Leaving, Through, Accepted, Ending,
                NilMeansComplete, readerVars
  <2>3. ASSUME NEW f \in Files, Queue(f) PROVE FlowInv'
    <3>1. /\ UNCHANGED <<ctx, phase, root, ret, at, held, out, received, reader>>
          /\ phase = "walk" /\ f \in todo /\ todo' = todo \ {f} /\ jobs' = jobs \cup {f}
      BY <2>3 DEF Queue, workerVars, readerVars
    <3>2. InHand' = InHand
      BY <3>1 DEF InHand
    <3>3. QED
      BY <3>1, <3>2, MovedFlow DEF FlowInv, Accepted
  <2>4. CASE Abandon
    BY <2>4, SameFlow DEF Abandon, workerVars, readerVars
  <2>5. CASE NextRoot
    <3>1. CASE root' = root + 1 /\ todo' = ListingOf(root + 1) /\ phase' = phase
      <4>1. UNCHANGED <<ctx, jobs, at, held, out, received, ret, reader>> /\ phase = "walk"
            /\ todo = {}
        BY <2>5 DEF NextRoot, workerVars, readerVars
      <4>2. InHand' = InHand
        BY <4>1 DEF InHand
      <4>3. Listed' \subseteq Listed \cup todo'
        <5>1. root \in Nat
          BY DEF TypeInv, TypeOK
        <5>2. \A x : x \in Listed' <=> \E r \in 1 .. root + 1 : x \in ListingOf(r)
          BY <3>1 DEF Listed
        <5>3. \A r \in 1 .. root + 1 : r \in 1 .. root \/ r = root + 1
          BY <5>1
        <5>4. QED
          BY <3>1, <5>2, <5>3, ListedIs
      <4>4. NothingLost'
        BY <3>1, <4>1, <4>2, <4>3 DEF FlowInv, NothingLost
      <4>5. QED
        BY <3>1, <4>1, <4>4
        DEF FlowInv, Leaving, Through, Accepted, Ending, NilMeansComplete
    <3>2. CASE phase' = "wait" /\ UNCHANGED <<root, todo>> /\ ~(ctx = "live" /\ root < NRoots)
      <4>1. ctx = "live" => NRoots <= root
        BY <3>2, WalkAssumption DEF TypeInv, TypeOK
      <4>2. QED
        BY <2>5, <3>2, <4>1, SameFlow DEF NextRoot, workerVars, readerVars
    <3>3. QED
      BY <2>5, <3>1, <3>2 DEF NextRoot, NextListing
  <2>6. CASE Return
    <3>1. /\ phase = "wait" /\ AllOff /\ phase' = "returned"
          /\ ret' \in {"nil", "cancelled"} /\ (ret' = "nil" => ctx # "done")
          /\ UNCHANGED <<ctx, todo, root, jobs, at, held, out, received, reader>>
      BY <2>6 DEF Return, WalkError, workerVars, readerVars
    <3>2. ASSUME ctx = "live" PROVE Matching \subseteq out \cup received
      <4>1. jobs = {} /\ todo = {} /\ Files \subseteq Listed
        BY <3>1, <3>2, WalkAssumption, AllListed
        DEF FlowInv, Leaving, Through, AllOff, TypeInv, TypeOK
      <4>2. InHand = {}
        BY <3>1 DEF AllOff, InHand
      <4>3. QED
        BY <3>1, <3>2, <4>1, <4>2, WalkAssumption DEF FlowInv, NothingLost
    <3>3. QED
      BY <3>1, <3>2
      DEF FlowInv, NothingLost, Leaving, Through, Accepted, Ending, NilMeansComplete,
          TypeInv, TypeOK
  <2>7. ASSUME NEW w \in Workers, Take(w) PROVE FlowInv'
    <3>1. PICK f \in jobs : jobs' = jobs \ {f} /\ Become(w, "busy", f)
      BY <2>7 DEF Take
    <3>2. UNCHANGED <<ctx, phase, root, ret, todo, out, received, reader>> /\ at[w] = "idle"
      BY <2>7 DEF Take, producerVars, readerVars
    <3>3. InHand \cup {f} \subseteq InHand'
      BY <3>1, <3>2, HandStep
    <3>4. \A v \in Workers : at'[v] = "off" => at[v] = "off"
      BY <3>1 DEF Become, TypeInv, TypeOK
    <3>5. QED
      BY <3>1, <3>2, <3>3, <3>4, MovedFlow DEF FlowInv, Accepted
  <2>8. ASSUME NEW w \in Workers, Leave(w) PROVE FlowInv'
    <3>1. UNCHANGED <<ctx, phase, root, ret, todo, jobs, out, received, reader>>
      BY <2>8 DEF Leave, producerVars, readerVars
    <3>2. InHand \subseteq InHand'
      BY <2>8, HandStep DEF Leave
    <3>3. ctx = "live" => phase = "wait" /\ jobs = {}
      BY <2>8 DEF Leave, MayLeave, TypeInv, TypeOK, Joined, AllOff
    <3>4. QED
      BY <3>1, <3>2, <3>3, MovedFlow DEF FlowInv, Accepted
  <2>9. ASSUME NEW w \in Workers, Process(w) PROVE FlowInv'
    <3>1. UNCHANGED <<ctx, phase, root, ret, todo, jobs, out, received, reader>>
      BY <2>9 DEF Process, producerVars, readerVars
    <3>2. ctx = "live" => InHand \subseteq InHand' \cup (Files \ Matching)
      <4>1. held[w] \in Files
        BY <2>9 DEF Process, TypeInv, Hands
      <4>2. CASE Become(w, "sending", held[w])
        BY <4>2, HandStep
      <4>3. CASE held[w] \notin Matching /\ Become(w, "idle", None)
        BY <4>1, <4>3, HandStep
      <4>4. QED
        BY <2>9, <4>2, <4>3 DEF Process
    <3>3. ctx = "live" => \A v \in Workers : at'[v] = "off" => at[v] = "off"
      BY <2>9 DEF Process, Become, TypeInv, TypeOK
    <3>4. QED
      BY <3>1, <3>2, <3>3, MovedFlow DEF FlowInv, Accepted
  <2>10. ASSUME NEW w \in Workers, Send(w) PROVE FlowInv'
    <3>1. UNCHANGED <<ctx, phase, root, ret, todo, jobs, received, reader>>
      BY <2>10 DEF Send, producerVars, readerVars
    <3>2. phase # "returned" /\ held[w] \in Matching
      BY <2>10 DEF Send, TypeInv, Joined, AllOff, Hands
    <3>3. CASE out' = out \cup {held[w]} /\ Become(w, "idle", None)
      <4>1. InHand \ {held[w]} \subseteq InHand'
        BY <3>3, HandStep
      <4>2. \A v \in Workers : at'[v] = "off" => at[v] = "off"
        BY <3>3 DEF Become, TypeInv, TypeOK
      <4>3. QED
        BY <3>1, <3>2, <3>3, <4>1, <4>2, MovedFlow DEF FlowInv, Accepted
    <3>4. CASE ctx = "done" /\ out' = out
      BY <3>1, <3>4, MovedFlow DEF FlowInv, Accepted
    <3>5. QED
      BY <2>10, <3>3, <3>4 DEF Send
  <2>11. CASE Receive
    <3>1. PICK f \in out : out' = out \ {f} /\ received' = received \cup {f}
      BY <2>11 DEF Receive
    <3>2. UNCHANGED <<ctx, phase, root, ret, todo, jobs, at, held, reader>>
      BY <2>11 DEF Receive, producerVars, workerVars
    <3>3. InHand' = InHand
      BY <3>2 DEF InHand
    <3>4. QED
      BY <3>1, <3>2, <3>3, MovedFlow DEF FlowInv, Accepted
  <2>12. CASE Quit
    <3>1. UNCHANGED <<ctx, phase, root, ret, todo, jobs, at, held, out, received>>
          /\ reader' = "quit"
      BY <2>12 DEF Quit, producerVars, workerVars
    <3>2. InHand' = InHand /\ Listed' = Listed
      BY <3>1 DEF InHand, Listed
    <3>3. QED
      BY <3>1, <3>2
      DEF FlowInv, NothingLost, Leaving, Through, Accepted, Ending, NilMeansComplete
  <2>13. CASE Finish
    <3>1. UNCHANGED <<ctx, phase, root, ret, todo, jobs, at, held, out, received>>
          /\ phase = "returned" /\ (reader' = "done" => out = {})
      BY <2>13 DEF Finish, producerVars, workerVars
    <3>2. InHand' = InHand
      BY <3>1 DEF InHand
    <3>3. QED
      BY <3>1, <3>2, MovedFlow DEF FlowInv, Accepted
  <2>14. CASE Cancel
    BY <2>14, SameFlow DEF Cancel, producerVars, workerVars, readerVars
  <2>15. CASE UNCHANGED vars
    BY <2>15, SameFlow DEF vars
  <2>16. QED
    BY <2>1, <2>2, <2>3, <2>4, <2>5, <2>6, <2>7, <2>8, <2>9, <2>10, <2>11, <2>12,
       <2>13, <2>14, <2>15 DEF Next, ProducerNext, WorkerNext, ReaderNext
<1>3. QED
  BY <1>1, <1>2, TypeCorrect, PlacesKept, PTL DEF Spec

(* A nil error means that every matching file was reported.                *)
THEOREM NilIsComplete == Spec => []NilMeansComplete
BY FlowKept, PTL DEF FlowInv

(* A walk whose context stays live loses nothing between the channels.     *)
THEOREM NothingIsLost == Spec => []NothingLost
BY FlowKept, PTL DEF FlowInv

(* Together: no send on a closed channel, no file twice, none lost, and    *)
(* none missing from a walk that ends without an error.                    *)
THEOREM WalkIsOrderly == Spec => []WalkOrderly
BY NoSendOnClosed, OnePlaceHolds, NilIsComplete, NothingIsLost, PTL DEF WalkOrderly

(* The concurrent walk implements the search its caller sees.              *)
THEOREM ImplementsSearch == Spec => IsSearch
<1>1. Init => Search!Init
  BY DEF Init, Search!Init
<1>2. TypeInv /\ PlaceInv /\ FlowInv /\ [Next]_vars => [Search!Next]_(Search!svars)
  <2> SUFFICES ASSUME TypeInv, PlaceInv, FlowInv, [Next]_vars
               PROVE  [Search!Next]_(Search!svars)
    OBVIOUS
  <2>1. CASE UNCHANGED <<received, reader, ret>>
    BY <2>1 DEF Search!svars
  <2>2. CASE Return \/ SetupFails
    <3>1. received' = received /\ reader' = reader /\ reader \in {"reading", "quit"}
      BY <2>2 DEF Return, SetupFails, readerVars, FlowInv, Ending, TypeInv, TypeOK
    <3>2. QED
      BY <3>1 DEF Search!svars
  <2>3. CASE Receive
    <3>1. PICK f \in out : received' = received \cup {f}
      BY <2>3 DEF Receive
    <3>2. f \in Matching \ received
      BY <3>1 DEF FlowInv, Accepted, PlaceInv, OnePlace
    <3>3. reader = "reading" /\ reader' = reader
      BY <2>3 DEF Receive
    <3>4. QED
      BY <3>1, <3>2, <3>3 DEF Search!Next, Search!Report
  <2>4. CASE Quit
    BY <2>4 DEF Quit, Search!svars
  <2>5. CASE Finish
    <3>1. /\ phase = "returned" /\ UNCHANGED <<ret, received>>
          /\ \/ reader = "reading" /\ out = {} /\ reader' = "done"
             \/ reader = "quit" /\ reader' = "failed"
      BY <2>5 DEF Finish, producerVars
    <3>2. reader' = "done" /\ ret = "nil" => received = Matching
      BY <3>1 DEF FlowInv, Accepted, NilMeansComplete
    <3>3. QED
      BY <3>1, <3>2 DEF Search!Next, Search!End
  <2>6. QED
    BY <2>1, <2>2, <2>3, <2>4, <2>5
    DEF Next, ProducerNext, WorkerNext, ReaderNext, Start, Queue, Abandon, NextRoot, Take,
        Leave, Process, Send, Cancel, vars, producerVars, readerVars
<1>3. QED
  BY <1>1, <1>2, TypeCorrect, PlacesKept, FlowKept, PTL DEF Spec, IsSearch, Search!Spec

-----------------------------------------------------------------------------
(* The call graph.  A chain of calls from s, and how far t is from s.      *)
EdgesNamed == callsByName \subseteq Names \X Names

Chain(c, s) ==
  /\ c \in Seq(Names) /\ Len(c) \in Nat \ {0} /\ c[1] = s
  /\ \A i \in 1 .. Len(c) - 1 : c[i + 1] \in CalleesOf(c[i])
Leads(c, s, t, k) == Chain(c, s) /\ Len(c) = k + 1 /\ Last(c) = t
Within(s, t, k) == \E c : Leads(c, s, t, k)
Nearest(s, t, k) == Within(s, t, k) /\ \A j \in Nat : Within(s, t, j) => k <= j

LEMMA FunIsSeq ==
  ASSUME NEW S, NEW k \in Nat, NEW f \in [1 .. k -> S]
  PROVE  f \in Seq(S) /\ Len(f) = k /\ DOMAIN f = 1 .. k
OBVIOUS

LEMMA ChainParts ==
  ASSUME NEW s, NEW c, Chain(c, s)
  PROVE  /\ Len(c) \in Nat \ {0} /\ c \in [1 .. Len(c) -> Names] /\ DOMAIN c = 1 .. Len(c)
         /\ Last(c) = c[Len(c)] /\ s \in Names /\ Last(c) \in Names
<1>1. Len(c) \in Nat \ {0} /\ c \in [1 .. Len(c) -> Names] /\ DOMAIN c = 1 .. Len(c) /\ c[1] = s
  BY LenProperties DEF Chain
<1>2. 1 \in 1 .. Len(c) /\ Len(c) \in 1 .. Len(c)
  BY <1>1
<1> QED
  BY <1>1, <1>2 DEF Last

LEMMA CalleesNamed ==
  ASSUME EdgesNamed, NEW m, NEW n
  PROVE  /\ n \in CalleesOf(m) <=> <<m, n>> \in callsByName
         /\ m \in CallersOf(n) <=> <<m, n>> \in callsByName
         /\ n \in CalleesOf(m) => m \in Names /\ n \in Names
BY DEF EdgesNamed, CalleesOf, CallersOf

LEMMA ChainAlone ==
  ASSUME NEW s \in Names
  PROVE  /\ \A c : Leads(c, s, s, 0) <=> c = <<s>>
         /\ \A t : Within(s, t, 0) <=> t = s
<1>1. <<s>> \in Seq(Names) /\ Len(<<s>>) = 1 /\ <<s>>[1] = s
  OBVIOUS
<1>2. Chain(<<s>>, s) /\ Last(<<s>>) = s
  BY <1>1 DEF Chain, Last
<1>3. ASSUME NEW c, NEW t, Leads(c, s, t, 0) PROVE c = <<s>> /\ t = s
  <2>0. Chain(c, s) /\ Len(c) = 1 /\ Last(c) = t
    BY <1>3 DEF Leads
  <2>1. c[1] = s /\ c \in [1 .. 1 -> Names] /\ Last(c) = c[1]
    BY <2>0, ChainParts DEF Chain
  <2>2. \A i \in 1 .. 1 : c[i] = <<s>>[i]
    BY <2>1
  <2>3. <<s>> \in [1 .. 1 -> Names]
    OBVIOUS
  <2>4. c = <<s>>
    BY <2>1, <2>2, <2>3
  <2> QED
    BY <2>0, <2>1, <2>4
<1> QED
  BY <1>1, <1>2, <1>3 DEF Leads, Within

(* A chain made one longer at either end, and one shorter.                 *)
LEMMA ChainLonger ==
  ASSUME NEW s, NEW c, Chain(c, s), EdgesNamed
  PROVE  /\ \A n \in CalleesOf(Last(c)) :
              Chain(Append(c, n), s) /\ Len(Append(c, n)) = Len(c) + 1 /\ Last(Append(c, n)) = n
         /\ \A m : s \in CalleesOf(m) =>
              \E d : Chain(d, m) /\ Len(d) = Len(c) + 1 /\ Last(d) = Last(c)
<1> DEFINE k == Len(c)
<1>1. k \in Nat \ {0} /\ c \in [1 .. k -> Names] /\ Last(c) = c[k] /\ c[1] = s /\ c \in Seq(Names)
  BY ChainParts DEF Chain
<1>2. \A i \in 1 .. k - 1 : c[i + 1] \in CalleesOf(c[i])
  BY DEF Chain
<1> HIDE DEF k
<1>3. ASSUME NEW n \in CalleesOf(Last(c))
      PROVE  Chain(Append(c, n), s) /\ Len(Append(c, n)) = k + 1 /\ Last(Append(c, n)) = n
  <2> DEFINE d == Append(c, n)
  <2>1. n \in Names
    BY <1>3, CalleesNamed
  <2>2. /\ d \in Seq(Names) /\ Len(d) = k + 1 /\ d[k + 1] = n
        /\ \A i \in 1 .. k : d[i] = c[i]
    BY <1>1, <2>1, AppendProperties
  <2> HIDE DEF d
  <2>3. \A i \in 1 .. k : d[i + 1] \in CalleesOf(d[i])
    <3> TAKE i \in 1 .. k
    <3>1. CASE i = k
      BY <1>1, <1>3, <2>2, <3>1
    <3>2. CASE i # k
      <4>1. i \in 1 .. k - 1 /\ i + 1 \in 1 .. k
        BY <1>1, <3>2
      <4> QED
        BY <1>2, <2>2, <4>1
    <3> QED
      BY <3>1, <3>2
  <2>4. Len(d) - 1 = k /\ d[1] = s /\ Last(d) = n /\ Len(d) \in Nat \ {0}
    BY <1>1, <2>2 DEF Last
  <2>5. Chain(d, s)
    BY <2>2, <2>3, <2>4 DEF Chain
  <2> QED
    BY <2>2, <2>4, <2>5 DEF d
<1>4. ASSUME NEW m, s \in CalleesOf(m)
      PROVE  \E d : Chain(d, m) /\ Len(d) = k + 1 /\ Last(d) = Last(c)
  <2> DEFINE d == [i \in 1 .. k + 1 |-> IF i = 1 THEN m ELSE c[i - 1]]
  <2>1. m \in Names
    BY <1>4, CalleesNamed
  <2>2. \A i \in 2 .. k + 1 : i - 1 \in 1 .. k
    BY <1>1
  <2>3. d \in [1 .. k + 1 -> Names]
    BY <1>1, <2>1, <2>2
  <2>5. d[1] = m /\ \A i \in 1 .. k : d[i + 1] = c[i]
    BY <1>1
  <2> HIDE DEF d
  <2>4. d \in Seq(Names) /\ Len(d) = k + 1
    <3>1. k + 1 \in Nat
      BY <1>1
    <3> QED
      BY <2>3, <3>1, FunIsSeq
  <2>6. \A i \in 1 .. k : d[i + 1] \in CalleesOf(d[i])
    <3> TAKE i \in 1 .. k
    <3>1. CASE i = 1
      BY <1>1, <1>4, <2>5, <3>1
    <3>2. CASE i # 1
      <4>1. i - 1 \in 1 .. k - 1 /\ i - 1 \in 1 .. k /\ (i - 1) + 1 = i
        BY <1>1, <3>2
      <4>2. d[i + 1] = c[i] /\ d[i] = c[i - 1]
        BY <2>5, <4>1
      <4> QED
        BY <1>2, <4>1, <4>2
    <3> QED
      BY <3>1, <3>2
  <2>7. Len(d) - 1 = k /\ Len(d) \in Nat \ {0} /\ Last(d) = c[k]
    BY <1>1, <2>4, <2>5 DEF Last
  <2>8. Chain(d, m)
    BY <2>4, <2>5, <2>6, <2>7 DEF Chain
  <2> QED
    BY <1>1, <2>4, <2>7, <2>8
<1> QED
  BY <1>3, <1>4 DEF k

LEMMA ChainShorter ==
  ASSUME NEW s, NEW c, Chain(c, s), Len(c) > 1
  PROVE  /\ \E b : /\ Chain(b, s) /\ Len(b) = Len(c) - 1 /\ Last(c) \in CalleesOf(Last(b))
                   /\ c = Append(b, Last(c))
         /\ \E d : Chain(d, c[2]) /\ Len(d) = Len(c) - 1 /\ Last(d) = Last(c)
         /\ c[2] \in CalleesOf(s) /\ c[2] \in Names
<1> DEFINE k == Len(c) - 1
           b == [i \in 1 .. k |-> c[i]]
           d == [i \in 1 .. k |-> c[i + 1]]
<1>1. /\ k \in Nat \ {0} /\ Len(c) = k + 1 /\ c \in [1 .. k + 1 -> Names] /\ c[1] = s
      /\ Last(c) = c[k + 1] /\ DOMAIN c = 1 .. k + 1
  BY ChainParts DEF Chain
<1>2. \A i \in 1 .. k : c[i + 1] \in CalleesOf(c[i])
  BY DEF Chain
<1>3. b \in [1 .. k -> Names] /\ d \in [1 .. k -> Names]
  BY <1>1
<1>5. \A i \in 1 .. k : b[i] = c[i] /\ d[i] = c[i + 1]
  OBVIOUS
<1> HIDE DEF b, d, k
<1>4. /\ b \in Seq(Names) /\ Len(b) = k /\ d \in Seq(Names) /\ Len(d) = k
      /\ DOMAIN b = 1 .. k
  BY <1>1, <1>3, FunIsSeq
<1>6. b[1] = s /\ Last(b) = c[k] /\ d[1] = c[2] /\ Last(d) = c[k + 1]
  BY <1>1, <1>4, <1>5 DEF Last
<1>7. \A i \in 1 .. k - 1 : b[i + 1] \in CalleesOf(b[i]) /\ d[i + 1] \in CalleesOf(d[i])
  <2> TAKE i \in 1 .. k - 1
  <2>1. i \in 1 .. k /\ i + 1 \in 1 .. k
    BY <1>1
  <2> QED
    BY <1>2, <1>5, <2>1
<1>8. Chain(b, s) /\ Chain(d, c[2])
  BY <1>1, <1>4, <1>6, <1>7 DEF Chain
<1>9. c = Append(b, Last(c))
  <2> DEFINE e == Append(b, Last(c))
  <2>1. /\ e \in Seq(Names) /\ Len(e) = k + 1 /\ e[k + 1] = c[k + 1]
        /\ \A i \in 1 .. k : e[i] = c[i]
    BY <1>1, <1>4, <1>5, AppendProperties
  <2> HIDE DEF e
  <2>2. e \in [1 .. k + 1 -> Names]
    BY <2>1, LenProperties
  <2>3. \A i \in 1 .. k + 1 : e[i] = c[i]
    BY <1>1, <2>1
  <2> QED
    BY <1>1, <2>2, <2>3 DEF e
<1>10. c[2] \in CalleesOf(s) /\ c[2] \in Names /\ Last(c) \in CalleesOf(Last(b))
  <2>1. 1 \in 1 .. k /\ k \in 1 .. k /\ 2 \in 1 .. k + 1 /\ 1 + 1 = 2
    BY <1>1
  <2> QED
    BY <1>1, <1>2, <1>6, <2>1
<1> QED
  BY <1>1, <1>4, <1>6, <1>8, <1>9, <1>10 DEF k

LEMMA WithinGrows ==
  ASSUME EdgesNamed, NEW k \in Nat
  PROVE  /\ \A s, t : Within(s, t, k + 1) <=> \E m : Within(s, m, k) /\ t \in CalleesOf(m)
         /\ \A s, t : Within(s, t, k + 1) <=> \E m : m \in CalleesOf(s) /\ Within(m, t, k)
<1>1. ASSUME NEW s, NEW t, NEW c, Leads(c, s, t, k + 1)
      PROVE  /\ \E m : Within(s, m, k) /\ t \in CalleesOf(m)
             /\ \E m : m \in CalleesOf(s) /\ Within(m, t, k)
  <2>1. Chain(c, s) /\ Len(c) > 1 /\ Len(c) - 1 = k + 1 /\ Last(c) = t
    BY <1>1 DEF Leads
  <2>2. PICK b : Chain(b, s) /\ Len(b) = Len(c) - 1 /\ Last(c) \in CalleesOf(Last(b))
    BY <2>1, ChainShorter
  <2>3. PICK d : Chain(d, c[2]) /\ Len(d) = Len(c) - 1 /\ Last(d) = Last(c)
    BY <2>1, ChainShorter
  <2>4. c[2] \in CalleesOf(s)
    BY <2>1, ChainShorter
  <2> QED
    BY <2>1, <2>2, <2>3, <2>4 DEF Within, Leads
<1>2. ASSUME NEW s, NEW t, NEW m, NEW c, Leads(c, s, m, k), t \in CalleesOf(m)
      PROVE  Within(s, t, k + 1)
  <2>1. Chain(c, s) /\ t \in CalleesOf(Last(c)) /\ Len(c) = k + 1
    BY <1>2 DEF Leads
  <2>2. Chain(Append(c, t), s) /\ Len(Append(c, t)) = k + 1 + 1 /\ Last(Append(c, t)) = t
    BY <2>1, ChainLonger
  <2> QED
    BY <2>2 DEF Within, Leads
<1>3. ASSUME NEW s, NEW t, NEW m, NEW c, Leads(c, m, t, k), m \in CalleesOf(s)
      PROVE  Within(s, t, k + 1)
  <2>1. Chain(c, m) /\ Last(c) = t /\ Len(c) = k + 1
    BY <1>3 DEF Leads
  <2>2. PICK d : Chain(d, s) /\ Len(d) = k + 1 + 1 /\ Last(d) = t
    BY <1>3, <2>1, ChainLonger
  <2> QED
    BY <2>2 DEF Within, Leads
<1> QED
  BY <1>1, <1>2, <1>3 DEF Within

LEMMA NearestExists ==
  ASSUME NEW s, NEW t, NEW k \in Nat, Within(s, t, k)
  PROVE  \E j \in 0 .. k : Nearest(s, t, j)
<1> DEFINE S == {j \in Nat : Within(s, t, j)}
<1>1. Min(S) \in S /\ \A j \in S : Min(S) <= j
  BY LeastNat
<1> QED
  BY <1>1 DEF Nearest

LEMMA NameCount == Cardinality(Names) \in Nat
BY CodeGraphAssumption, FS_CardinalityType

(* The chains as the module builds them, one call longer at a time.        *)
ChainStep(s, f) ==
  [k \in 0 .. Cardinality(Names) |->
     IF k = 0 THEN {<<s>>}
     ELSE LET prev == f[k - 1]
          IN  prev \cup UNION {{Append(c, n) : n \in CalleesOf(Last(c))} : c \in prev}]

LEMMA ChainsAre ==
  ASSUME NEW s \in Names, EdgesNamed
  PROVE  \A c : c \in Chains(s) <=> Chain(c, s) /\ Len(c) <= Cardinality(Names) + 1
<1> DEFINE N == Cardinality(Names)
           upTo(k) == {c \in Seq(Names) : Chain(c, s) /\ Len(c) <= k + 1}
           g == [k \in 0 .. N |-> upTo(k)]
           h == CHOOSE f : f = ChainStep(s, f)
<1>n. N \in Nat
  BY NameCount
<1>1. Chains(s) = h[N]
  BY DEF Chains, ChainStep
<1>u. /\ \A k \in Nat : \A c : c \in upTo(k) <=> Chain(c, s) /\ Len(c) <= k + 1
      /\ \A c : Chain(c, s) => Len(c) \in Nat \ {0}
  BY DEF Chain
<1> HIDE DEF upTo
<1>2. upTo(0) = {<<s>>}
  <2>1. ASSUME NEW c, Chain(c, s), Len(c) <= 0 + 1 PROVE c = <<s>>
    <3>1. Len(c) = 1
      <4> DEFINE l == Len(c)
      <4>1. l \in Nat \ {0} /\ l <= 0 + 1
        BY <2>1, ChainParts
      <4> HIDE DEF l
      <4>2. l = 1
        BY <4>1
      <4> QED
        BY <4>2 DEF l
    <3>2. Last(c) = c[1] /\ c[1] = s
      BY <2>1, <3>1, ChainParts DEF Chain
    <3>3. Leads(c, s, s, 0)
      BY <2>1, <3>1, <3>2 DEF Leads
    <3> QED
      BY <3>3, ChainAlone
  <2>2. Leads(<<s>>, s, s, 0)
    BY ChainAlone
  <2>3. Chain(<<s>>, s) /\ Len(<<s>>) <= 0 + 1
    BY <2>2 DEF Leads
  <2>4. \A c : c \in upTo(0) <=> c = <<s>>
    BY <1>u, <2>1, <2>3
  <2> QED
    BY <2>4
<1>3. ASSUME NEW k \in 0 .. N, k # 0
      PROVE  upTo(k) = upTo(k - 1) \cup UNION {{Append(c, n) : n \in CalleesOf(Last(c))} : c \in upTo(k - 1)}
  <2>0. k - 1 \in Nat /\ k \in Nat
    BY <1>3, <1>n
  <2>1. ASSUME NEW c \in upTo(k - 1), NEW n \in CalleesOf(Last(c)) PROVE Append(c, n) \in upTo(k)
    <3>1. Chain(c, s) /\ Len(c) <= k /\ Len(c) \in Nat
      BY <1>u, <2>0, <2>1
    <3>2. Chain(Append(c, n), s) /\ Len(Append(c, n)) = Len(c) + 1
      BY <2>1, <3>1, ChainLonger
    <3> DEFINE e == Append(c, n)
    <3>3. k \in Nat /\ Chain(e, s) /\ Len(e) = Len(c) + 1
      BY <2>0, <3>2
    <3> HIDE DEF e
    <3>4. Len(e) <= k + 1
      BY <2>0, <3>1, <3>3
    <3>5. e \in upTo(k)
      BY <1>u, <3>3, <3>4
    <3> QED
      BY <3>5 DEF e
  <2>2. ASSUME NEW c \in upTo(k), c \notin upTo(k - 1)
        PROVE  \E b \in upTo(k - 1) : \E n \in CalleesOf(Last(b)) : c = Append(b, n)
    <3>1. Chain(c, s) /\ Len(c) = k + 1 /\ Len(c) > 1
      BY <1>u, <1>3, <2>0, <2>2
    <3>2. PICK b : Chain(b, s) /\ Len(b) = Len(c) - 1 /\ Last(c) \in CalleesOf(Last(b)) /\ c = Append(b, Last(c))
      BY <3>1, ChainShorter
    <3>3. b \in upTo(k - 1)
      BY <1>u, <2>0, <3>1, <3>2
    <3> QED
      BY <3>2, <3>3
  <2>3. upTo(k - 1) \subseteq upTo(k)
    BY <1>u, <2>0
  <2> DEFINE longer == UNION {{Append(c, n) : n \in CalleesOf(Last(c))} : c \in upTo(k - 1)}
  <2>4. \A c : c \in longer <=> \E b \in upTo(k - 1) : \E n \in CalleesOf(Last(b)) : c = Append(b, n)
    OBVIOUS
  <2> HIDE DEF longer
  <2>5. \A c \in longer : c \in upTo(k)
    <3> TAKE c \in longer
    <3>1. PICK b \in upTo(k - 1) : \E n \in CalleesOf(Last(b)) : c = Append(b, n)
      BY <2>4
    <3> QED
      BY <2>1, <3>1
  <2>6. \A c \in upTo(k) : c \in upTo(k - 1) \cup longer
    BY <2>2, <2>4
  <2>7. upTo(k) = upTo(k - 1) \cup longer
    BY <2>3, <2>5, <2>6
  <2> QED
    BY <2>7 DEF longer
<1> HIDE DEF N
<1>4. g = ChainStep(s, g)
  <2>1. \A k \in 0 .. N : k # 0 => k - 1 \in 0 .. N
    BY <1>n
  <2>2. \A k \in 0 .. N : g[k] = upTo(k)
    OBVIOUS
  <2> HIDE DEF g
  <2>3. \A k \in 0 .. N : ChainStep(s, g)[k] = upTo(k)
    <3> TAKE k \in 0 .. N
    <3>1. CASE k = 0
      BY <1>2, <3>1 DEF ChainStep, N
    <3>2. CASE k # 0
      <4>1. g[k - 1] = upTo(k - 1)
        BY <2>1, <2>2, <3>2
      <4>2. ChainStep(s, g)[k] =
              g[k - 1] \cup UNION {{Append(c, n) : n \in CalleesOf(Last(c))} : c \in g[k - 1]}
        BY <3>2 DEF ChainStep, N
      <4> QED
        BY <1>3, <3>2, <4>1, <4>2
    <3> QED
      BY <3>1, <3>2
  <2>4. ChainStep(s, g) = [k \in 0 .. N |-> ChainStep(s, g)[k]]
    BY DEF ChainStep, N
  <2>5. [k \in 0 .. N |-> ChainStep(s, g)[k]] = [k \in 0 .. N |-> upTo(k)]
    BY <2>3
  <2> QED
    BY <2>4, <2>5 DEF g
<1>5. h = ChainStep(s, h)
  BY <1>4
<1> HIDE DEF h, g
<1> DEFINE P == {k \in Nat : k <= N => h[k] = upTo(k)}
<1>6. 0 \in P
  BY <1>2, <1>5, <1>n DEF ChainStep, N
<1>7. ASSUME NEW k \in Nat, k \in P PROVE k + 1 \in P
  <2>1. SUFFICES ASSUME k + 1 <= N PROVE h[k + 1] = upTo(k + 1)
    OBVIOUS
  <2>2. k + 1 \in 0 .. N /\ k + 1 # 0 /\ (k + 1) - 1 = k /\ h[k] = upTo(k)
    BY <1>7, <1>n, <2>1
  <2>3. h[k + 1] = h[k] \cup UNION {{Append(c, n) : n \in CalleesOf(Last(c))} : c \in h[k]}
    BY <1>5, <2>2 DEF ChainStep, N
  <2> QED
    BY <1>3, <2>2, <2>3
<1>8. N \in P
  <2>1. \A k \in Nat : k \in P => k + 1 \in P
    BY <1>7
  <2> HIDE DEF P
  <2> QED
    BY <1>6, <1>n, <2>1, NatSetInduction
<1>9. Chains(s) = upTo(N)
  BY <1>1, <1>8, <1>n
<1> QED
  BY <1>u, <1>9, <1>n DEF N

-----------------------------------------------------------------------------
(* The blast radius: what has been visited after d hops is what is at most *)
(* d calls away, at its distance.                                          *)
ImpactStep(t, limit, f) ==
  [d \in 0 .. limit |->
     IF d = 0 THEN [visited |-> {}, frontier |-> CallersOf(t)]
     ELSE LET prev == f[d - 1]
              seen == {v[1] : v \in prev.visited} \cup {t}
              fresh == prev.frontier \ seen
          IN  [visited |-> prev.visited \cup {<<n, d>> : n \in fresh},
               frontier |-> (UNION {CallersOf(n) : n \in fresh}) \ seen]]

AtDistance(t, d) == {n \in Names \ {t} : Nearest(n, t, d)}
Around(t, d) == UNION {AtDistance(t, k) \X {k} : k \in 1 .. d}

Hopped(st, t, d) ==
  /\ st = [visited |-> st.visited, frontier |-> st.frontier]
  /\ st.visited = Around(t, d)
  /\ st.frontier \ ({v[1] : v \in st.visited} \cup {t}) = AtDistance(t, d + 1)

LEMMA HopStarts ==
  ASSUME NEW t \in Names, EdgesNamed
  PROVE  Hopped([visited |-> {}, frontier |-> CallersOf(t)], t, 0)
<1> DEFINE st == [visited |-> {}, frontier |-> CallersOf(t)]
<1>1. Around(t, 0) = {}
  <2>1. 1 .. 0 = {}
    OBVIOUS
  <2> QED
    BY <2>1 DEF Around
<1>2. ASSUME NEW n \in Names \ {t} PROVE n \in CallersOf(t) <=> Nearest(n, t, 1)
  <2>1. Within(n, t, 0 + 1) <=> \E m : Within(n, m, 0) /\ t \in CalleesOf(m)
    BY WithinGrows
  <2>2. \A m : Within(n, m, 0) <=> m = n
    BY ChainAlone
  <2>3. Within(n, t, 1) <=> n \in CallersOf(t)
    <3>1. Within(n, t, 1) <=> t \in CalleesOf(n)
      <4>1. 0 + 1 = 1
        OBVIOUS
      <4> QED
        BY <2>1, <2>2, <4>1
    <3> QED
      BY <3>1, CalleesNamed
  <2>4. \A j \in Nat : Within(n, t, j) => 1 <= j
    BY <2>2
  <2> QED
    BY <2>3, <2>4 DEF Nearest
<1>3. CallersOf(t) \subseteq Names
  BY CalleesNamed DEF EdgesNamed, CallersOf
<1>4. CallersOf(t) \ {t} = AtDistance(t, 0 + 1)
  BY <1>2, <1>3 DEF AtDistance
<1> QED
  BY <1>1, <1>4 DEF Hopped

LEMMA AroundAre ==
  ASSUME NEW t, NEW d \in Nat
  PROVE  /\ \A n : (\E v \in Around(t, d) : v[1] = n) <=> \E k \in 1 .. d : n \in AtDistance(t, k)
         /\ Around(t, d + 1) = Around(t, d) \cup {<<n, d + 1>> : n \in AtDistance(t, d + 1)}
<1>1. \A v : v \in Around(t, d) <=> \E k \in 1 .. d : \E n \in AtDistance(t, k) : v = <<n, k>>
  BY DEF Around
<1>2. 1 .. d + 1 = (1 .. d) \cup {d + 1}
  OBVIOUS
<1>3. \A v : v \in Around(t, d + 1) <=> \E k \in 1 .. d + 1 : \E n \in AtDistance(t, k) : v = <<n, k>>
  BY DEF Around
<1> HIDE DEF Around, AtDistance
<1>4. \A n : (\E v \in Around(t, d) : v[1] = n) <=> \E k \in 1 .. d : n \in AtDistance(t, k)
  <2> TAKE n
  <2>1. ASSUME NEW v \in Around(t, d), v[1] = n PROVE \E k \in 1 .. d : n \in AtDistance(t, k)
    BY <1>1, <2>1
  <2>2. ASSUME NEW k \in 1 .. d, n \in AtDistance(t, k) PROVE <<n, k>> \in Around(t, d) /\ <<n, k>>[1] = n
    BY <1>1, <2>2
  <2> QED
    BY <2>1, <2>2
<1>5. \A v : v \in Around(t, d + 1) <=>
        v \in Around(t, d) \/ \E n \in AtDistance(t, d + 1) : v = <<n, d + 1>>
  BY <1>1, <1>2, <1>3
<1> QED
  BY <1>4, <1>5

LEMMA HopKeeps ==
  ASSUME NEW t \in Names, NEW d \in Nat, NEW st, Hopped(st, t, d), EdgesNamed
  PROVE  LET seen == {v[1] : v \in st.visited} \cup {t}
             fresh == st.frontier \ seen
         IN  Hopped([visited |-> st.visited \cup {<<n, d + 1>> : n \in fresh},
                     frontier |-> (UNION {CallersOf(n) : n \in fresh}) \ seen], t, d + 1)
<1> DEFINE seen == {v[1] : v \in st.visited} \cup {t}
           fresh == st.frontier \ seen
           V == st.visited \cup {<<n, d + 1>> : n \in fresh}
           F == (UNION {CallersOf(n) : n \in fresh}) \ seen
<1>1. fresh = AtDistance(t, d + 1) /\ st.visited = Around(t, d)
  BY DEF Hopped
<1>2. V = Around(t, d + 1)
  BY <1>1, AroundAre
<1>3. \A n : n \in seen <=> n = t \/ \E k \in 1 .. d : n \in AtDistance(t, k)
  BY <1>1, AroundAre
<1>4. \A n : n \in {v[1] : v \in V} <=> \E k \in 1 .. d + 1 : n \in AtDistance(t, k)
  <2>1. d + 1 \in Nat
    OBVIOUS
  <2> QED
    BY <1>2, <2>1, AroundAre
<1>5. ASSUME NEW n \in Names \ {t}
      PROVE  /\ (\E k \in 1 .. d + 1 : Nearest(n, t, k)) <=> (\E k \in 1 .. d + 1 : Within(n, t, k))
             /\ \A j \in Nat : Nearest(n, t, j) => j # 0
  <2>1. ~Within(n, t, 0)
    BY ChainAlone
  <2>2. \A k \in 1 .. d + 1 : Within(n, t, k) => \E j \in 0 .. k : Nearest(n, t, j)
    BY NearestExists
  <2>3. \A j \in Nat : Nearest(n, t, j) => j # 0 /\ Within(n, t, j)
    BY <2>1 DEF Nearest
  <2>4. \A k \in 1 .. d + 1 : \A j \in 0 .. k : j # 0 => j \in 1 .. d + 1
    OBVIOUS
  <2> QED
    BY <2>2, <2>3, <2>4
<1>6. ASSUME NEW n \in F \ ({v[1] : v \in V} \cup {t}) PROVE n \in AtDistance(t, d + 2)
  <2>1. PICK m \in fresh : n \in CallersOf(m)
    BY <1>6
  <2>2. n \in Names \ {t} /\ m \in CalleesOf(n)
    BY <1>6, <2>1, CalleesNamed
  <2>3. Within(m, t, d + 1)
    BY <1>1, <2>1 DEF AtDistance, Nearest
  <2>4. Within(n, t, (d + 1) + 1)
    BY <2>2, <2>3, WithinGrows
  <2>5. \A k \in 1 .. d + 1 : ~Nearest(n, t, k)
    BY <1>4, <1>6, <2>2 DEF AtDistance
  <2>6. \A k \in 1 .. d + 1 : ~Within(n, t, k)
    BY <1>5, <2>2, <2>5
  <2>7. ~Within(n, t, 0)
    BY <2>2, ChainAlone
  <2>8. \A j \in Nat : Within(n, t, j) => d + 2 <= j
    BY <2>6, <2>7
  <2>9. (d + 1) + 1 = d + 2
    OBVIOUS
  <2> QED
    BY <2>2, <2>4, <2>8, <2>9 DEF AtDistance, Nearest
<1>7. ASSUME NEW n \in AtDistance(t, d + 2) PROVE n \in F \ ({v[1] : v \in V} \cup {t})
  <2>1. n \in Names \ {t} /\ Within(n, t, (d + 1) + 1) /\ \A j \in Nat : Within(n, t, j) => d + 2 <= j
    <3>1. (d + 1) + 1 = d + 2
      OBVIOUS
    <3> QED
      BY <1>7, <3>1 DEF AtDistance, Nearest
  <2>2. PICK m : m \in CalleesOf(n) /\ Within(m, t, d + 1)
    <3>1. d + 1 \in Nat
      OBVIOUS
    <3> QED
      BY <2>1, <3>1, WithinGrows
  <2>3. m \in Names /\ n \in CallersOf(m)
    BY <2>2, CalleesNamed
  <2>4. \A j \in Nat : Within(m, t, j) => d + 1 <= j
    <3> TAKE j \in Nat
    <3>1. Within(m, t, j) => Within(n, t, j + 1)
      BY <2>2, WithinGrows
    <3>2. Within(n, t, j + 1) => d + 2 <= j + 1
      BY <2>1
    <3> QED
      BY <3>1, <3>2
  <2>5. m # t
    <3>1. m = t => Within(m, t, 0)
      BY <2>3, ChainAlone
    <3> QED
      BY <2>4, <3>1
  <2>6. m \in fresh
    BY <1>1, <2>2, <2>3, <2>4, <2>5 DEF AtDistance, Nearest
  <2>7. \A k \in 1 .. d + 1 : ~Nearest(n, t, k)
    BY <2>1 DEF Nearest
  <2>8. n \notin seen /\ n \notin {v[1] : v \in V}
    <3>1. \A k \in 1 .. d : k \in 1 .. d + 1
      OBVIOUS
    <3> HIDE DEF seen, V
    <3> QED
      BY <1>3, <1>4, <2>1, <2>7, <3>1 DEF AtDistance
  <2>9. n \in F
    BY <2>3, <2>6, <2>8
  <2> HIDE DEF F, V
  <2> QED
    BY <2>1, <2>8, <2>9
<1>8. F \ ({v[1] : v \in V} \cup {t}) = AtDistance(t, (d + 1) + 1)
  <2>1. (d + 1) + 1 = d + 2
    OBVIOUS
  <2> HIDE DEF F, V
  <2> QED
    BY <1>6, <1>7, <2>1
<1> HIDE DEF F, V
<1>9. Hopped([visited |-> V, frontier |-> F], t, d + 1)
  BY <1>2, <1>8 DEF Hopped
<1> QED
  BY <1>9 DEF F, V

LEMMA ImpactTold ==
  ASSUME NEW t \in Names, NEW limit \in Nat, EdgesNamed
  PROVE  Impact(t, limit) = Around(t, IF limit = 0 THEN Cardinality(Names) ELSE limit)
<1> DEFINE lim == IF limit = 0 THEN Cardinality(Names) ELSE limit
           h == CHOOSE f : f = ImpactStep(t, lim, f)
           front(st, k) == LET seen == {v[1] : v \in st.visited} \cup {t}
                               fresh == st.frontier \ seen
                           IN  [visited |-> st.visited \cup {<<n, k>> : n \in fresh},
                                frontier |-> (UNION {CallersOf(n) : n \in fresh}) \ seen]
           first == [visited |-> {}, frontier |-> CallersOf(t)]
<1>n. lim \in Nat
  BY NameCount
<1>1. Impact(t, limit) = h[lim].visited
  BY DEF Impact, ImpactStep
<1>2. \A f : ImpactStep(t, lim, f) = [d \in 0 .. lim |-> IF d = 0 THEN first ELSE front(f[d - 1], d)]
  BY DEF ImpactStep
<1> HIDE DEF front, first, lim
<1>3. \E f : f = ImpactStep(t, lim, f)
  <2> DEFINE Unfolds(f, n) == /\ f = [d \in 0 .. n |-> f[d]] /\ f[0] = first
                              /\ \A d \in 1 .. n : f[d] = front(f[d - 1], d)
             P == {n \in Nat : \E f : Unfolds(f, n)}
  <2>1. 0 \in P
    <3> DEFINE f == [d \in 0 .. 0 |-> first]
    <3>1. Unfolds(f, 0)
      OBVIOUS
    <3> QED
      BY <3>1
  <2>2. ASSUME NEW n \in Nat, n \in P PROVE n + 1 \in P
    <3>1. PICK f : Unfolds(f, n)
      BY <2>2
    <3> DEFINE g == [d \in 0 .. n + 1 |-> IF d = n + 1 THEN front(f[n], n + 1) ELSE f[d]]
    <3>2. g[n + 1] = front(f[n], n + 1) /\ \A d \in 0 .. n : g[d] = f[d]
      OBVIOUS
    <3>3. g = [d \in 0 .. n + 1 |-> g[d]]
      OBVIOUS
    <3> HIDE DEF g
    <3>4. g[0] = first
      BY <3>1, <3>2
    <3>5. ASSUME NEW d \in 1 .. n + 1 PROVE g[d] = front(g[d - 1], d)
      <4>1. CASE d = n + 1
        <5>1. d - 1 = n /\ n \in 0 .. n
          BY <4>1
        <5> QED
          BY <3>2, <4>1, <5>1
      <4>2. CASE d # n + 1
        <5>1. d \in 1 .. n /\ d \in 0 .. n /\ d - 1 \in 0 .. n
          BY <4>2
        <5> QED
          BY <3>1, <3>2, <5>1
      <4> QED
        BY <4>1, <4>2
    <3>6. Unfolds(g, n + 1)
      BY <3>3, <3>4, <3>5
    <3>7. n + 1 \in Nat
      OBVIOUS
    <3> HIDE DEF Unfolds
    <3> QED
      BY <3>6, <3>7
  <2>3. lim \in P
    <3>1. \A n \in Nat : n \in P => n + 1 \in P
      BY <2>2
    <3> HIDE DEF P
    <3> QED
      BY <1>n, <2>1, <3>1, NatSetInduction
  <2>4. PICK f : Unfolds(f, lim)
    BY <2>3
  <2>5. \A d \in 0 .. lim : f[d] = IF d = 0 THEN first ELSE front(f[d - 1], d)
    <3> TAKE d \in 0 .. lim
    <3>1. d # 0 => d \in 1 .. lim
      BY <1>n
    <3> QED
      BY <2>4, <3>1
  <2>6. f = [d \in 0 .. lim |-> IF d = 0 THEN first ELSE front(f[d - 1], d)]
    BY <2>4, <2>5
  <2> DEFINE g == [d \in 0 .. lim |-> IF d = 0 THEN first ELSE front(f[d - 1], d)]
  <2>7. ImpactStep(t, lim, f) = g
    BY <1>2
  <2>8. f = g
    BY <2>6
  <2> HIDE DEF g
  <2> QED
    BY <2>7, <2>8
<1>4. h = ImpactStep(t, lim, h)
  BY <1>3
<1> HIDE DEF h
<1>5. \A d \in 0 .. lim : h[d] = IF d = 0 THEN first ELSE front(h[d - 1], d)
  BY <1>2, <1>4
<1> DEFINE P == {d \in Nat : d <= lim => Hopped(h[d], t, d)}
<1>6. 0 \in P
  BY <1>5, <1>n, HopStarts DEF first
<1>7. ASSUME NEW d \in Nat, d \in P PROVE d + 1 \in P
  <2>1. SUFFICES ASSUME d + 1 <= lim PROVE Hopped(h[d + 1], t, d + 1)
    OBVIOUS
  <2>2. d + 1 \in 0 .. lim /\ (d + 1) - 1 = d /\ d + 1 # 0 /\ Hopped(h[d], t, d)
    BY <1>7, <1>n, <2>1
  <2>3. h[d + 1] = front(h[d], d + 1)
    BY <1>5, <2>2
  <2>4. Hopped(front(h[d], d + 1), t, d + 1)
    BY <2>2, HopKeeps DEF front
  <2> QED
    BY <2>3, <2>4
<1>8. lim \in P
  <2>1. \A d \in Nat : d \in P => d + 1 \in P
    BY <1>7
  <2> HIDE DEF P
  <2> QED
    BY <1>6, <1>n, <2>1, NatSetInduction
<1>9. h[lim].visited = Around(t, lim)
  BY <1>8, <1>n DEF Hopped
<1> QED
  BY <1>1, <1>9 DEF lim

(* A listing in the order of names has each name of the set once.          *)
LEMMA InOrderLists ==
  ASSUME NEW S \in SUBSET Nat, IsFiniteSet(S)
  PROVE  LET w == InOrder(S)
         IN  /\ w \in [1 .. Cardinality(S) -> S] /\ Cardinality(S) \in Nat
             /\ \A i, j \in 1 .. Cardinality(S) : i < j => w[i] < w[j]
             /\ \A i, j \in 1 .. Cardinality(S) : w[i] = w[j] => i = j
             /\ \A x \in S : \E i \in 1 .. Cardinality(S) : w[i] = x
<1> DEFINE R == {e \in S \X S : e[1] < e[2]}
           n == Cardinality(S)
<1>1. Orders(R, S)
  BY DEF Orders
<1>2. \A a, b \in S : <<a, b>> \in R <=> a < b
  OBVIOUS
<1>n. n \in Nat
  BY FS_CardinalityType
<1> HIDE DEF R
<1>3. PICK s : Lists(s, R, S)
  BY <1>1, ListingExists
<1>4. s \in [1 .. n -> S] /\ \A i, j \in DOMAIN s : i < j => s[i] < s[j]
  BY <1>2, <1>3 DEF Lists
<1> DEFINE w == InOrder(S)
<1>5. w \in [1 .. n -> S] /\ \A i, j \in DOMAIN w : i < j => w[i] < w[j]
  BY <1>4 DEF InOrder
<1>6. DOMAIN w = 1 .. n
  BY <1>5
<1> HIDE DEF w, n
<1>7. \A i, j \in 1 .. n : i < j => <<w[i], w[j]>> \in R
  BY <1>2, <1>5, <1>6
<1>8. Lists(w, R, S) /\ Range(w) = S
  BY <1>1, <1>5, <1>7, ListingOnto DEF n
<1>9. \A i, j \in 1 .. n : w[i] = w[j] => i = j
  <2> TAKE i, j \in 1 .. n
  <2>0. w[i] \in S /\ w[j] \in S
    BY <1>5
  <2>1. w[i] \in Nat /\ w[j] \in Nat /\ i \in Int /\ j \in Int
    <3>1. \A x \in S : x \in Nat
      OBVIOUS
    <3>2. i \in Int /\ j \in Int
      BY <1>n
    <3>3. w[i] \in Nat
      BY <2>0, <3>1, Zenon
    <3>4. w[j] \in Nat
      BY <2>0, <3>1, Zenon
    <3> QED
      BY <3>2, <3>3, <3>4
  <2>2. i < j => w[i] < w[j]
    BY <1>5, <1>6
  <2>3. j < i => w[j] < w[i]
    BY <1>5, <1>6
  <2> QED
    BY <2>1, <2>2, <2>3
<1>10. \A x \in S : \E i \in 1 .. n : w[i] = x
  BY <1>6, <1>8 DEF Range
<1> QED
  BY <1>5, <1>6, <1>9, <1>10, <1>n DEF w, n

-----------------------------------------------------------------------------
(* The search for a path.  What it has met, in order: each by the call that *)
(* led to it, nearest first, and those of one caller by name; the first p   *)
(* of them have been looked at.                                             *)
Tree(g, from) ==
  /\ g.m \in Nat \ {0} /\ g.p \in 0 .. g.m
  /\ g.ord \in [1 .. g.m -> Names] /\ g.par \in [1 .. g.m -> Nat] /\ g.dep \in [1 .. g.m -> Nat]
  /\ \A i, j \in 1 .. g.m : g.ord[i] = g.ord[j] => i = j
  /\ g.ord[1] = from /\ g.par[1] = 0 /\ g.dep[1] = 0
  /\ \A j \in 2 .. g.m :
       /\ g.par[j] \in 1 .. g.p /\ g.par[j] < j
       /\ g.ord[j] \in CalleesOf(g.ord[g.par[j]]) /\ g.dep[j] = g.dep[g.par[j]] + 1
  /\ \A j \in 1 .. g.m : g.dep[j] <= j - 1
  /\ \A i, j \in 1 .. g.m : i <= j => g.par[i] <= g.par[j] /\ g.dep[i] <= g.dep[j]
  /\ \A i, j \in 2 .. g.m : i < j /\ g.par[i] = g.par[j] => g.ord[i] < g.ord[j]

MetAll(g, q) == \A n \in CalleesOf(g.ord[q]) : \E j \in 1 .. g.m : g.ord[j] = n /\ g.par[j] <= q
Looks(g, q, limit) == limit = 0 \/ g.dep[q] < limit
Holds(st, g) ==
  /\ st = [parent |-> st.parent, depth |-> st.depth, queue |-> st.queue, found |-> st.found]
  /\ \A n : n \in DOMAIN st.parent <=> \E i \in 1 .. g.m : g.ord[i] = n
  /\ \A i \in 1 .. g.m : st.depth[g.ord[i]] = g.dep[i]
  /\ \A i \in 2 .. g.m : st.parent[g.ord[i]] = g.ord[g.par[i]]
  /\ st.queue \in Seq(Names) /\ Len(st.queue) = g.m - g.p
  /\ \A i \in 1 .. g.m - g.p : st.queue[i] = g.ord[g.p + i]

(* Still looking, everything looked at has been followed as far as the     *)
(* limit allows; when the name is found, everything before the last one.   *)
Going(st, g, to, limit) ==
  /\ ~st.found /\ \A i \in 1 .. g.m : g.ord[i] # to
  /\ \A q \in 1 .. g.p : Looks(g, q, limit) => MetAll(g, q)
Met(st, g, to, limit) ==
  /\ st.found /\ g.p >= 1 /\ Looks(g, g.p, limit)
  /\ \A q \in 1 .. g.p - 1 : MetAll(g, q)
  /\ \E j \in 2 .. g.m : g.ord[j] = to /\ g.par[j] = g.p

LEMMA SearchStarts ==
  ASSUME NEW from \in Names, NEW to \in Names \ {from}, NEW limit \in Nat
  PROVE  \E g : LET st == [parent |-> [c \in {from} |-> NoName], depth |-> [c \in {from} |-> 0],
                           queue |-> <<from>>, found |-> FALSE]
                IN  Tree(g, from) /\ Holds(st, g) /\ Going(st, g, to, limit) /\ g.p = 0
<1> DEFINE g == [m |-> 1, p |-> 0, ord |-> [i \in 1 .. 1 |-> from], par |-> [i \in 1 .. 1 |-> 0],
                 dep |-> [i \in 1 .. 1 |-> 0]]
           st == [parent |-> [c \in {from} |-> NoName], depth |-> [c \in {from} |-> 0],
                  queue |-> <<from>>, found |-> FALSE]
<1>1. /\ g.m = 1 /\ g.p = 0 /\ g.ord = [i \in 1 .. 1 |-> from] /\ g.par = [i \in 1 .. 1 |-> 0]
      /\ g.dep = [i \in 1 .. 1 |-> 0]
  OBVIOUS
<1>2. /\ st.parent = [c \in {from} |-> NoName] /\ st.depth = [c \in {from} |-> 0]
      /\ st.queue = <<from>> /\ st.found = FALSE
      /\ st = [parent |-> st.parent, depth |-> st.depth, queue |-> st.queue, found |-> st.found]
  OBVIOUS
<1> HIDE DEF g, st
<1>3. 1 .. 1 = {1} /\ 2 .. 1 = {} /\ 1 .. 0 = {}
  OBVIOUS
<1>4. Tree(g, from)
  BY <1>1, <1>3 DEF Tree
<1>5. <<from>> \in Seq(Names) /\ Len(<<from>>) = 1 - 0 /\ \A i \in 1 .. 1 - 0 : <<from>>[i] = from
  OBVIOUS
<1>6. Holds(st, g)
  BY <1>1, <1>2, <1>3, <1>5 DEF Holds
<1>7. Going(st, g, to, limit)
  BY <1>1, <1>2, <1>3 DEF Going
<1> QED
  BY <1>1, <1>4, <1>6, <1>7 DEF st

(* One turn of the search.                                                *)
SearchTurn(st, to, limit) ==
  IF st.found \/ st.queue = <<>> THEN st
  ELSE IF limit > 0 /\ st.depth[Head(st.queue)] >= limit
    THEN [st EXCEPT !.queue = Tail(st.queue)]
  ELSE Visit(st, Head(st.queue), to)

(* At its limit, a name is only taken out of the queue.                    *)
LEMMA PopKeeps ==
  ASSUME NEW from \in Names, NEW to \in Names, NEW limit \in Nat, NEW st, NEW g,
         Tree(g, from), Holds(st, g), Going(st, g, to, limit), st.queue # <<>>,
         limit > 0, st.depth[Head(st.queue)] >= limit
  PROVE  \E h : LET new == SearchTurn(st, to, limit)
                IN  Tree(h, from) /\ Holds(new, h) /\ Going(new, h, to, limit) /\ h.p = g.p + 1
<1> DEFINE h == [m |-> g.m, p |-> g.p + 1, ord |-> g.ord, par |-> g.par, dep |-> g.dep]
           new == [st EXCEPT !.queue = Tail(st.queue)]
<1>1. h.m = g.m /\ h.p = g.p + 1 /\ h.ord = g.ord /\ h.par = g.par /\ h.dep = g.dep
  OBVIOUS
<1>2. /\ new.parent = st.parent /\ new.depth = st.depth /\ new.found = st.found
      /\ new.queue = Tail(st.queue)
      /\ new = [parent |-> new.parent, depth |-> new.depth, queue |-> new.queue, found |-> new.found]
  <2> DEFINE a == st.parent  b == st.depth  c == st.queue  d == st.found  e == Tail(st.queue)
  <2>1. st = [parent |-> a, depth |-> b, queue |-> c, found |-> d]
    BY DEF Holds
  <2> HIDE DEF a, b, c, d, e
  <2>2. [st EXCEPT !.queue = e] = [parent |-> a, depth |-> b, queue |-> e, found |-> d]
    BY <2>1
  <2>3. new = [parent |-> a, depth |-> b, queue |-> e, found |-> d]
    BY <2>2 DEF e
  <2> HIDE DEF new
  <2>4. new.parent = a /\ new.depth = b /\ new.queue = e /\ new.found = d
    BY <2>3
  <2> QED
    BY <2>3, <2>4 DEF a, b, d, e
<1> HIDE DEF h, new
<1>3. g.m \in Nat \ {0} /\ g.p \in 0 .. g.m /\ Len(st.queue) = g.m - g.p /\ st.queue \in Seq(Names)
  BY DEF Tree, Holds
<1>n. g.m \in Nat \ {0} /\ g.p \in Nat /\ g.p <= g.m
  BY DEF Tree
<1>4. /\ Head(st.queue) = st.queue[1] /\ Tail(st.queue) \in Seq(Names) /\ Len(st.queue) # 0
      /\ Len(Tail(st.queue)) = Len(st.queue) - 1
      /\ \A i \in 1 .. Len(st.queue) - 1 : Tail(st.queue)[i] = st.queue[i + 1]
  BY <1>3, HeadTailProperties, EmptySeq
<1>5. g.p + 1 \in 1 .. g.m
  BY <1>3, <1>4
<1>6. Tree(h, from)
  <2>1. h.m \in Nat \ {0} /\ h.p \in 0 .. h.m
    BY <1>1, <1>3, <1>5
  <2>2. \A j \in 2 .. h.m : h.par[j] \in 1 .. h.p
    BY <1>1, <1>3 DEF Tree
  <2> QED
    BY <1>1, <2>1, <2>2 DEF Tree
<1>7. Holds(new, h)
  <2>1. Len(new.queue) = h.m - h.p
    BY <1>1, <1>2, <1>3, <1>4
  <2>2. \A i \in 1 .. h.m - h.p : new.queue[i] = h.ord[h.p + i]
    <3> TAKE i \in 1 .. h.m - h.p
    <3>1. i \in 1 .. Len(st.queue) - 1 /\ i + 1 \in 1 .. g.m - g.p /\ g.p + (i + 1) = h.p + i
      <4> DEFINE m == g.m  p == g.p  l == Len(st.queue)
      <4>1. l = m - p /\ m \in Nat /\ p \in Nat /\ p <= m /\ h.m = m /\ h.p = p + 1
        BY <1>1, <1>3, <1>n
      <4> HIDE DEF m, p, l
      <4>2. i \in 1 .. m - (p + 1)
        BY <4>1
      <4>3. i \in 1 .. l - 1 /\ i + 1 \in 1 .. m - p /\ p + (i + 1) = (p + 1) + i
        BY <4>1, <4>2
      <4> QED
        BY <4>1, <4>3 DEF m, p, l
    <3>2. st.queue[i + 1] = g.ord[g.p + (i + 1)]
      BY <3>1 DEF Holds
    <3> QED
      BY <1>1, <1>2, <1>4, <3>1, <3>2
  <2> QED
    BY <1>1, <1>2, <1>4, <2>1, <2>2 DEF Holds
<1>8. ~Looks(h, g.p + 1, limit)
  <2>1. st.queue[1] = g.ord[g.p + 1]
    BY <1>3, <1>5 DEF Holds
  <2>2. st.depth[g.ord[g.p + 1]] = g.dep[g.p + 1] /\ g.dep[g.p + 1] \in Nat
    BY <1>5 DEF Holds, Tree
  <2> QED
    BY <1>1, <1>4, <2>1, <2>2 DEF Looks
<1>9. Going(new, h, to, limit)
  <2>1. \A q \in 1 .. h.p : q = g.p + 1 \/ q \in 1 .. g.p
    BY <1>1, <1>n
  <2>2. \A q \in 1 .. g.p : Looks(h, q, limit) => MetAll(h, q)
    <3>1. \A q \in 1 .. g.p : Looks(g, q, limit) => MetAll(g, q)
      BY DEF Going
    <3>2. \A q : Looks(h, q, limit) <=> Looks(g, q, limit)
      BY <1>1 DEF Looks
    <3>3. \A q : MetAll(h, q) <=> MetAll(g, q)
      BY <1>1 DEF MetAll
    <3> QED
      BY <3>1, <3>2, <3>3
  <2>3. ~new.found /\ \A i \in 1 .. h.m : h.ord[i] # to
    BY <1>1, <1>2 DEF Going
  <2> QED
    BY <1>8, <2>1, <2>2, <2>3 DEF Going
<1>10. SearchTurn(st, to, limit) = new
  BY DEF SearchTurn, Going, new
<1> QED
  BY <1>1, <1>6, <1>7, <1>9, <1>10

(* A tree grown by the names S met from its next one, in order.             *)
Grown(g, S) ==
  LET r == Cardinality(S)
      w == InOrder(S)
  IN  [m |-> g.m + r, p |-> g.p + 1,
       ord |-> [i \in 1 .. g.m + r |-> IF i <= g.m THEN g.ord[i] ELSE w[i - g.m]],
       par |-> [i \in 1 .. g.m + r |-> IF i <= g.m THEN g.par[i] ELSE g.p + 1],
       dep |-> [i \in 1 .. g.m + r |-> IF i <= g.m THEN g.dep[i] ELSE g.dep[g.p + 1] + 1]]

LEMMA GrownIs ==
  ASSUME NEW from, NEW g, Tree(g, from), NEW S \in SUBSET Names, IsFiniteSet(S)
  PROVE  LET h == Grown(g, S)
             r == Cardinality(S)
             w == InOrder(S)
         IN  /\ h.m = g.m + r /\ h.p = g.p + 1 /\ r \in Nat
             /\ h.ord \in [1 .. g.m + r -> Names] /\ h.par \in [1 .. g.m + r -> Nat]
             /\ (g.p < g.m => h.dep \in [1 .. g.m + r -> Nat])
             /\ \A i \in 1 .. g.m :
                  h.ord[i] = g.ord[i] /\ h.par[i] = g.par[i] /\ h.dep[i] = g.dep[i]
             /\ \A i \in 1 .. r : /\ h.ord[g.m + i] = w[i] /\ h.par[g.m + i] = g.p + 1
                                  /\ h.dep[g.m + i] = g.dep[g.p + 1] + 1
             /\ \A i \in g.m + 1 .. g.m + r : i - g.m \in 1 .. r /\ g.m + (i - g.m) = i
<1> DEFINE h == Grown(g, S)
           r == Cardinality(S)
           w == InOrder(S)
           m == g.m  p == g.p  ord == g.ord  par == g.par  dep == g.dep
<1>1. \A x \in S : x \in Nat
  BY CodeGraphAssumption
<1>2. S \in SUBSET Nat
  BY <1>1
<1>3. w \in [1 .. r -> S] /\ r \in Nat
  BY <1>2, InOrderLists
<1>4. /\ m \in Nat \ {0} /\ p \in 0 .. m
      /\ ord \in [1 .. m -> Names] /\ par \in [1 .. m -> Nat] /\ dep \in [1 .. m -> Nat]
  BY DEF Tree
<1>5. /\ h.m = m + r /\ h.p = p + 1
      /\ h.ord = [i \in 1 .. m + r |-> IF i <= m THEN ord[i] ELSE w[i - m]]
      /\ h.par = [i \in 1 .. m + r |-> IF i <= m THEN par[i] ELSE p + 1]
      /\ h.dep = [i \in 1 .. m + r |-> IF i <= m THEN dep[i] ELSE dep[p + 1] + 1]
  BY DEF Grown
<1> HIDE DEF h, r, w, m, p, ord, par, dep
<1>6. \A i \in 1 .. m + r : i \in 1 .. m \/ (i - m \in 1 .. r /\ ~(i <= m))
  BY <1>3, <1>4
<1>7. \A i \in 1 .. r : m + i \in 1 .. m + r /\ ~(m + i <= m) /\ (m + i) - m = i
  BY <1>3, <1>4
<1>8. \A i \in 1 .. m : i \in 1 .. m + r /\ i <= m
  BY <1>3, <1>4
<1>9. h.ord \in [1 .. m + r -> Names]
  BY <1>3, <1>4, <1>5, <1>6
<1>10. h.par \in [1 .. m + r -> Nat]
  BY <1>3, <1>4, <1>5, <1>6
<1>11. ASSUME p < m PROVE h.dep \in [1 .. m + r -> Nat]
  <2>1. p + 1 \in 1 .. m
    BY <1>4, <1>11
  <2>2. dep[p + 1] + 1 \in Nat
    BY <1>4, <2>1
  <2> QED
    BY <1>4, <1>5, <1>6, <2>2
<1>12. \A i \in 1 .. m : h.ord[i] = ord[i] /\ h.par[i] = par[i] /\ h.dep[i] = dep[i]
  BY <1>5, <1>8
<1>13. \A i \in 1 .. r : h.ord[m + i] = w[i] /\ h.par[m + i] = p + 1 /\ h.dep[m + i] = dep[p + 1] + 1
  BY <1>5, <1>7
<1>14. \A i \in m + 1 .. m + r : i - m \in 1 .. r /\ m + (i - m) = i
  BY <1>3, <1>4
<1> QED
  BY <1>3, <1>5, <1>9, <1>10, <1>11, <1>12, <1>13, <1>14 DEF h, r, w, m, p, ord, par, dep

LEMMA TreeGrows ==
  ASSUME NEW from, NEW g, Tree(g, from), g.p < g.m,
         NEW S \in SUBSET Names, IsFiniteSet(S), S \subseteq CalleesOf(g.ord[g.p + 1]),
         \A i \in 1 .. g.m : g.ord[i] \notin S
  PROVE  Tree(Grown(g, S), from)
<1> DEFINE h == Grown(g, S)
           r == Cardinality(S)
           w == InOrder(S)
           m == g.m  p == g.p  ord == g.ord  par == g.par  dep == g.dep
           O == h.ord  Q == h.par  D == h.dep
<1>1. S \in SUBSET Nat
  BY CodeGraphAssumption
<1>2. /\ w \in [1 .. r -> S] /\ r \in Nat
      /\ \A i, j \in 1 .. r : i < j => w[i] < w[j]
      /\ \A i, j \in 1 .. r : w[i] = w[j] => i = j
  BY <1>1, InOrderLists
<1>3. /\ m \in Nat \ {0} /\ p \in Nat /\ p < m
      /\ ord \in [1 .. m -> Names] /\ par \in [1 .. m -> Nat] /\ dep \in [1 .. m -> Nat]
  BY DEF Tree
<1>4. /\ \A i, j \in 1 .. m : ord[i] = ord[j] => i = j
      /\ ord[1] = from /\ par[1] = 0 /\ dep[1] = 0
      /\ \A j \in 2 .. m : /\ par[j] \in 1 .. p /\ par[j] < j
                           /\ ord[j] \in CalleesOf(ord[par[j]]) /\ dep[j] = dep[par[j]] + 1
      /\ \A j \in 1 .. m : dep[j] <= j - 1
      /\ \A i, j \in 1 .. m : i <= j => par[i] <= par[j] /\ dep[i] <= dep[j]
      /\ \A i, j \in 2 .. m : i < j /\ par[i] = par[j] => ord[i] < ord[j]
  BY DEF Tree
<1>5. /\ h.m = m + r /\ h.p = p + 1
      /\ O \in [1 .. m + r -> Names] /\ Q \in [1 .. m + r -> Nat] /\ D \in [1 .. m + r -> Nat]
      /\ \A i \in 1 .. m : O[i] = ord[i] /\ Q[i] = par[i] /\ D[i] = dep[i]
      /\ \A i \in 1 .. r : O[m + i] = w[i] /\ Q[m + i] = p + 1 /\ D[m + i] = dep[p + 1] + 1
  BY GrownIs
<1>6. \A x \in S : x \in CalleesOf(ord[p + 1]) /\ x \in Nat /\ \A i \in 1 .. m : ord[i] # x
  BY <1>1
<1> HIDE DEF h, r, w, m, p, ord, par, dep, O, Q, D
<1>7. \A i \in 1 .. m + r : i \in 1 .. m \/ \E k \in 1 .. r : i = m + k
  <2> TAKE i \in 1 .. m + r
  <2>1. CASE i <= m
    BY <1>2, <1>3, <2>1
  <2>2. CASE ~(i <= m)
    <3>1. i - m \in 1 .. r /\ i = m + (i - m)
      BY <1>2, <1>3, <2>2
    <3> QED
      BY <3>1
  <2> QED
    BY <2>1, <2>2
<1>8. p + 1 \in 1 .. m /\ 1 \in 1 .. m
  BY <1>3
<1>9. \A i \in 1 .. m : par[i] <= p /\ dep[i] <= dep[p + 1] + 1 /\ dep[i] \in Nat
  <2> TAKE i \in 1 .. m
  <2>1. CASE i = 1
    BY <1>3, <1>4, <1>8, <2>1
  <2>2. CASE i # 1
    <3>1. i \in 2 .. m
      BY <1>3, <2>2
    <3>2. par[i] \in 1 .. p /\ dep[i] = dep[par[i]] + 1
      BY <1>4, <3>1
    <3>3. par[i] \in 1 .. m /\ par[i] <= p + 1
      BY <1>3, <3>2
    <3>4. dep[par[i]] <= dep[p + 1] /\ dep[par[i]] \in Nat /\ dep[p + 1] \in Nat
      BY <1>3, <1>4, <1>8, <3>3
    <3>5. par[i] \in Int /\ par[i] <= p
      BY <1>3, <3>2
    <3> DEFINE x == dep[par[i]]  y == dep[p + 1]  z == dep[i]
    <3>6. x <= y /\ x \in Nat /\ y \in Nat /\ z = x + 1
      BY <3>2, <3>4
    <3> HIDE DEF x, y, z
    <3>7. z <= y + 1 /\ z \in Nat
      BY <3>6
    <3> QED
      BY <3>5, <3>7 DEF y, z
  <2> QED
    BY <2>1, <2>2
<1>10. ASSUME NEW i \in 1 .. m + r, NEW j \in 1 .. m + r, O[i] = O[j] PROVE i = j
  <2>1. CASE i \in 1 .. m /\ j \in 1 .. m
    BY <1>4, <1>5, <1>10, <2>1
  <2>2. ASSUME NEW a \in 1 .. m, NEW k \in 1 .. r PROVE O[a] # O[m + k]
    <3>1. O[a] = ord[a] /\ O[m + k] = w[k] /\ w[k] \in S
      BY <1>2, <1>5
    <3> QED
      BY <1>6, <3>1
  <2>3. ASSUME NEW k \in 1 .. r, NEW l \in 1 .. r, i = m + k, j = m + l PROVE i = j
    <3>1. w[k] = w[l]
      BY <1>5, <1>10, <2>3
    <3> QED
      BY <1>2, <2>3, <3>1
  <2> QED
    BY <1>7, <1>10, <2>1, <2>2, <2>3
<1>11. O[1] = from /\ Q[1] = 0 /\ D[1] = 0
  BY <1>4, <1>5, <1>8
<1>12. ASSUME NEW j \in 2 .. m + r
       PROVE  /\ Q[j] \in 1 .. p + 1 /\ Q[j] < j
              /\ O[j] \in CalleesOf(O[Q[j]]) /\ D[j] = D[Q[j]] + 1
  <2>1. CASE j \in 1 .. m
    <3>1. j \in 2 .. m
      BY <2>1
    <3>2. par[j] \in 1 .. p /\ par[j] \in 1 .. m /\ par[j] \in 1 .. p + 1
      <4>1. par[j] \in 1 .. p
        BY <1>4, <3>1
      <4> QED
        BY <1>3, <4>1
    <3>3. Q[j] = par[j] /\ O[j] = ord[j] /\ D[j] = dep[j]
      BY <1>5, <2>1
    <3>4. O[par[j]] = ord[par[j]] /\ D[par[j]] = dep[par[j]]
      BY <1>5, <3>2
    <3> QED
      BY <1>4, <3>1, <3>2, <3>3, <3>4
  <2>2. ASSUME NEW k \in 1 .. r, j = m + k
        PROVE  /\ Q[j] \in 1 .. p + 1 /\ Q[j] < j
               /\ O[j] \in CalleesOf(O[Q[j]]) /\ D[j] = D[Q[j]] + 1
    <3>1. O[j] = w[k] /\ Q[j] = p + 1 /\ D[j] = dep[p + 1] + 1 /\ w[k] \in S
      BY <1>2, <1>5, <2>2
    <3>2. O[p + 1] = ord[p + 1] /\ D[p + 1] = dep[p + 1]
      BY <1>5, <1>8
    <3>3. p + 1 \in 1 .. p + 1 /\ p + 1 < j
      BY <1>3, <2>2
    <3> QED
      BY <1>6, <3>1, <3>2, <3>3
  <2>3. j \in 1 .. m + r
    BY <1>2, <1>3
  <2> QED
    BY <1>7, <2>1, <2>2, <2>3
<1>13. ASSUME NEW j \in 1 .. m + r PROVE D[j] <= j - 1
  <2>1. CASE j \in 1 .. m
    BY <1>4, <1>5, <2>1
  <2>2. ASSUME NEW k \in 1 .. r, j = m + k PROVE D[j] <= j - 1
    <3>1. D[j] = dep[p + 1] + 1 /\ dep[p + 1] <= (p + 1) - 1 /\ dep[p + 1] \in Nat
      BY <1>3, <1>4, <1>5, <1>8, <2>2
    <3> DEFINE x == dep[p + 1]
    <3>2. x <= (p + 1) - 1 /\ x \in Nat
      BY <3>1
    <3> HIDE DEF x
    <3>3. x + 1 <= j - 1
      BY <1>3, <2>2, <3>2
    <3> QED
      BY <3>1, <3>3 DEF x
  <2> QED
    BY <1>7, <2>1, <2>2
<1>14. ASSUME NEW i \in 1 .. m + r, NEW j \in 1 .. m + r, i <= j PROVE Q[i] <= Q[j] /\ D[i] <= D[j]
  <2>1. CASE i \in 1 .. m /\ j \in 1 .. m
    BY <1>4, <1>5, <1>14, <2>1
  <2>2. ASSUME NEW k \in 1 .. r, j = m + k, i \in 1 .. m PROVE Q[i] <= Q[j] /\ D[i] <= D[j]
    <3>1. Q[i] = par[i] /\ D[i] = dep[i] /\ Q[j] = p + 1 /\ D[j] = dep[p + 1] + 1 /\ par[i] \in Nat
      BY <1>3, <1>5, <2>2
    <3>2. par[i] <= p /\ dep[i] <= dep[p + 1] + 1
      BY <1>9, <2>2
    <3>3. par[i] <= p + 1
      BY <1>3, <3>1, <3>2
    <3> QED
      BY <3>1, <3>2, <3>3
  <2>3. ASSUME NEW k \in 1 .. r, NEW l \in 1 .. r, i = m + k, j = m + l PROVE Q[i] <= Q[j] /\ D[i] <= D[j]
    <3>1. Q[i] = Q[j] /\ D[i] = D[j] /\ Q[i] \in Nat /\ D[i] \in Nat
      BY <1>5, <2>3
    <3> QED
      BY <3>1
  <2>4. ~(i \in 1 .. m) => ~(j \in 1 .. m)
    BY <1>3, <1>14
  <2> QED
    BY <1>7, <2>1, <2>2, <2>3, <2>4
<1>15. ASSUME NEW i \in 2 .. m + r, NEW j \in 2 .. m + r, i < j, Q[i] = Q[j] PROVE O[i] < O[j]
  <2>0. i \in 1 .. m + r /\ j \in 1 .. m + r
    BY <1>2, <1>3
  <2>1. CASE i \in 1 .. m /\ j \in 1 .. m
    <3>1. i \in 2 .. m /\ j \in 2 .. m
      BY <2>1
    <3>2. par[i] = par[j] /\ O[i] = ord[i] /\ O[j] = ord[j]
      BY <1>5, <1>15, <2>1
    <3> QED
      BY <1>4, <1>15, <3>1, <3>2
  <2>2. ASSUME NEW k \in 1 .. r, j = m + k, i \in 1 .. m PROVE FALSE
    <3>1. Q[i] = par[i] /\ Q[j] = p + 1 /\ par[i] <= p /\ par[i] \in Nat
      BY <1>3, <1>5, <1>9, <2>2
    <3> DEFINE x == par[i]
    <3>2. x = p + 1 /\ x <= p /\ x \in Nat /\ p \in Nat
      BY <1>3, <1>15, <3>1
    <3> HIDE DEF x
    <3> QED
      BY <3>2
  <2>3. ASSUME NEW k \in 1 .. r, NEW l \in 1 .. r, i = m + k, j = m + l PROVE O[i] < O[j]
    <3>1. O[i] = w[k] /\ O[j] = w[l] /\ k < l
      BY <1>3, <1>5, <1>15, <2>3
    <3> QED
      BY <1>2, <3>1
  <2>4. ~(i \in 1 .. m) => ~(j \in 1 .. m)
    BY <1>3, <1>15
  <2> QED
    BY <1>7, <2>0, <2>1, <2>2, <2>3, <2>4
<1>16. h.m \in Nat \ {0} /\ h.p \in 0 .. h.m
  BY <1>2, <1>3, <1>5
<1>17. Tree(h, from)
  <2> DEFINE k == m + r
  <2>1. /\ h.m = k /\ h.p = p + 1
        /\ O \in [1 .. k -> Names] /\ Q \in [1 .. k -> Nat] /\ D \in [1 .. k -> Nat]
    BY <1>5
  <2>2. \A i, j \in 1 .. k : O[i] = O[j] => i = j
    BY <1>10
  <2>3. \A j \in 2 .. k : /\ Q[j] \in 1 .. p + 1 /\ Q[j] < j
                          /\ O[j] \in CalleesOf(O[Q[j]]) /\ D[j] = D[Q[j]] + 1
    BY <1>12
  <2>4. \A j \in 1 .. k : D[j] <= j - 1
    BY <1>13
  <2>5. \A i, j \in 1 .. k : i <= j => Q[i] <= Q[j] /\ D[i] <= D[j]
    BY <1>14
  <2>6. \A i, j \in 2 .. k : i < j /\ Q[i] = Q[j] => O[i] < O[j]
    BY <1>15
  <2> HIDE DEF k
  <2> QED
    BY <1>11, <1>16, <2>1, <2>2, <2>3, <2>4, <2>5, <2>6 DEF Tree, O, Q, D
<1> QED
  BY <1>17 DEF h

(* One turn of the search looks at the next name.                          *)
LEMMA VisitKeeps ==
  ASSUME EdgesNamed, NEW from, NEW to \in Names, NEW limit \in Nat, NEW st, NEW g,
         Tree(g, from), Holds(st, g), Going(st, g, to, limit), st.queue # <<>>,
         ~(limit > 0 /\ st.depth[Head(st.queue)] >= limit)
  PROVE  \E h : LET new == Visit(st, Head(st.queue), to)
                IN  /\ Tree(h, from) /\ Holds(new, h) /\ h.p = g.p + 1
                    /\ Going(new, h, to, limit) \/ Met(new, h, to, limit)
<1> DEFINE cur == Head(st.queue)
           new == Visit(st, cur, to)
           fresh == CalleesOf(cur) \ DOMAIN st.parent
           met == {c \in fresh : to \in fresh => c <= to}
           h == Grown(g, met)
           r == Cardinality(met)
           w == InOrder(met)
           m == g.m  p == g.p
<1>1. /\ m \in Nat \ {0} /\ p \in Nat /\ p <= m
      /\ g.ord \in [1 .. m -> Names] /\ g.dep \in [1 .. m -> Nat] /\ g.par \in [1 .. m -> Nat]
  BY DEF Tree
<1>2. /\ st.queue \in Seq(Names) /\ Len(st.queue) = m - p
      /\ \A i \in 1 .. m - p : st.queue[i] = g.ord[p + i]
  BY DEF Holds
<1>3. /\ Head(st.queue) = st.queue[1] /\ Tail(st.queue) \in Seq(Names) /\ Len(st.queue) # 0
      /\ Len(Tail(st.queue)) = Len(st.queue) - 1
      /\ \A i \in 1 .. Len(st.queue) - 1 : Tail(st.queue)[i] = st.queue[i + 1]
  BY <1>2, HeadTailProperties, EmptySeq
<1>4. p + 1 \in 1 .. m /\ p < m /\ 1 \in 1 .. m - p
  <2> DEFINE l == Len(st.queue)
  <2>1. l = m - p /\ l # 0
    BY <1>2, <1>3
  <2> HIDE DEF l, m, p
  <2> QED
    BY <1>1, <2>1
<1>5. cur = g.ord[p + 1] /\ st.depth[cur] = g.dep[p + 1] /\ cur \in Names /\ g.dep[p + 1] \in Nat
  <2>1. cur = g.ord[p + 1]
    BY <1>2, <1>3, <1>4
  <2>2. st.depth[g.ord[p + 1]] = g.dep[p + 1]
    BY <1>4 DEF Holds
  <2>3. g.ord[p + 1] \in Names /\ g.dep[p + 1] \in Nat
    BY <1>1, <1>4
  <2> HIDE DEF cur
  <2> QED
    BY <2>1, <2>2, <2>3
<1>6. Looks(g, p + 1, limit)
  BY <1>5 DEF Looks
<1>7. /\ met \subseteq Names /\ met \subseteq CalleesOf(g.ord[p + 1]) /\ met \cap DOMAIN st.parent = {}
      /\ IsFiniteSet(met) /\ fresh \subseteq Names
  <2>1. CalleesOf(cur) \subseteq Names
    BY CalleesNamed
  <2>2. met \subseteq Names
    BY <2>1
  <2>3. IsFiniteSet(met)
    BY <2>2, CodeGraphAssumption, FS_Subset
  <2> QED
    BY <1>5, <2>1, <2>2, <2>3
<1>8. \A n : n \in DOMAIN st.parent <=> \E i \in 1 .. m : g.ord[i] = n
  BY DEF Holds
<1>9. Tree(h, from)
  <2>1. \A i \in 1 .. m : g.ord[i] \notin met
    BY <1>7, <1>8
  <2> HIDE DEF met
  <2> QED
    BY <1>4, <1>7, <2>1, TreeGrows
<1>10. /\ h.m = m + r /\ h.p = p + 1 /\ r \in Nat
       /\ \A i \in 1 .. m : h.ord[i] = g.ord[i] /\ h.par[i] = g.par[i] /\ h.dep[i] = g.dep[i]
       /\ \A i \in 1 .. r : h.ord[m + i] = w[i] /\ h.par[m + i] = p + 1 /\ h.dep[m + i] = g.dep[p + 1] + 1
       /\ \A i \in m + 1 .. m + r : i - m \in 1 .. r /\ m + (i - m) = i
  <2> HIDE DEF met
  <2> QED
    BY <1>7, GrownIs
<1>11. /\ w \in [1 .. r -> met] /\ \A x \in met : \E i \in 1 .. r : w[i] = x
  <2>1. met \in SUBSET Nat
    BY <1>7, CodeGraphAssumption
  <2> HIDE DEF met
  <2> QED
    BY <1>7, <2>1, InOrderLists
<1> DEFINE known == DOMAIN st.parent \cup met
<1>12. /\ new.parent = [c \in known |-> IF c \in met THEN cur ELSE st.parent[c]]
       /\ new.depth = [c \in known |-> IF c \in met THEN st.depth[cur] + 1 ELSE st.depth[c]]
       /\ new.queue = Tail(st.queue) \o w /\ new.found = (to \in fresh)
       /\ new = [parent |-> new.parent, depth |-> new.depth, queue |-> new.queue, found |-> new.found]
  BY DEF Visit
<1>13. met \subseteq fresh /\ (to \in fresh => to \in met) /\ (to \notin fresh => met = fresh)
  <2>1. to <= to
    BY CodeGraphAssumption
  <2> QED
    BY <2>1
<1>14. fresh = CalleesOf(cur) \ DOMAIN st.parent
  OBVIOUS
<1> HIDE DEF cur, new, fresh, met, h, r, w, known
<1>15. \A i \in 1 .. m + r : i \in 1 .. m \/ \E k \in 1 .. r : i = m + k
  <2> HIDE DEF m
  <2> TAKE i \in 1 .. m + r
  <2>1. CASE i <= m
    BY <1>1, <1>10, <2>1
  <2>2. CASE ~(i <= m)
    <3>1. i - m \in 1 .. r /\ i = m + (i - m)
      BY <1>1, <1>10, <2>2
    <3> QED
      BY <3>1
  <2> QED
    BY <2>1, <2>2
<1>16. /\ \A i \in 1 .. m : i \in 1 .. m + r
       /\ \A i \in 1 .. r : m + i \in 1 .. m + r
  <2> HIDE DEF m
  <2> QED
    BY <1>1, <1>10
<1>17. \A n : n \in known <=> \E i \in 1 .. m + r : h.ord[i] = n
  <2> TAKE n
  <2>1. ASSUME n \in DOMAIN st.parent PROVE \E i \in 1 .. m + r : h.ord[i] = n
    BY <1>8, <1>10, <1>16, <2>1
  <2>2. ASSUME n \in met PROVE \E i \in 1 .. m + r : h.ord[i] = n
    <3>1. PICK k \in 1 .. r : w[k] = n
      BY <1>11, <2>2
    <3>2. m + k \in 1 .. m + r
      BY <1>16
    <3>3. h.ord[m + k] = n
      BY <1>10, <3>1
    <3> QED
      BY <3>2, <3>3
  <2>3. ASSUME NEW i \in 1 .. m + r, h.ord[i] = n PROVE n \in known
    <3>1. CASE i \in 1 .. m
      BY <1>8, <1>10, <2>3, <3>1 DEF known
    <3>2. ASSUME NEW k \in 1 .. r, i = m + k PROVE n \in known
      BY <1>10, <1>11, <2>3, <3>2 DEF known
    <3> QED
      BY <1>15, <3>1, <3>2
  <2> QED
    BY <2>1, <2>2, <2>3 DEF known
<1>18. \A i \in 1 .. m : g.ord[i] \notin met /\ g.ord[i] \in known /\ g.ord[i] \in DOMAIN st.parent
  BY <1>7, <1>8 DEF known
<1>19. \A i \in 1 .. r : w[i] \in met /\ w[i] \in known
  BY <1>11 DEF known
<1>20. \A i \in 1 .. m + r : new.depth[h.ord[i]] = h.dep[i]
  <2> TAKE i \in 1 .. m + r
  <2>1. CASE i \in 1 .. m
    <3>1. st.depth[g.ord[i]] = g.dep[i]
      BY <2>1 DEF Holds
    <3> QED
      BY <1>10, <1>12, <1>18, <2>1, <3>1
  <2>2. ASSUME NEW k \in 1 .. r, i = m + k PROVE new.depth[h.ord[i]] = h.dep[i]
    BY <1>5, <1>10, <1>12, <1>19, <2>2
  <2> QED
    BY <1>15, <2>1, <2>2
<1>21. \A i \in 2 .. m + r : new.parent[h.ord[i]] = h.ord[h.par[i]]
  <2> TAKE i \in 2 .. m + r
  <2>1. CASE i \in 1 .. m
    <3>1. i \in 2 .. m
      BY <2>1
    <3>2. st.parent[g.ord[i]] = g.ord[g.par[i]] /\ g.par[i] \in 1 .. g.p
      BY <3>1 DEF Holds, Tree
    <3>3. g.par[i] \in 1 .. m
      <4> DEFINE x == g.par[i]
      <4>1. x \in 1 .. p
        BY <3>2
      <4> HIDE DEF x, p, m
      <4>2. x \in 1 .. m
        BY <1>1, <4>1
      <4> QED
        BY <4>2 DEF x
    <3>4. h.ord[h.par[i]] = g.ord[g.par[i]]
      BY <1>10, <2>1, <3>3
    <3> QED
      BY <1>10, <1>12, <1>18, <2>1, <3>2, <3>4
  <2>2. ASSUME NEW k \in 1 .. r, i = m + k PROVE new.parent[h.ord[i]] = h.ord[h.par[i]]
    <3>1. h.ord[i] = w[k] /\ h.par[i] = p + 1
      BY <1>10, <2>2
    <3>2. h.ord[p + 1] = cur
      BY <1>4, <1>5, <1>10
    <3> QED
      BY <1>12, <1>19, <3>1, <3>2
  <2>3. i \in 1 .. m + r
    <3> HIDE DEF m
    <3> QED
      BY <1>1, <1>10
  <2> QED
    BY <1>15, <2>1, <2>2, <2>3
<1>22. w \in Seq(Names) /\ Len(w) = r
  <2>1. w \in [1 .. r -> Names]
    BY <1>7, <1>11
  <2> QED
    BY <1>10, <2>1, FunIsSeq
<1>23. /\ new.queue \in Seq(Names) /\ Len(new.queue) = h.m - h.p
       /\ \A i \in 1 .. h.m - h.p : new.queue[i] = h.ord[h.p + i]
  <2> DEFINE v == Tail(st.queue)
             u == v \o w
             k == m - p - 1
  <2>1. v \in Seq(Names) /\ Len(v) = k /\ \A i \in 1 .. k : v[i] = st.queue[i + 1]
    BY <1>2, <1>3
  <2>2. new.queue = u
    BY <1>12
  <2>3. /\ u \in Seq(Names) /\ Len(u) = Len(v) + Len(w)
        /\ \A i \in 1 .. Len(v) + Len(w) : u[i] = IF i <= Len(v) THEN v[i] ELSE w[i - Len(v)]
    BY <1>22, <2>1, ConcatProperties
  <2> HIDE DEF u, v
  <2>4. \A i \in 1 .. k + r : u[i] = IF i <= k THEN v[i] ELSE w[i - k]
    BY <1>22, <2>1, <2>3
  <2>5. k \in Nat /\ h.m - h.p = k + r /\ h.p = p + 1
    <3>1. h.m = m + r /\ h.p = p + 1
      BY <1>10
    <3> HIDE DEF m, p
    <3> QED
      BY <1>1, <1>4, <1>10, <3>1
  <2>6. Len(u) = k + r
    BY <1>22, <2>1, <2>3
  <2>7. ASSUME NEW i \in 1 .. k + r PROVE u[i] = h.ord[p + 1 + i]
    <3>1. CASE i <= k
      <4>1. i \in 1 .. k /\ i + 1 \in 1 .. m - p /\ p + (i + 1) = p + 1 + i /\ p + 1 + i \in 1 .. m
        <5> HIDE DEF m, p
        <5> QED
          BY <1>1, <1>4, <1>10, <2>5, <3>1
      <4>2. u[i] = st.queue[i + 1]
        BY <2>1, <2>4, <3>1, <4>1
      <4>3. st.queue[i + 1] = g.ord[p + 1 + i]
        BY <1>2, <4>1
      <4> QED
        BY <1>10, <4>1, <4>2, <4>3
    <3>2. CASE ~(i <= k)
      <4>1. i - k \in 1 .. r /\ m + (i - k) = p + 1 + i
        <5> HIDE DEF m, p
        <5> QED
          BY <1>1, <1>4, <1>10, <2>5, <3>2
      <4>2. u[i] = w[i - k]
        BY <2>4, <3>2
      <4> QED
        BY <1>10, <4>1, <4>2
    <3> QED
      BY <3>1, <3>2
  <2> HIDE DEF k, m, p
  <2> QED
    BY <2>2, <2>3, <2>5, <2>6, <2>7
<1>24. Holds(new, h)
  <2>1. h.m = m + r
    BY <1>10
  <2>2. DOMAIN new.parent = known
    BY <1>12
  <2> HIDE DEF m
  <2> QED
    BY <1>12, <1>17, <1>20, <1>21, <1>23, <2>1, <2>2 DEF Holds
<1>25. ASSUME NEW q \in 1 .. m, MetAll(g, q) PROVE MetAll(h, q)
  <2> SUFFICES ASSUME NEW n \in CalleesOf(h.ord[q]) PROVE \E j \in 1 .. h.m : h.ord[j] = n /\ h.par[j] <= q
    BY DEF MetAll
  <2>1. h.ord[q] = g.ord[q]
    BY <1>10
  <2>2. PICK j \in 1 .. m : g.ord[j] = n /\ g.par[j] <= q
    BY <1>25, <2>1 DEF MetAll
  <2>3. j \in 1 .. h.m /\ h.ord[j] = n /\ h.par[j] <= q
    BY <1>10, <1>16, <2>2
  <2> QED
    BY <2>3
<1>26. \A q \in 1 .. p : q \in 1 .. m /\ q <= p + 1 /\ q # p + 1
  <2> HIDE DEF m, p
  <2> QED
    BY <1>1
<1>27. \A q \in 1 .. p : MetAll(h, q)
  <2> TAKE q \in 1 .. p
  <2>1. Looks(g, q, limit)
    <3>1. g.dep[q] <= g.dep[p + 1]
      BY <1>4, <1>26 DEF Tree
    <3>2. g.dep[q] \in Nat
      BY <1>1, <1>26
    <3> DEFINE x == g.dep[q]  y == g.dep[p + 1]
    <3>3. x <= y /\ x \in Nat /\ y \in Nat /\ (limit = 0 \/ y < limit)
      BY <1>5, <1>6, <3>1, <3>2 DEF Looks
    <3> HIDE DEF x, y
    <3>4. limit = 0 \/ x < limit
      BY <3>3
    <3> QED
      BY <3>4 DEF Looks, x
  <2>2. MetAll(g, q)
    BY <2>1 DEF Going
  <2> QED
    BY <1>25, <1>26, <2>2
<1>28. \A i \in 1 .. m : g.ord[i] # to
  BY DEF Going
<1>29. CASE to \in fresh
  <2>1. PICK k \in 1 .. r : w[k] = to
    BY <1>11, <1>13, <1>29
  <2>2. m + k \in 2 .. h.m /\ h.ord[m + k] = to /\ h.par[m + k] = p + 1
    <3>1. h.m = m + r
      BY <1>10
    <3>2. m + k \in 2 .. m + r
      <4> HIDE DEF m
      <4> QED
        BY <1>1, <1>10
    <3> QED
      BY <1>10, <2>1, <3>1, <3>2
  <2>3. Looks(h, p + 1, limit)
    BY <1>4, <1>6, <1>10 DEF Looks
  <2>4. h.p = p + 1 /\ h.p >= 1 /\ h.p - 1 = p
    <3>1. h.p = p + 1
      BY <1>10
    <3> DEFINE x == h.p
    <3>2. x = p + 1 /\ p \in Nat
      BY <1>1, <3>1
    <3> HIDE DEF p, x
    <3>3. x >= 1 /\ x - 1 = p
      BY <3>2
    <3> QED
      BY <3>2, <3>3 DEF x
  <2>5. Met(new, h, to, limit)
    <3>1. new.found
      BY <1>12, <1>29
    <3>2. \A q \in 1 .. h.p - 1 : MetAll(h, q)
      BY <1>27, <2>4
    <3>3. Looks(h, h.p, limit)
      BY <2>3, <2>4
    <3>4. h.ord[m + k] = to /\ h.par[m + k] = h.p
      BY <2>2, <2>4
    <3> QED
      BY <2>2, <2>4, <3>1, <3>2, <3>3, <3>4 DEF Met
  <2> QED
    BY <1>9, <1>10, <1>24, <2>5 DEF new, cur
<1>30. CASE to \notin fresh
  <2>1. MetAll(h, p + 1)
    <3> SUFFICES ASSUME NEW n \in CalleesOf(h.ord[p + 1])
                 PROVE  \E j \in 1 .. h.m : h.ord[j] = n /\ h.par[j] <= p + 1
      BY DEF MetAll
    <3>1. n \in CalleesOf(cur)
      BY <1>4, <1>5, <1>10
    <3>2. CASE n \in DOMAIN st.parent
      <4>1. PICK j \in 1 .. m : g.ord[j] = n
        BY <1>8, <3>2
      <4>2. g.par[j] <= p + 1
        <5>1. j = 1 => g.par[j] = 0
          BY DEF Tree
        <5>2. j # 1 => j \in 2 .. m
          OBVIOUS
        <5>3. j # 1 => g.par[j] \in 1 .. p
          BY <5>2 DEF Tree
        <5> DEFINE x == g.par[j]
        <5>4. x = 0 \/ x \in 1 .. p
          BY <5>1, <5>3
        <5> HIDE DEF x, p
        <5>5. x <= p + 1
          BY <1>1, <5>4
        <5> QED
          BY <5>5 DEF x
      <4> QED
        BY <1>10, <1>16, <4>1, <4>2
    <3>3. CASE n \notin DOMAIN st.parent
      <4>1. n \in met
        BY <1>13, <1>14, <1>30, <3>1, <3>3
      <4>2. PICK k \in 1 .. r : w[k] = n
        BY <1>11, <4>1
      <4>3. p + 1 <= p + 1
        BY <1>1
      <4>4. m + k \in 1 .. h.m /\ h.ord[m + k] = n /\ h.par[m + k] <= p + 1
        BY <1>10, <1>16, <4>2, <4>3
      <4> QED
        BY <4>4
    <3> QED
      BY <3>2, <3>3
  <2>2. \A i \in 1 .. h.m : h.ord[i] # to
    <3> SUFFICES ASSUME NEW i \in 1 .. m + r PROVE h.ord[i] # to
      BY <1>10
    <3>1. CASE i \in 1 .. m
      BY <1>10, <1>28, <3>1
    <3>2. ASSUME NEW k \in 1 .. r, i = m + k PROVE h.ord[i] # to
      BY <1>10, <1>13, <1>19, <1>30, <3>2
    <3> QED
      BY <1>15, <3>1, <3>2
  <2>3. \A q \in 1 .. h.p : MetAll(h, q)
    <3> SUFFICES ASSUME NEW q \in 1 .. p + 1 PROVE MetAll(h, q)
      BY <1>10
    <3>1. q = p + 1 \/ q \in 1 .. p
      <4> HIDE DEF p
      <4> QED
        BY <1>1
    <3> QED
      BY <1>27, <2>1, <3>1
  <2>4. Going(new, h, to, limit)
    BY <1>12, <1>30, <2>2, <2>3 DEF Going
  <2> QED
    BY <1>9, <1>10, <1>24, <2>4 DEF new, cur
<1> QED
  BY <1>29, <1>30

(* No name is met twice, so a search meets at most all of them.            *)
LEMMA TreeFits ==
  ASSUME NEW from, NEW g, Tree(g, from)
  PROVE  g.m \in Nat /\ g.m <= Cardinality(Names)
<1>1. g.m \in Nat \ {0} /\ g.ord \in [1 .. g.m -> Names]
  BY DEF Tree
<1>2. \A i, j \in 1 .. g.m : g.ord[i] = g.ord[j] => i = j
  BY DEF Tree
<1>3. g.ord \in Injection(1 .. g.m, Names)
  BY <1>1, <1>2 DEF Injection, IsInjective
<1>4. Cardinality(1 .. g.m) <= Cardinality(Names)
  BY <1>3, CodeGraphAssumption, FS_Injection
<1>5. Cardinality(1 .. g.m) = g.m
  <2> DEFINE m == g.m
  <2>1. m \in Nat \ {0}
    BY <1>1
  <2> HIDE DEF m
  <2>2. Cardinality(1 .. m) = m
    BY <2>1, FS_Interval
  <2> QED
    BY <2>2 DEF m
<1> QED
  BY <1>1, <1>4, <1>5

SearchStep(from, to, limit, f) ==
  [i \in 0 .. Cardinality(Names) |->
     IF i = 0 THEN [parent |-> [c \in {from} |-> NoName], depth |-> [c \in {from} |-> 0],
                    queue |-> <<from>>, found |-> FALSE]
     ELSE LET st == f[i - 1]
          IN  IF st.found \/ st.queue = <<>> THEN st
              ELSE IF limit > 0 /\ st.depth[Head(st.queue)] >= limit
                THEN [st EXCEPT !.queue = Tail(st.queue)]
              ELSE Visit(st, Head(st.queue), to)]

Searched(st, g, from, to, limit, i) ==
  /\ Tree(g, from) /\ Holds(st, g)
  /\ Met(st, g, to, limit) \/ (Going(st, g, to, limit) /\ (g.p = i \/ g.p = g.m))

LEMMA TurnKeeps ==
  ASSUME EdgesNamed, NEW from \in Names, NEW to \in Names, NEW limit \in Nat,
         NEW i \in Nat, NEW st, NEW g, Searched(st, g, from, to, limit, i)
  PROVE  \E h : Searched(SearchTurn(st, to, limit), h, from, to, limit, i + 1)
<1>1. CASE Met(st, g, to, limit)
  BY <1>1 DEF Met, Searched, SearchTurn
<1>2. CASE Going(st, g, to, limit) /\ st.queue = <<>>
  <2>1. SearchTurn(st, to, limit) = st
    BY <1>2 DEF SearchTurn
  <2>2. g.m \in Nat /\ g.p \in 0 .. g.m /\ Len(st.queue) = g.m - g.p /\ Len(st.queue) = 0
    BY <1>2 DEF Searched, Tree, Holds
  <2>3. g.p = g.m
    <3> DEFINE m == g.m  p == g.p
    <3>1. m \in Nat /\ p \in 0 .. m /\ 0 = m - p
      BY <2>2
    <3> HIDE DEF m, p
    <3>2. p = m
      BY <3>1
    <3> QED
      BY <3>2 DEF m, p
  <2> QED
    BY <1>2, <2>1, <2>3 DEF Searched
<1>3. CASE Going(st, g, to, limit) /\ st.queue # <<>>
  <2>1. ~st.found /\ Tree(g, from) /\ Holds(st, g)
    BY <1>3 DEF Going, Searched
  <2>2. g.p # g.m
    <3>1. g.m \in Nat /\ st.queue \in Seq(Names) /\ Len(st.queue) = g.m - g.p
      BY <2>1 DEF Tree, Holds
    <3>2. Len(st.queue) # 0
      BY <1>3, <3>1, EmptySeq
    <3> DEFINE m == g.m
    <3>3. m \in Nat
      BY <3>1
    <3> HIDE DEF m
    <3>4. m - m = 0
      BY <3>3
    <3> QED
      BY <3>1, <3>2, <3>4 DEF m
  <2>3. g.p = i
    <3>1. ~Met(st, g, to, limit)
      BY <2>1 DEF Met
    <3> QED
      BY <2>2, <3>1 DEF Searched
  <2>4. CASE limit > 0 /\ st.depth[Head(st.queue)] >= limit
    <3>1. \E h : LET new == SearchTurn(st, to, limit)
                IN  Tree(h, from) /\ Holds(new, h) /\ Going(new, h, to, limit) /\ h.p = g.p + 1
      BY <1>3, <2>1, <2>4, PopKeeps
    <3> QED
      BY <2>3, <3>1 DEF Searched
  <2>5. CASE ~(limit > 0 /\ st.depth[Head(st.queue)] >= limit)
    <3>1. PICK h : LET new == Visit(st, Head(st.queue), to)
                   IN  /\ Tree(h, from) /\ Holds(new, h) /\ h.p = g.p + 1
                       /\ Going(new, h, to, limit) \/ Met(new, h, to, limit)
      BY <1>3, <2>1, <2>5, VisitKeeps
    <3>2. SearchTurn(st, to, limit) = Visit(st, Head(st.queue), to)
      BY <1>3, <2>1, <2>5 DEF SearchTurn
    <3> QED
      BY <2>3, <3>1, <3>2 DEF Searched
  <2> QED
    BY <2>4, <2>5
<1> QED
  BY <1>1, <1>2, <1>3 DEF Searched

LEMMA SearchEnds ==
  ASSUME EdgesNamed, NEW from \in Names, NEW to \in Names \ {from}, NEW limit \in Nat
  PROVE  \E end, g :
           /\ CallPath(from, to, limit) = IF end.found THEN Back(end.parent, from, to) ELSE <<>>
           /\ Tree(g, from) /\ Holds(end, g)
           /\ Met(end, g, to, limit) \/ (Going(end, g, to, limit) /\ g.p = g.m)
<1> DEFINE N == Cardinality(Names)
           h == CHOOSE f : f = SearchStep(from, to, limit, f)
           first == [parent |-> [c \in {from} |-> NoName], depth |-> [c \in {from} |-> 0],
                     queue |-> <<from>>, found |-> FALSE]
           turn(st) == SearchTurn(st, to, limit)
<1>n. N \in Nat
  BY NameCount
<1>1. CallPath(from, to, limit) = IF h[N].found THEN Back(h[N].parent, from, to) ELSE <<>>
  BY DEF CallPath, SearchStep
<1>2. \A f : SearchStep(from, to, limit, f) =
               [i \in 0 .. N |-> IF i = 0 THEN first ELSE turn(f[i - 1])]
  BY DEF SearchStep, SearchTurn
<1>f. first = [parent |-> [c \in {from} |-> NoName], depth |-> [c \in {from} |-> 0],
               queue |-> <<from>>, found |-> FALSE]
  OBVIOUS
<1>t. \A st : turn(st) = SearchTurn(st, to, limit)
  OBVIOUS
<1> HIDE DEF first, N, turn
<1>3. \E f : f = SearchStep(from, to, limit, f)
  <2> DEFINE Unfolds(f, n) == /\ f = [d \in 0 .. n |-> f[d]] /\ f[0] = first
                              /\ \A d \in 1 .. n : f[d] = turn(f[d - 1])
             P == {n \in Nat : \E f : Unfolds(f, n)}
  <2>1. 0 \in P
    <3> DEFINE f == [d \in 0 .. 0 |-> first]
    <3>1. Unfolds(f, 0)
      OBVIOUS
    <3> QED
      BY <3>1
  <2>2. ASSUME NEW n \in Nat, n \in P PROVE n + 1 \in P
    <3>1. PICK f : Unfolds(f, n)
      BY <2>2
    <3> DEFINE e == [d \in 0 .. n + 1 |-> IF d = n + 1 THEN turn(f[n]) ELSE f[d]]
    <3>2. e[n + 1] = turn(f[n]) /\ \A d \in 0 .. n : e[d] = f[d]
      OBVIOUS
    <3>3. e = [d \in 0 .. n + 1 |-> e[d]]
      OBVIOUS
    <3> HIDE DEF e
    <3>4. e[0] = first
      BY <3>1, <3>2
    <3>5. ASSUME NEW d \in 1 .. n + 1 PROVE e[d] = turn(e[d - 1])
      <4>1. CASE d = n + 1
        <5>1. d - 1 = n /\ n \in 0 .. n
          BY <4>1
        <5> QED
          BY <3>2, <4>1, <5>1
      <4>2. CASE d # n + 1
        <5>1. d \in 1 .. n /\ d \in 0 .. n /\ d - 1 \in 0 .. n
          BY <4>2
        <5> QED
          BY <3>1, <3>2, <5>1
      <4> QED
        BY <4>1, <4>2
    <3>6. Unfolds(e, n + 1)
      BY <3>3, <3>4, <3>5
    <3>7. n + 1 \in Nat
      OBVIOUS
    <3> HIDE DEF Unfolds
    <3> QED
      BY <3>6, <3>7
  <2>3. N \in P
    <3>1. \A n \in Nat : n \in P => n + 1 \in P
      BY <2>2
    <3> HIDE DEF P
    <3> QED
      BY <1>n, <2>1, <3>1, NatSetInduction
  <2>4. PICK f : Unfolds(f, N)
    BY <2>3
  <2>5. \A d \in 0 .. N : f[d] = IF d = 0 THEN first ELSE turn(f[d - 1])
    <3> TAKE d \in 0 .. N
    <3>1. d # 0 => d \in 1 .. N
      BY <1>n
    <3> QED
      BY <2>4, <3>1
  <2> DEFINE e == [d \in 0 .. N |-> IF d = 0 THEN first ELSE turn(f[d - 1])]
  <2>7. SearchStep(from, to, limit, f) = e
    BY <1>2
  <2>8. f = e
    BY <2>4, <2>5
  <2> HIDE DEF e
  <2> QED
    BY <2>7, <2>8
<1>4. h = SearchStep(from, to, limit, h)
  BY <1>3
<1> HIDE DEF h
<1>5. \A d \in 0 .. N : h[d] = IF d = 0 THEN first ELSE turn(h[d - 1])
  BY <1>2, <1>4
<1> DEFINE P == {i \in Nat : i <= N => \E g : Searched(h[i], g, from, to, limit, i)}
<1>6. 0 \in P
  <2>1. h[0] = first
    BY <1>5, <1>n
  <2>2. \E g : Tree(g, from) /\ Holds(first, g) /\ Going(first, g, to, limit) /\ g.p = 0
    BY SearchStarts DEF first
  <2> QED
    BY <2>1, <2>2 DEF Searched
<1>7. ASSUME NEW i \in Nat, i \in P PROVE i + 1 \in P
  <2>1. SUFFICES ASSUME i + 1 <= N PROVE \E g : Searched(h[i + 1], g, from, to, limit, i + 1)
    OBVIOUS
  <2>2. i <= N /\ i + 1 \in 0 .. N /\ (i + 1) - 1 = i /\ i + 1 # 0
    BY <1>7, <1>n, <2>1
  <2>3. h[i + 1] = SearchTurn(h[i], to, limit)
    BY <1>5, <1>t, <2>2
  <2>4. PICK g : Searched(h[i], g, from, to, limit, i)
    BY <1>7, <2>2
  <2>5. \E e : Searched(SearchTurn(h[i], to, limit), e, from, to, limit, i + 1)
    BY <2>4, TurnKeeps
  <2> QED
    BY <2>3, <2>5
<1>8. N \in P
  <2>1. \A i \in Nat : i \in P => i + 1 \in P
    BY <1>7
  <2> HIDE DEF P
  <2> QED
    BY <1>6, <1>n, <2>1, NatSetInduction
<1>9. PICK g : Searched(h[N], g, from, to, limit, N)
  BY <1>8, <1>n
<1>10. g.p = N => g.p = g.m
  <2>1. g.m \in Nat /\ g.m <= N /\ g.p \in 0 .. g.m
    <3>1. Tree(g, from)
      BY <1>9 DEF Searched
    <3> QED
      BY <3>1, TreeFits DEF Tree, N
  <2> DEFINE m == g.m  p == g.p
  <2>2. m \in Nat /\ m <= N /\ p \in 0 .. m
    BY <2>1
  <2> HIDE DEF m, p
  <2>3. p = N => p = m
    BY <1>n, <2>2
  <2> QED
    BY <2>3 DEF m, p
<1> QED
  BY <1>1, <1>9, <1>10 DEF Searched

(* The way back: from the name found, by the parents, to where it began.   *)
BackTurn(parent, from, path) ==
  IF Head(path) = from THEN path ELSE <<parent[Head(path)]>> \o path
BackStep(parent, from, to, f) ==
  [k \in 0 .. Cardinality(Names) |->
     IF k = 0 THEN <<to>>
     ELSE LET path == f[k - 1]
          IN  IF Head(path) = from THEN path ELSE <<parent[Head(path)]>> \o path]

Traced(g, a, A, n, last) ==
  /\ n \in Nat \ {0} /\ A \in [1 .. n -> 1 .. g.m] /\ a \in Seq(Names) /\ Len(a) = n
  /\ \A i \in 1 .. n : a[i] = g.ord[A[i]]
  /\ A[n] = last
  /\ \A i \in 1 .. n - 1 : A[i] = g.par[A[i + 1]] /\ A[i + 1] # 1
  /\ \A i \in 1 .. n : g.dep[A[i]] + n = g.dep[last] + i

LEMMA BackStarts ==
  ASSUME NEW from, NEW g, Tree(g, from), NEW last \in 1 .. g.m
  PROVE  \E A : Traced(g, <<g.ord[last]>>, A, 1, last)
<1> DEFINE A == [i \in 1 .. 1 |-> last]
           a == <<g.ord[last]>>
<1>1. A[1] = last /\ A \in [1 .. 1 -> 1 .. g.m] /\ 1 .. 1 = {1} /\ 1 .. 1 - 1 = {}
  OBVIOUS
<1>2. g.ord[last] \in Names /\ g.dep[last] \in Nat
  BY DEF Tree
<1>3. a \in Seq(Names) /\ Len(a) = 1 /\ a[1] = g.ord[last]
  BY <1>2
<1> HIDE DEF A, a
<1>4. Traced(g, a, A, 1, last)
  BY <1>1, <1>2, <1>3 DEF Traced
<1> QED
  BY <1>4 DEF a

LEMMA BackKeeps ==
  ASSUME NEW from, NEW g, Tree(g, from), NEW st, Holds(st, g), NEW last \in 1 .. g.m,
         NEW a, NEW A, NEW n, Traced(g, a, A, n, last), A[1] # 1
  PROVE  /\ Head(a) # from
         /\ \E B : Traced(g, <<st.parent[Head(a)]>> \o a, B, n + 1, last)
<1> DEFINE m == g.m
           x == g.par[A[1]]
           u == <<st.parent[Head(a)]>>
           b == u \o a
           B == [i \in 1 .. n + 1 |-> IF i = 1 THEN x ELSE A[i - 1]]
<1>1. /\ n \in Nat \ {0} /\ A \in [1 .. n -> 1 .. m] /\ a \in Seq(Names) /\ Len(a) = n
      /\ \A i \in 1 .. n : a[i] = g.ord[A[i]]
      /\ A[n] = last
      /\ \A i \in 1 .. n - 1 : A[i] = g.par[A[i + 1]] /\ A[i + 1] # 1
      /\ \A i \in 1 .. n : g.dep[A[i]] + n = g.dep[last] + i
  BY DEF Traced
<1>2. /\ m \in Nat \ {0} /\ g.p \in 0 .. m /\ g.ord \in [1 .. m -> Names] /\ g.dep \in [1 .. m -> Nat]
  BY DEF Tree
<1>3. 1 \in 1 .. n /\ n \in 1 .. n /\ A[1] \in 2 .. m /\ A[1] \in 1 .. m
  <2>1. 1 \in 1 .. n /\ n \in 1 .. n
    BY <1>1
  <2>2. A[1] \in 1 .. m
    BY <1>1, <2>1
  <2> DEFINE y == A[1]
  <2>3. y \in 1 .. m /\ y # 1
    BY <2>2
  <2> HIDE DEF y, m
  <2>4. y \in 2 .. m
    BY <1>2, <2>3
  <2> QED
    BY <2>1, <2>3, <2>4 DEF y
<1>4. Head(a) = g.ord[A[1]]
  <2>1. a # <<>>
    BY <1>1, EmptySeq
  <2> QED
    BY <1>1, <1>3, <2>1, HeadTailProperties
<1>5. Head(a) # from
  <2>1. g.ord[1] = from /\ 1 \in 1 .. m
    BY <1>2 DEF Tree
  <2> QED
    BY <1>3, <1>4, <2>1 DEF Tree
<1>6. st.parent[Head(a)] = g.ord[x] /\ x \in 1 .. m /\ g.dep[A[1]] = g.dep[x] + 1
  <2>1. st.parent[g.ord[A[1]]] = g.ord[x]
    BY <1>3 DEF Holds
  <2>2. x \in 1 .. g.p /\ g.dep[A[1]] = g.dep[x] + 1
    BY <1>3 DEF Tree
  <2>3. x \in 1 .. m
    <3> HIDE DEF x, m
    <3>1. g.p \in 0 .. m /\ m \in Nat
      BY <1>2
    <3> DEFINE p == g.p
    <3>2. p \in 0 .. m /\ x \in 1 .. p
      BY <2>2, <3>1
    <3> HIDE DEF p
    <3> QED
      BY <3>1, <3>2
  <2> QED
    BY <1>4, <2>1, <2>2, <2>3
<1>7. u \in Seq(Names) /\ Len(u) = 1 /\ u[1] = g.ord[x]
  <2>1. g.ord[x] \in Names
    BY <1>2, <1>6
  <2> QED
    BY <1>6, <2>1
<1> HIDE DEF u
<1>8. /\ b \in Seq(Names) /\ Len(b) = Len(u) + Len(a)
      /\ \A i \in 1 .. Len(u) + Len(a) : b[i] = IF i <= Len(u) THEN u[i] ELSE a[i - Len(u)]
  <2>1. u \in Seq(Names) /\ a \in Seq(Names)
    BY <1>1, <1>7
  <2> QED
    BY ONLY <2>1, ConcatProperties
<1> HIDE DEF b, m, x
<1>9. Len(b) = n + 1 /\ \A i \in 1 .. n + 1 : b[i] = IF i = 1 THEN g.ord[x] ELSE a[i - 1]
  <2>1. Len(u) + Len(a) = n + 1
    BY <1>1, <1>7
  <2>2. \A i \in 1 .. n + 1 : b[i] = IF i <= 1 THEN u[i] ELSE a[i - 1]
    BY <1>7, <1>8, <2>1
  <2>3. \A i \in 1 .. n + 1 : i <= 1 <=> i = 1
    BY <1>1
  <2> QED
    BY <1>7, <1>8, <2>1, <2>2, <2>3
<1>10. \A i \in 1 .. n + 1 : i = 1 \/ (i # 1 /\ i - 1 \in 1 .. n)
  BY <1>1
<1>11. B \in [1 .. n + 1 -> 1 .. m]
  BY <1>1, <1>6, <1>10
<1>12. B[1] = x /\ \A i \in 1 .. n : B[i + 1] = A[i]
  <2>1. 1 \in 1 .. n + 1 /\ \A i \in 1 .. n : i + 1 \in 1 .. n + 1 /\ i + 1 # 1 /\ (i + 1) - 1 = i
    BY <1>1
  <2> QED
    BY <2>1
<1>13. \A i \in 1 .. n + 1 : i # 1 => B[i] = A[i - 1]
  OBVIOUS
<1> HIDE DEF B
<1>14. \A i \in 1 .. n + 1 : b[i] = g.ord[B[i]]
  <2> TAKE i \in 1 .. n + 1
  <2>1. CASE i = 1
    <3>1. b[1] = g.ord[x]
      BY <1>9, <2>1
    <3> QED
      BY <1>12, <2>1, <3>1
  <2>2. CASE i # 1
    <3>1. b[i] = a[i - 1] /\ B[i] = A[i - 1] /\ i - 1 \in 1 .. n
      BY <1>9, <1>10, <1>13, <2>2
    <3> QED
      BY <1>1, <3>1
  <2> QED
    BY <2>1, <2>2
<1>15. \A i \in 1 .. n : B[i] = g.par[B[i + 1]] /\ B[i + 1] # 1
  <2> TAKE i \in 1 .. n
  <2>1. CASE i = 1
    BY <1>3, <1>12, <2>1 DEF x
  <2>2. CASE i # 1
    <3>1. i - 1 \in 1 .. n - 1 /\ (i - 1) + 1 = i /\ i - 1 \in 1 .. n
      BY <1>1, <2>2
    <3>2. B[i] = A[i - 1] /\ B[i + 1] = A[i]
      BY <1>12, <3>1
    <3> QED
      BY <1>1, <3>1, <3>2
  <2> QED
    BY <2>1, <2>2
<1>16. \A i \in 1 .. n + 1 : g.dep[B[i]] + (n + 1) = g.dep[last] + i
  <2> TAKE i \in 1 .. n + 1
  <2> DEFINE D == g.dep[last]
  <2>0. D \in Nat /\ n \in Nat
    BY <1>1, <1>2 DEF m
  <2>1. CASE i = 1
    <3> DEFINE y == g.dep[x]  z == g.dep[A[1]]
    <3>1. z = y + 1 /\ z + n = D + 1 /\ y \in Nat
      BY <1>1, <1>2, <1>3, <1>6
    <3> HIDE DEF y, z, D
    <3>2. y + (n + 1) = D + 1
      BY <2>0, <3>1
    <3> QED
      BY <1>12, <2>1, <3>2 DEF y, D
  <2>2. CASE i # 1
    <3> DEFINE y == g.dep[A[i - 1]]
    <3>1. i - 1 \in 1 .. n
      BY <1>10, <2>2
    <3>2. y + n = D + (i - 1) /\ y \in Nat
      BY <1>1, <1>2, <3>1
    <3> HIDE DEF y, D
    <3>3. y + (n + 1) = D + i
      BY <2>0, <3>2
    <3> QED
      BY <1>13, <2>2, <3>3 DEF y, D
  <2> QED
    BY <2>1, <2>2
<1>17. B[n + 1] = last /\ n + 1 \in Nat \ {0} /\ (n + 1) - 1 = n
  BY <1>1, <1>3, <1>12
<1>18. Traced(g, b, B, n + 1, last)
  BY <1>8, <1>9, <1>11, <1>14, <1>15, <1>16, <1>17 DEF Traced, m
<1> QED
  BY <1>5, <1>18 DEF b, u

LEMMA BackTold ==
  ASSUME NEW from \in Names, NEW g, Tree(g, from), NEW st, Holds(st, g), NEW last \in 1 .. g.m
  PROVE  \E A : /\ A[1] = 1 /\ g.dep[last] \in Nat /\ g.dep[last] < Cardinality(Names)
                /\ Traced(g, Back(st.parent, from, g.ord[last]), A, g.dep[last] + 1, last)
<1> DEFINE N == Cardinality(Names)
           to == g.ord[last]
           first == <<to>>
           h == CHOOSE f : f = BackStep(st.parent, from, to, f)
           turn(a) == BackTurn(st.parent, from, a)
<1>n. N \in Nat
  BY NameCount
<1>1. Back(st.parent, from, to) = h[N]
  BY DEF Back, BackStep
<1>2. \A f : BackStep(st.parent, from, to, f) =
               [i \in 0 .. N |-> IF i = 0 THEN first ELSE turn(f[i - 1])]
  BY DEF BackStep, BackTurn
<1>f. first = <<to>>
  OBVIOUS
<1>t. \A a : turn(a) = BackTurn(st.parent, from, a)
  OBVIOUS
<1> HIDE DEF first, N, turn
<1>3. \E f : f = BackStep(st.parent, from, to, f)
  <2> DEFINE Unfolds(f, n) == /\ f = [d \in 0 .. n |-> f[d]] /\ f[0] = first
                              /\ \A d \in 1 .. n : f[d] = turn(f[d - 1])
             P == {n \in Nat : \E f : Unfolds(f, n)}
  <2>1. 0 \in P
    <3> DEFINE f == [d \in 0 .. 0 |-> first]
    <3>1. Unfolds(f, 0)
      OBVIOUS
    <3> QED
      BY <3>1
  <2>2. ASSUME NEW n \in Nat, n \in P PROVE n + 1 \in P
    <3>1. PICK f : Unfolds(f, n)
      BY <2>2
    <3> DEFINE e == [d \in 0 .. n + 1 |-> IF d = n + 1 THEN turn(f[n]) ELSE f[d]]
    <3>2. e[n + 1] = turn(f[n]) /\ \A d \in 0 .. n : e[d] = f[d]
      OBVIOUS
    <3>3. e = [d \in 0 .. n + 1 |-> e[d]]
      OBVIOUS
    <3> HIDE DEF e
    <3>4. e[0] = first
      BY <3>1, <3>2
    <3>5. ASSUME NEW d \in 1 .. n + 1 PROVE e[d] = turn(e[d - 1])
      <4>1. CASE d = n + 1
        <5>1. d - 1 = n /\ n \in 0 .. n
          BY <4>1
        <5> QED
          BY <3>2, <4>1, <5>1
      <4>2. CASE d # n + 1
        <5>1. d \in 1 .. n /\ d \in 0 .. n /\ d - 1 \in 0 .. n
          BY <4>2
        <5> QED
          BY <3>1, <3>2, <5>1
      <4> QED
        BY <4>1, <4>2
    <3>6. Unfolds(e, n + 1)
      BY <3>3, <3>4, <3>5
    <3>7. n + 1 \in Nat
      OBVIOUS
    <3> HIDE DEF Unfolds
    <3> QED
      BY <3>6, <3>7
  <2>3. N \in P
    <3>1. \A n \in Nat : n \in P => n + 1 \in P
      BY <2>2
    <3> HIDE DEF P
    <3> QED
      BY <1>n, <2>1, <3>1, NatSetInduction
  <2>4. PICK f : Unfolds(f, N)
    BY <2>3
  <2>5. \A d \in 0 .. N : f[d] = IF d = 0 THEN first ELSE turn(f[d - 1])
    <3> TAKE d \in 0 .. N
    <3>1. d # 0 => d \in 1 .. N
      BY <1>n
    <3> QED
      BY <2>4, <3>1
  <2> DEFINE e == [d \in 0 .. N |-> IF d = 0 THEN first ELSE turn(f[d - 1])]
  <2>7. BackStep(st.parent, from, to, f) = e
    BY <1>2
  <2>8. f = e
    BY <2>4, <2>5
  <2> HIDE DEF e
  <2> QED
    BY <2>7, <2>8
<1>4. h = BackStep(st.parent, from, to, h)
  BY <1>3
<1> HIDE DEF h
<1>5. \A d \in 0 .. N : h[d] = IF d = 0 THEN first ELSE turn(h[d - 1])
  BY <1>2, <1>4
<1> DEFINE P == {k \in Nat : k <= N =>
                   \E A, n : Traced(g, h[k], A, n, last) /\ (A[1] = 1 \/ n = k + 1)}
<1>6. 0 \in P
  <2>1. h[0] = <<to>>
    BY <1>5, <1>f, <1>n
  <2>2. \E A : Traced(g, <<to>>, A, 1, last)
    BY BackStarts
  <2>3. 0 + 1 = 1
    OBVIOUS
  <2> HIDE DEF to
  <2> QED
    BY <2>1, <2>2, <2>3
<1>7. ASSUME NEW k \in Nat, k \in P PROVE k + 1 \in P
  <2>1. SUFFICES ASSUME k + 1 <= N
                 PROVE  \E A, n : Traced(g, h[k + 1], A, n, last) /\ (A[1] = 1 \/ n = k + 1 + 1)
    OBVIOUS
  <2>2. k <= N /\ k + 1 \in 0 .. N /\ (k + 1) - 1 = k /\ k + 1 # 0
    BY <1>7, <1>n, <2>1
  <2>3. h[k + 1] = BackTurn(st.parent, from, h[k])
    BY <1>5, <1>t, <2>2
  <2>4. PICK A, n : Traced(g, h[k], A, n, last) /\ (A[1] = 1 \/ n = k + 1)
    BY <1>7, <2>2
  <2>5. CASE A[1] = 1
    <3>1. Head(h[k]) = g.ord[A[1]]
      <4> DEFINE a == h[k]
      <4>1. a \in Seq(Names) /\ Len(a) = n /\ n \in Nat \ {0} /\ \A i \in 1 .. n : a[i] = g.ord[A[i]]
        BY <2>4 DEF Traced
      <4> HIDE DEF a
      <4>2. a # <<>> /\ 1 \in 1 .. n
        BY <4>1, EmptySeq
      <4>3. Head(a) = a[1]
        BY <4>1, <4>2, HeadTailProperties
      <4>4. Head(a) = g.ord[A[1]]
        BY <4>1, <4>2, <4>3
      <4> QED
        BY <4>4 DEF a
    <3>2. Head(h[k]) = from
      BY <2>5, <3>1 DEF Tree
    <3>3. h[k + 1] = h[k]
      BY <2>3, <3>2 DEF BackTurn
    <3> QED
      BY <2>4, <2>5, <3>3
  <2>6. CASE A[1] # 1
    <3>1. /\ Head(h[k]) # from
          /\ \E B : Traced(g, <<st.parent[Head(h[k])]>> \o h[k], B, n + 1, last)
      BY <2>4, <2>6, BackKeeps
    <3>2. h[k + 1] = <<st.parent[Head(h[k])]>> \o h[k]
      BY <2>3, <3>1 DEF BackTurn
    <3>3. \E B : Traced(g, h[k + 1], B, n + 1, last)
      BY <3>1, <3>2
    <3>4. n + 1 = k + 1 + 1
      BY <2>4, <2>6
    <3> QED
      BY <3>3, <3>4
  <2> QED
    BY <2>5, <2>6
<1>8. N \in P
  <2>1. \A i \in Nat : i \in P => i + 1 \in P
    BY <1>7
  <2> HIDE DEF P
  <2> QED
    BY <1>6, <1>n, <2>1, NatSetInduction
<1>9. PICK A, n : Traced(g, h[N], A, n, last) /\ (A[1] = 1 \/ n = N + 1)
  BY <1>8, <1>n
<1>10. g.dep[last] \in Nat /\ g.dep[last] < N
  <2> DEFINE D == g.dep[last]  m == g.m
  <2>1. D \in Nat /\ D <= last - 1 /\ m \in Nat /\ m <= N /\ last \in 1 .. m
    BY TreeFits DEF Tree, N
  <2> HIDE DEF D, m
  <2>2. D < N
    BY <1>n, <2>1
  <2> QED
    BY <2>1, <2>2 DEF D
<1>11. 1 \in 1 .. n /\ A[1] \in 1 .. g.m /\ g.dep[A[1]] + n = g.dep[last] + 1 /\ n \in Nat \ {0}
  BY <1>9 DEF Traced
<1>12. A[1] = 1 /\ n = g.dep[last] + 1
  <2>1. g.dep[A[1]] \in Nat /\ (A[1] = 1 => g.dep[A[1]] = 0)
    BY <1>11 DEF Tree
  <2> DEFINE D == g.dep[last]  z == g.dep[A[1]]
  <2>2. D \in Nat /\ D < N /\ z \in Nat /\ z + n = D + 1 /\ n \in Nat /\ (A[1] = 1 => z = 0)
    BY <1>10, <1>11, <2>1
  <2> HIDE DEF D, z
  <2>3. n # N + 1
    BY <1>n, <2>2
  <2>4. A[1] = 1 => n = D + 1
    BY <2>2
  <2> QED
    BY <1>9, <2>3, <2>4 DEF D
<1> QED
  BY <1>1, <1>9, <1>10, <1>12 DEF N

(* What is less than h calls away has been followed, so what is at most h  *)
(* calls away has been met, no further than it is.                         *)
LEMMA NearMet ==
  ASSUME EdgesNamed, NEW from \in Names, NEW g, Tree(g, from), NEW h \in Nat,
         \A q \in 1 .. g.m : g.dep[q] < h => MetAll(g, q)
  PROVE  \A k \in 0 .. h : \A t : Within(from, t, k) =>
           \E j \in 1 .. g.m : g.ord[j] = t /\ g.dep[j] <= k
<1> DEFINE m == g.m
           P == {k \in Nat : k <= h => \A t : Within(from, t, k) =>
                                \E j \in 1 .. m : g.ord[j] = t /\ g.dep[j] <= k}
<1>1. /\ m \in Nat \ {0} /\ 1 \in 1 .. m /\ g.dep \in [1 .. m -> Nat] /\ g.par \in [1 .. m -> Nat]
      /\ g.ord[1] = from /\ g.dep[1] = 0
  BY DEF Tree
<1>2. 0 \in P
  <2>1. \A t : Within(from, t, 0) => t = from
    BY ChainAlone
  <2>2. g.dep[1] <= 0
    BY <1>1
  <2> HIDE DEF m
  <2> QED
    BY <1>1, <2>1, <2>2
<1>3. ASSUME NEW k \in Nat, k \in P PROVE k + 1 \in P
  <2>1. SUFFICES ASSUME k + 1 <= h, NEW t, Within(from, t, k + 1)
                 PROVE  \E j \in 1 .. m : g.ord[j] = t /\ g.dep[j] <= k + 1
    OBVIOUS
  <2>2. PICK u : Within(from, u, k) /\ t \in CalleesOf(u)
    BY <2>1, WithinGrows
  <2>3. k <= h /\ k < h
    BY <2>1
  <2>4. PICK q \in 1 .. m : g.ord[q] = u /\ g.dep[q] <= k
    BY <1>3, <2>2, <2>3
  <2>5. g.dep[q] \in Nat /\ g.dep[q] < h
    <3> DEFINE x == g.dep[q]
    <3>1. x \in Nat /\ x <= k
      BY <1>1, <2>4
    <3> HIDE DEF x
    <3>2. x < h
      BY <2>3, <3>1
    <3> QED
      BY <3>1, <3>2 DEF x
  <2>6. PICK j \in 1 .. m : g.ord[j] = t /\ g.par[j] <= q
    BY <2>2, <2>4, <2>5 DEF MetAll
  <2>7. g.dep[j] <= k + 1
    <3>1. CASE j = 1
      BY <1>1, <3>1
    <3>2. CASE j # 1
      <4>1. j \in 2 .. m
        BY <3>2
      <4>2. g.par[j] \in 1 .. g.p /\ g.dep[j] = g.dep[g.par[j]] + 1 /\ g.par[j] < j
        BY <4>1 DEF Tree
      <4> DEFINE x == g.par[j]
      <4>3. x \in 1 .. m
        <5>1. x \in 1 .. g.p /\ x < j
          BY <4>2
        <5> DEFINE p == g.p
        <5>2. p \in 0 .. m /\ m \in Nat /\ x \in 1 .. p
          BY <5>1 DEF Tree
        <5> HIDE DEF x, m, p
        <5> QED
          BY <5>2
      <4>4. g.dep[x] <= g.dep[q]
        BY <2>6, <4>3 DEF Tree
      <4> DEFINE y == g.dep[x]  z == g.dep[q]  v == g.dep[j]
      <4>5. y <= z /\ z <= k /\ v = y + 1 /\ y \in Nat /\ z \in Nat
        BY <1>1, <2>4, <2>5, <4>2, <4>3, <4>4
      <4> HIDE DEF y, z, v
      <4>6. v <= k + 1
        BY <4>5
      <4> QED
        BY <4>6 DEF v
    <3> QED
      BY <3>1, <3>2
  <2> QED
    BY <2>6, <2>7
<1>4. \A k \in Nat : k \in P
  <2>1. \A k \in Nat : k \in P => k + 1 \in P
    BY <1>3
  <2> HIDE DEF P
  <2> QED
    BY <1>2, <2>1, NatSetInduction
<1> QED
  BY <1>4

(* A name met earlier has what it calls met earlier, so no chain as short  *)
(* comes before the one that was traced.                                   *)
LEMMA FirstMet ==
  ASSUME EdgesNamed, NEW from \in Names, NEW g, Tree(g, from), NEW last \in 2 .. g.m,
         g.par[last] = g.p, \A q \in 1 .. g.p - 1 : MetAll(g, q),
         NEW a, NEW A, NEW n, Traced(g, a, A, n, last),
         NEW d, Chain(d, from), Len(d) = n, Last(d) = g.ord[last],
         NEW i \in 1 .. n, A[1] = 1, \A j \in 1 .. i - 1 : a[j] = d[j]
  PROVE  a[i] <= d[i]
<1> DEFINE m == g.m  p == g.p
<1>1. /\ n \in Nat \ {0} /\ A \in [1 .. n -> 1 .. m] /\ A[n] = last
      /\ \A k \in 1 .. n : a[k] = g.ord[A[k]]
      /\ \A k \in 1 .. n - 1 : A[k] = g.par[A[k + 1]] /\ A[k + 1] # 1
  BY DEF Traced
<1>2. /\ d \in [1 .. n -> Names] /\ d[1] = from /\ d[n] = g.ord[last]
      /\ \A k \in 1 .. n - 1 : d[k + 1] \in CalleesOf(d[k])
  BY ChainParts DEF Chain
<1>3. /\ m \in Nat \ {0} /\ p \in Nat /\ p <= m
      /\ g.ord \in [1 .. m -> Names] /\ g.par \in [1 .. m -> Nat]
  BY DEF Tree
<1>4. \A k \in 1 .. n : a[k] \in Nat /\ d[k] \in Nat
  BY <1>1, <1>2, <1>3, CodeGraphAssumption
<1>5. SUFFICES ASSUME d[i] < a[i] PROVE FALSE
  BY <1>4
<1>6. i # 1 /\ i # n
  <2>1. a[1] = from
    <3>1. 1 \in 1 .. n
      BY <1>1
    <3> QED
      BY <1>1, <3>1 DEF Tree
  <2>2. a[n] = g.ord[last]
    <3>1. n \in 1 .. n
      BY <1>1
    <3> QED
      BY <1>1, <3>1
  <2>3. d[i] # a[i]
    BY <1>4, <1>5
  <2> QED
    BY <1>2, <2>1, <2>2, <2>3
<1> HIDE DEF m, p
<1>7. /\ i - 1 \in 1 .. n - 1 /\ i - 1 \in 1 .. n /\ (i - 1) + 1 = i /\ i \in 1 .. n - 1
      /\ i + 1 \in 1 .. n
  BY <1>1, <1>6
<1>8. \A k \in 1 .. n - 1 : k \in 1 .. n /\ k + 1 \in 1 .. n
  BY <1>1
<1>9. \A k \in 1 .. n - 1 : A[k] <= p /\ A[k] \in Nat /\ A[k + 1] \in 2 .. m
  <2> TAKE k \in 1 .. n - 1
  <2> DEFINE y == A[k + 1]
  <2>1. A[k] = g.par[y] /\ y # 1 /\ y \in 1 .. m
    BY <1>1, <1>8
  <2> HIDE DEF y
  <2>2. y \in 2 .. m
    BY <1>3, <2>1
  <2>3. g.par[y] \in 1 .. p
    BY <2>2 DEF Tree, m, p
  <2> DEFINE x == g.par[y]
  <2>4. x \in 1 .. p
    BY <2>3
  <2> HIDE DEF x
  <2>5. x <= p /\ x \in Nat
    BY <1>3, <2>4
  <2> QED
    BY <2>1, <2>2, <2>5 DEF x, y
<1>10. ASSUME NEW x \in 1 .. m, NEW y \in 1 .. m, g.par[x] < g.par[y] PROVE x < y
  <2>1. y <= x => g.par[y] <= g.par[x]
    BY DEF Tree, m
  <2> DEFINE u == g.par[x]  v == g.par[y]
  <2>2. u \in Nat /\ v \in Nat /\ u < v /\ (y <= x => v <= u)
    BY <1>3, <1>10, <2>1
  <2> HIDE DEF u, v
  <2> QED
    BY <1>3, <2>2
<1> DEFINE Sooner(l) == \E b \in 1 .. m : g.ord[b] = d[l] /\ b < A[l]
<1>11. Sooner(i)
  <2> DEFINE e == A[i - 1]
  <2>1. e = g.par[A[i]] /\ A[i] \in 2 .. m /\ e \in Nat /\ e \in 1 .. m /\ g.ord[e] = a[i - 1]
    BY <1>1, <1>7, <1>9
  <2>2. e < p /\ e \in 1 .. p - 1
    <3>1. g.par[A[i]] < A[i]
      BY <2>1 DEF Tree, m
    <3>2. A[i] <= p
      BY <1>7, <1>9
    <3> DEFINE y == A[i]
    <3>3. e < y /\ y <= p /\ y \in 2 .. m
      BY <2>1, <3>1, <3>2
    <3>4. e \in 1 .. m
      BY <2>1
    <3> HIDE DEF e, y
    <3> QED
      BY <1>3, <3>3, <3>4
  <2>3. MetAll(g, e)
    BY <2>2 DEF p
  <2>4. d[i - 1] = g.ord[e] /\ d[i] \in CalleesOf(d[i - 1])
    <3>1. a[i - 1] = d[i - 1]
      BY <1>7
    <3> QED
      BY <1>2, <1>7, <2>1, <3>1
  <2>5. PICK b \in 1 .. m : g.ord[b] = d[i] /\ g.par[b] <= e
    BY <2>3, <2>4 DEF MetAll, m
  <2>6. b < A[i]
    <3>1. CASE g.par[b] < e
      <4>1. A[i] \in 1 .. m
        BY <1>1
      <4> QED
        BY <1>10, <2>1, <3>1, <4>1
    <3>2. CASE b = 1
      <4> DEFINE y == A[i]
      <4>1. y \in 2 .. m
        BY <2>1
      <4> HIDE DEF y
      <4>2. 1 < y
        BY <1>3, <4>1
      <4> QED
        BY <3>2, <4>2 DEF y
    <3>3. CASE b # 1 /\ g.par[b] = e
      <4> DEFINE y == A[i]
      <4>1. b \in 2 .. m /\ y \in 2 .. m /\ g.par[b] = g.par[y]
        BY <1>3, <2>1, <3>3
      <4>2. y < b => g.ord[y] < g.ord[b]
        BY <4>1 DEF Tree, m
      <4>3. g.ord[y] = a[i] /\ g.ord[b] = d[i]
        BY <1>1, <2>5
      <4>4. a[i] \in Nat /\ d[i] \in Nat /\ d[i] < a[i]
        BY <1>4, <1>5
      <4> HIDE DEF y
      <4>5. ~(y < b) /\ y # b
        BY <4>2, <4>3, <4>4
      <4>6. b < y
        BY <1>3, <4>1, <4>5
      <4> QED
        BY <4>6 DEF y
    <3>4. g.par[b] < e \/ g.par[b] = e
      <4> DEFINE x == g.par[b]
      <4>1. x \in Nat /\ e \in Nat /\ x <= e
        BY <1>3, <2>1, <2>5
      <4> HIDE DEF x, e
      <4>2. x < e \/ x = e
        BY <4>1
      <4> QED
        BY <4>2 DEF x
    <3> QED
      BY <3>1, <3>2, <3>3, <3>4
  <2> QED
    BY <2>5, <2>6
<1>12. ASSUME NEW l \in 1 .. n - 1, Sooner(l) PROVE Sooner(l + 1)
  <2>1. PICK b \in 1 .. m : g.ord[b] = d[l] /\ b < A[l]
    BY <1>12
  <2>2. A[l] <= p /\ A[l] \in Nat /\ A[l] = g.par[A[l + 1]] /\ A[l + 1] \in 1 .. m
    BY <1>1, <1>8, <1>9
  <2>3. b \in 1 .. p - 1
    <3> DEFINE y == A[l]
    <3>1. y <= p /\ y \in Nat /\ b < y
      BY <2>1, <2>2
    <3> HIDE DEF y
    <3> QED
      BY <1>3, <3>1
  <2>4. MetAll(g, b)
    BY <2>3 DEF p
  <2>5. d[l + 1] \in CalleesOf(g.ord[b])
    BY <1>2, <2>1
  <2>6. PICK c \in 1 .. m : g.ord[c] = d[l + 1] /\ g.par[c] <= b
    BY <2>4, <2>5 DEF MetAll, m
  <2>7. g.par[c] < g.par[A[l + 1]]
    <3> DEFINE x == g.par[c]  y == A[l]
    <3>1. x \in Nat /\ x <= b /\ b < y /\ y \in Nat
      BY <1>3, <2>1, <2>2, <2>6
    <3> HIDE DEF x, y
    <3>2. x < y
      BY <3>1
    <3> QED
      BY <2>2, <3>2 DEF x, y
  <2>8. c < A[l + 1]
    BY <1>10, <2>2, <2>7
  <2> QED
    BY <2>6, <2>8
<1> HIDE DEF Sooner
<1> DEFINE P == {k \in Nat : i + k <= n => Sooner(i + k)}
<1>13. 0 \in P
  BY <1>11
<1>14. ASSUME NEW k \in Nat, k \in P PROVE k + 1 \in P
  <2>1. SUFFICES ASSUME i + (k + 1) <= n PROVE Sooner(i + (k + 1))
    OBVIOUS
  <2>2. i + k \in 1 .. n - 1 /\ (i + k) + 1 = i + (k + 1) /\ i + k <= n
    BY <1>1, <2>1
  <2> QED
    BY <1>12, <1>14, <2>2
<1>15. Sooner(n)
  <2>1. \A k \in Nat : k \in P => k + 1 \in P
    BY <1>14
  <2> HIDE DEF P
  <2>2. \A k \in Nat : k \in P
    BY <1>13, <2>1, NatSetInduction
  <2>3. n - i \in Nat /\ i + (n - i) = n /\ i + (n - i) <= n
    BY <1>1
  <2> QED
    BY <2>2, <2>3 DEF P
<1>16. PICK b \in 1 .. m : g.ord[b] = d[n] /\ b < A[n]
  BY <1>15 DEF Sooner
<1>17. last \in 1 .. m /\ last \in Int
  BY <1>3 DEF m
<1>18. b = last
  BY <1>2, <1>16, <1>17 DEF Tree, m
<1> QED
  BY <1>1, <1>16, <1>17, <1>18

(* The way back is a chain of calls.                                       *)
LEMMA TracedLeads ==
  ASSUME NEW from, NEW g, Tree(g, from), NEW last \in 1 .. g.m, NEW a, NEW A, NEW k \in Nat,
         Traced(g, a, A, k + 1, last), A[1] = 1
  PROVE  Leads(a, from, g.ord[last], k)
<1> DEFINE m == g.m
<1>1. /\ A \in [1 .. k + 1 -> 1 .. m] /\ a \in Seq(Names) /\ Len(a) = k + 1
      /\ \A i \in 1 .. k + 1 : a[i] = g.ord[A[i]]
      /\ A[k + 1] = last
      /\ \A i \in 1 .. (k + 1) - 1 : A[i] = g.par[A[i + 1]] /\ A[i + 1] # 1
  BY DEF Traced
<1>2. (k + 1) - 1 = k /\ 1 \in 1 .. k + 1 /\ k + 1 \in 1 .. k + 1 /\ k + 1 \in Nat \ {0}
  OBVIOUS
<1>3. a[1] = from
  BY <1>1, <1>2 DEF Tree
<1>4. Last(a) = g.ord[last]
  BY <1>1, <1>2 DEF Last
<1>5. ASSUME NEW i \in 1 .. k PROVE a[i + 1] \in CalleesOf(a[i])
  <2>1. i \in 1 .. k + 1 /\ i + 1 \in 1 .. k + 1
    OBVIOUS
  <2> DEFINE y == A[i + 1]
  <2>2. y \in 1 .. m /\ y # 1 /\ A[i] = g.par[y]
    BY <1>1, <1>2, <2>1
  <2>3. y \in 2 .. m
    <3>1. m \in Nat
      BY DEF Tree
    <3> HIDE DEF y, m
    <3> QED
      BY <2>2, <3>1
  <2>4. g.ord[y] \in CalleesOf(g.ord[g.par[y]])
    BY <2>3 DEF Tree
  <2>5. a[i + 1] = g.ord[y] /\ a[i] = g.ord[A[i]]
    BY <1>1, <2>1
  <2> HIDE DEF y
  <2> QED
    BY <2>2, <2>4, <2>5
<1>6. Chain(a, from)
  BY <1>1, <1>2, <1>3, <1>5 DEF Chain
<1> QED
  BY <1>1, <1>4, <1>6 DEF Leads

(* The blast radius and the call path between two functions.               *)
LEMMA ChainsTold ==
  ASSUME EdgesNamed, NEW s \in Names, NEW t \in Names \ {s},
         NEW limit \in 0 .. Cardinality(Names)
  PROVE  ChainsRight(s, t, limit, Chains(s))
<1> DEFINE N == Cardinality(Names)
           lim == IF limit = 0 THEN N ELSE limit
           W == {c \in Chains(s) : Last(c) = t /\ (limit > 0 => Len(c) - 1 <= limit)}
           depths == {v[2] : v \in {v \in Impact(t, limit) : v[1] = s}}
           path == CallPath(s, t, limit)
<1>n. N \in Nat /\ limit \in Nat /\ lim \in Nat /\ lim <= N /\ limit <= N
  BY NameCount
<1>l. (limit = 0 => lim = N) /\ (limit # 0 => lim = limit)
  OBVIOUS
<1>i. Impact(t, limit) = Around(t, lim)
  BY <1>n, ImpactTold
<1> HIDE DEF lim, N
<1>1. \A c : c \in W <=> \E k \in 0 .. lim : Leads(c, s, t, k)
  <2> TAKE c
  <2>1. c \in Chains(s) <=> Chain(c, s) /\ Len(c) <= N + 1
    BY ChainsAre DEF N
  <2>2. ASSUME c \in W PROVE \E k \in 0 .. lim : Leads(c, s, t, k)
    <3>1. Chain(c, s) /\ Len(c) <= N + 1 /\ Last(c) = t /\ (limit > 0 => Len(c) - 1 <= limit)
      BY <2>1, <2>2
    <3>2. Len(c) \in Nat \ {0}
      BY <3>1 DEF Chain
    <3> DEFINE l == Len(c)
    <3>3. l \in Nat \ {0} /\ l <= N + 1 /\ (limit > 0 => l - 1 <= limit)
      BY <3>1, <3>2
    <3> HIDE DEF l
    <3>4. l - 1 \in 0 .. lim /\ (l - 1) + 1 = l
      BY <1>n, <1>l, <3>3
    <3>5. Leads(c, s, t, l - 1)
      BY <3>1, <3>4 DEF Leads, l
    <3> QED
      BY <3>4, <3>5
  <2>3. ASSUME NEW k \in 0 .. lim, Leads(c, s, t, k) PROVE c \in W
    <3>1. Chain(c, s) /\ Last(c) = t /\ Len(c) = k + 1
      BY <2>3 DEF Leads
    <3>2. k + 1 <= N + 1 /\ (limit > 0 => (k + 1) - 1 <= limit)
      BY <1>n, <1>l
    <3>3. c \in Chains(s)
      BY <2>1, <3>1, <3>2
    <3> QED
      BY <3>1, <3>2, <3>3
  <2> HIDE DEF W
  <2> QED
    BY <2>2, <2>3
<1>2. \A x : x \in depths <=> x \in 1 .. lim /\ Nearest(s, t, x)
  <2>1. \A v : v \in Around(t, lim) <=> \E k \in 1 .. lim : \E n \in AtDistance(t, k) : v = <<n, k>>
    BY DEF Around
  <2>2. \A k : s \in AtDistance(t, k) <=> Nearest(s, t, k)
    BY DEF AtDistance
  <2>3. \A x : x \in depths <=> \E v \in Around(t, lim) : v[1] = s /\ v[2] = x
    BY <1>i
  <2> HIDE DEF depths
  <2> TAKE x
  <2>4. ASSUME x \in depths PROVE x \in 1 .. lim /\ Nearest(s, t, x)
    <3>1. PICK v \in Around(t, lim) : v[1] = s /\ v[2] = x
      BY <2>3, <2>4
    <3>2. PICK k \in 1 .. lim : \E n \in AtDistance(t, k) : v = <<n, k>>
      BY <2>1
    <3>3. PICK n \in AtDistance(t, k) : v = <<n, k>>
      BY <3>2
    <3>4. n = s /\ k = x
      BY <3>1, <3>3
    <3> QED
      BY <2>2, <3>3, <3>4
  <2>5. ASSUME x \in 1 .. lim, Nearest(s, t, x) PROVE x \in depths
    <3>1. <<s, x>> \in Around(t, lim)
      BY <2>1, <2>2, <2>5
    <3> QED
      BY <2>3, <3>1
  <2> QED
    BY <2>4, <2>5
<1>3. PICK end, g :
        /\ path = IF end.found THEN Back(end.parent, s, t) ELSE <<>>
        /\ Tree(g, s) /\ Holds(end, g)
        /\ Met(end, g, t, limit) \/ (Going(end, g, t, limit) /\ g.p = g.m)
  BY <1>n, SearchEnds
<1> SUFFICES IF W = {} THEN depths = {} /\ path = <<>>
             ELSE /\ path \in Shortest(W) /\ FirstInOrder(path, Shortest(W))
                  /\ depths = {Len(path) - 1}
  BY DEF ChainsRight
<1> HIDE DEF W, depths, path
<1>4. CASE Going(end, g, t, limit) /\ g.p = g.m
  <2>1. \A q \in 1 .. g.m : g.dep[q] < lim => MetAll(g, q)
    <3> TAKE q \in 1 .. g.m
    <3>1. ASSUME g.dep[q] < lim PROVE Looks(g, q, limit)
      BY <1>l, <3>1 DEF Looks
    <3> QED
      BY <1>4, <3>1 DEF Going
  <2>2. \A k \in 0 .. lim : ~Within(s, t, k)
    <3>1. \A k \in 0 .. lim : Within(s, t, k) => \E j \in 1 .. g.m : g.ord[j] = t /\ g.dep[j] <= k
      BY <1>3, <1>n, <2>1, NearMet
    <3> QED
      BY <1>4, <3>1 DEF Going
  <2>3. W = {}
    BY <1>1, <2>2 DEF Within
  <2>4. depths = {}
    <3>1. \A x \in 1 .. lim : x \in 0 .. lim
      OBVIOUS
    <3> QED
      BY <1>2, <2>2, <3>1 DEF Nearest
  <2>5. path = <<>>
    BY <1>3, <1>4 DEF Going
  <2> QED
    BY <2>3, <2>4, <2>5
<1>5. CASE Met(end, g, t, limit)
  <2>1. PICK last \in 2 .. g.m : g.ord[last] = t /\ g.par[last] = g.p
    BY <1>5 DEF Met
  <2>2. last \in 1 .. g.m
    BY <2>1
  <2> DEFINE K == g.dep[last]
             x == g.dep[g.p]
  <2>3. path = Back(end.parent, s, g.ord[last])
    BY <1>3, <1>5, <2>1 DEF Met
  <2>4. PICK A : A[1] = 1 /\ K \in Nat /\ K < N /\ Traced(g, path, A, K + 1, last)
    BY <1>3, <2>2, <2>3, BackTold DEF N
  <2>5. g.p \in 1 .. g.m /\ x \in Nat /\ K = x + 1
    <3>1. g.par[last] \in 1 .. g.p /\ g.par[last] < last /\ g.dep[last] = g.dep[g.par[last]] + 1
      BY <1>3, <2>1 DEF Tree
    <3>2. g.m \in Nat \ {0} /\ g.p \in 0 .. g.m /\ g.dep \in [1 .. g.m -> Nat]
      BY <1>3 DEF Tree
    <3>3. g.p \in 1 .. g.m
      <4> DEFINE p == g.p  m == g.m
      <4>1. p \in 1 .. p /\ p \in 0 .. m
        BY <2>1, <3>1, <3>2
      <4> HIDE DEF p, m
      <4>2. p \in 1 .. m
        BY <4>1
      <4> QED
        BY <4>2 DEF p, m
    <3> QED
      BY <2>1, <3>1, <3>2, <3>3
  <2>6. limit = 0 \/ x < limit
    BY <1>5 DEF Met, Looks
  <2>7. Leads(path, s, t, K)
    BY <1>3, <2>1, <2>2, <2>4, TracedLeads
  <2>8. ASSUME NEW k \in Nat, Within(s, t, k) PROVE K <= k
    <3>1. ASSUME NEW q \in 1 .. g.m, g.dep[q] < x PROVE MetAll(g, q)
      <4>1. g.p <= q => g.dep[g.p] <= g.dep[q]
        BY <1>3, <2>5 DEF Tree
      <4>2. g.dep[q] \in Nat
        BY <1>3 DEF Tree
      <4> DEFINE y == g.dep[q]  p == g.p  m == g.m
      <4>3. y \in Nat /\ x \in Nat /\ y < x /\ (p <= q => x <= y) /\ p \in 1 .. m /\ q \in 1 .. m
        BY <2>5, <3>1, <4>1, <4>2
      <4> HIDE DEF x, y, p, m
      <4>4. q \in 1 .. p - 1
        BY <4>3
      <4> QED
        BY <1>5, <4>4 DEF Met, p
    <3>2. \A j \in 0 .. x : Within(s, t, j) => \E i \in 1 .. g.m : g.ord[i] = t /\ g.dep[i] <= j
      <4> HIDE DEF x
      <4> QED
        BY <1>3, <2>5, <3>1, NearMet
    <3>3. \A i \in 1 .. g.m : g.ord[i] = t => i = last
      BY <1>3, <2>1, <2>2 DEF Tree
    <3>4. k \in 0 .. x => K <= k
      BY <2>8, <3>2, <3>3
    <3> HIDE DEF x, K
    <3> QED
      BY <2>4, <2>5, <3>4
  <2> HIDE DEF K, x
  <2>9. K \in 1 .. lim
    BY <1>n, <1>l, <2>4, <2>5, <2>6
  <2>10. path \in W
    <3>1. K \in 0 .. lim
      BY <2>9
    <3> QED
      BY <1>1, <2>7, <3>1
  <2>11. Len(path) = K + 1 /\ (K + 1) - 1 = K
    BY <2>4, <2>7 DEF Leads
  <2>12. \A c \in W : K + 1 <= Len(c)
    <3> TAKE c \in W
    <3>1. PICK k \in 0 .. lim : Leads(c, s, t, k)
      BY <1>1
    <3>2. Within(s, t, k) /\ Len(c) = k + 1
      BY <3>1 DEF Within, Leads
    <3>3. K <= k
      BY <2>8, <3>2
    <3> QED
      BY <2>4, <3>2, <3>3
  <2>13. path \in Shortest(W)
    BY <2>10, <2>11, <2>12 DEF Shortest
  <2>14. FirstInOrder(path, Shortest(W))
    <3> SUFFICES ASSUME NEW d \in Shortest(W), NEW i \in DOMAIN path,
                        \A j \in 1 .. i - 1 : path[j] = d[j]
                 PROVE  path[i] <= d[i]
      BY DEF FirstInOrder
    <3>1. d \in W /\ Len(d) <= K + 1 /\ K + 1 <= Len(d)
      BY <2>10, <2>11, <2>12 DEF Shortest
    <3>2. PICK k \in 0 .. lim : Leads(d, s, t, k)
      BY <1>1, <3>1
    <3>3. Chain(d, s) /\ Last(d) = g.ord[last] /\ Len(d) = K + 1
      <4>1. Chain(d, s) /\ Last(d) = t /\ Len(d) = k + 1
        BY <3>2 DEF Leads
      <4> DEFINE l == Len(d)
      <4>2. l <= K + 1 /\ K + 1 <= l /\ l = k + 1
        BY <3>1, <4>1
      <4> HIDE DEF l
      <4>3. l = K + 1
        BY <2>4, <4>2
      <4> QED
        BY <2>1, <4>1, <4>3 DEF l
    <3>4. i \in 1 .. K + 1
      <4>1. Chain(path, s)
        BY <2>7 DEF Leads
      <4> QED
        BY <2>11, <4>1, ChainParts
    <3>5. \A q \in 1 .. g.p - 1 : MetAll(g, q)
      BY <1>5 DEF Met
    <3>6. /\ Tree(g, s) /\ g.par[last] = g.p
          /\ Traced(g, path, A, K + 1, last) /\ A[1] = 1
      BY <1>3, <2>1, <2>4
    <3>7. \A j \in 1 .. i - 1 : path[j] = d[j]
      OBVIOUS
    <3> QED
      BY ONLY EdgesNamed, s \in Names, last \in 2 .. g.m, <3>3, <3>4, <3>5, <3>6, <3>7, FirstMet
  <2>15. depths = {Len(path) - 1}
    <3>1. Nearest(s, t, K)
      BY <2>7, <2>8 DEF Nearest, Within
    <3>2. ASSUME NEW y \in 1 .. lim, Nearest(s, t, y) PROVE y = K
      <4>1. K <= y /\ y <= K
        BY <2>4, <2>8, <3>1, <3>2 DEF Nearest
      <4> QED
        BY <2>4, <4>1
    <3>3. \A y : y \in depths <=> y = K
      BY <1>2, <2>9, <3>1, <3>2
    <3> QED
      BY <2>11, <3>3
  <2> QED
    BY <2>10, <2>13, <2>14, <2>15
<1> QED
  BY <1>3, <1>4, <1>5

(* Whatever tree a graph is built from, its calls are between names.       *)
GraphTyped ==
  files \in SourceTrees /\ results \subseteq DOMAIN files /\ unbuilt \subseteq results /\ EdgesNamed

THEOREM GraphChains == GraphSpec => []CallsExact
<1>1. GraphInit => GraphTyped
  BY DEF GraphInit, GraphStart, GraphTyped, EdgesNamed
<1>2. GraphTyped /\ [BuildNext]_graphVars => GraphTyped'
  <2> SUFFICES ASSUME GraphTyped, [BuildNext]_graphVars PROVE GraphTyped'
    OBVIOUS
  <2>1. CASE UNCHANGED graphVars
    BY <2>1 DEF graphVars, indexVars, GraphTyped, EdgesNamed
  <2>2. ASSUME NEW p \in unbuilt, AddFile(p) PROVE GraphTyped'
    <3>1. CallEdges(files[p]) \subseteq Names \X Names
      BY CodeGraphAssumption DEF GraphTyped
    <3> QED
      BY <2>2, <3>1 DEF AddFile, GraphTyped, EdgesNamed
  <2> QED
    BY <2>1, <2>2 DEF BuildNext
<1>3. GraphTyped => CallsExact
  BY ChainsTold DEF GraphTyped, CallsExact
<1> QED
  BY <1>1, <1>2, <1>3, PTL DEF GraphSpec
=============================================================================
