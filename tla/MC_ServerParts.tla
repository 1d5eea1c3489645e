--------------------------- MODULE MC_ServerParts ---------------------------
(* The parts of a server that run concurrently and do not meet in the      *)
(* models of the others: each behaviour runs one of them, with the others  *)
(* at rest in their first state.                                           *)
EXTENDS IndexOpen, PeerRegistry, EventBus, DecodeSlots, Server, WatchTree, FindMatches, TLC

CONSTANTS
  p1, p2, p3,                                           \* IndexOpen
  rt, da, db, ig, fe, sc, ff,                            \* WatchTree
  d1, d2, d3                                            \* FindMatches

VARIABLE part

(* Two binaries of one schema and one of another.                          *)
MCBuildOf == p1 :> "b1" @@ p2 :> "b1" @@ p3 :> "b2"

(* With and without a dashboard, warmers, watcher and a bbolt file.        *)
SomeRuns == {{"monitor", "warm", "watch"}, {"watch", "memory"}}

(* A root with two nested directories and an ignored one, and a second     *)
(* root that is a single file.                                             *)
MCParent == rt :> rt @@ da :> rt @@ db :> da @@ ig :> rt @@ fe :> da @@ sc :> sc @@ ff :> sc
TwoRoots == <<rt, ff>>

(* A file with more matches than the cap of two, one with a line that is   *)
(* too long, and an empty one.                                             *)
ThreeTexts ==
  d1 :> <<"hit", "hit", "plain", "hit">> @@ d2 :> <<"plain", "hit", "long", "hit">> @@ d3 :> <<>>

Init ==
  /\ part \in {"open", "peers", "bus", "decode", "server", "tree", "grep"}
  /\ IF part = "open" THEN OpenInit ELSE OpenStart(None)
  /\ RegInit
  /\ BusInit
  /\ SlotInit
  /\ IF part = "server" THEN SrvInit ELSE SrvStart({"watch", "memory"})
  /\ IF part = "tree" THEN TreeInit ELSE TreeStart(RootSet \cup {sc}, FALSE)
  /\ GrepInit

Next ==
  /\ IF part = "open" THEN OpenNext ELSE UNCHANGED openVars
  /\ IF part = "peers" THEN RegNext ELSE UNCHANGED regVars
  /\ IF part = "bus" THEN BusNext ELSE UNCHANGED busVars
  /\ IF part = "decode" THEN SlotNext ELSE UNCHANGED slotVars
  /\ IF part = "server" THEN SrvNext ELSE UNCHANGED srvVars
  /\ IF part = "tree" THEN TreeNext ELSE UNCHANGED treeWatchVars
  /\ IF part = "grep" THEN GrepNext ELSE UNCHANGED grepVars
  /\ UNCHANGED part

(* What Go and the code's own timers run: processes that open the index,   *)
(* registrations and scans under way, tool calls, fan-outs and watchers of *)
(* subscriptions, timeouts and quick decodes, the command, the dashboard,  *)
(* the holder of its mutex and the index watcher, the watch loop, a grep   *)
(* and its workers.  Nothing makes a browser read or leave, a stuck decode *)
(* return, or a process live on.                                           *)
Fairness ==
  /\ \A p \in Procs : WF_openVars(part = "open" /\ OpenStep(p))
  /\ \A p \in Pids : /\ WF_regVars(part = "peers" /\ (CreateEntry(p) \/ WriteEntry(p)))
                     /\ WF_regVars(part = "peers" /\ ScanStep(p))
  /\ \A x \in Calls : WF_busVars(part = "bus" /\ CallStep(x))
  /\ \A s \in Streams : /\ WF_busVars(part = "bus" /\ FanStep(s))
                        /\ WF_busVars(part = "bus" /\ Unsubscribe(s))
  /\ \A x \in Readers : WF_slotVars(part = "decode" /\ (Take(x) \/ TimeUp(x)))
  /\ \A i \in Slots : /\ WF_slotVars(part = "decode" /\ Decode(i))
                      /\ WF_slotVars(part = "decode" /\ Release(i))
  /\ WF_srvVars(part = "server" /\ MainStep)
  /\ WF_srvVars(part = "server" /\ ServeStep)
  /\ \A t \in Tools : WF_srvVars(part = "server" /\ Started(t))
  /\ WF_srvVars(part = "server" /\ Put("watch"))
  /\ WF_srvVars(part = "server" /\ Done("watch"))
  /\ WF_treeWatchVars(part = "tree" /\ WatchStep)
  /\ WF_grepVars(part = "grep" /\ FeedStep)
  /\ \A w \in Scanners : WF_grepVars(part = "grep" /\ MatchStep(w))

Spec ==
  /\ Init
  /\ [][Next]_<<openVars, regVars, busVars, slotVars, srvVars, treeWatchVars, grepVars, part>>
  /\ Fairness

(* Each part comes to rest, or back to where it was, by what Go and the    *)
(* code's own timers run: an index is opened, scans heal the registry,     *)
(* tool calls and lookups return, browsers that have gone are dropped, the *)
(* server exits, the watcher catches up, the grep returns.                 *)
PartsSettle ==
  /\ part = "open" => OpenSettles
  /\ part = "peers" => DeadPruned
  /\ part = "bus" => RecordReturns /\ GoneUnsubscribed
  /\ part = "decode" => LookupReturns /\ SlotsComeBack
  /\ part = "server" => ServerExits
  /\ part = "tree" => CatchesUp
  /\ part = "grep" => GrepReturns
=============================================================================
