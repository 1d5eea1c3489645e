------------------------------- MODULE Server -------------------------------
(***************************************************************************)
(* One MCP server process from start to exit: the command                  *)
(* (cmd/file-search-on/mcp_cmd.go), its warmers (warm.go), the index       *)
(* watcher it joins, and the dashboard it may start early or late          *)
(* (internal/monitor: controller.go, server.go).                           *)
(*                                                                         *)
(* The command returns through a stack of deferred calls: stop and join    *)
(* the watcher, cancel the context, wait for the dashboard, close the      *)
(* index.  Warm goroutines and tool calls are not in that stack.  A Put    *)
(* on a closed bbolt index sends on a closed channel, which ends the       *)
(* process with a panic; the in-memory index has nothing to close.         *)
(***************************************************************************)
EXTENDS Integers, FiniteSets

CONSTANTS
  Tools,    \* goroutines of tool calls
  Posts,    \* requests to /api/cache/warm-*
  Browsers, \* browsers on /api/stream
  Runs,     \* sets of options switched on: "monitor", "warm", "watch", "memory"
  NoHolder  \* holder of a free mutex

ASSUME ServerAssumption ==
  /\ Runs \subseteq SUBSET {"monitor", "warm", "watch", "memory"}
  /\ {"main", "warm", "watch"} \cap (Tools \cup Posts) = {}
  /\ NoHolder \notin Tools \cup {"main"}

VARIABLES
  on,      \* the options of this run
  main,    \* where the command is
  ctx,     \* its cancellable context: "live" or "done"
  index,   \* "open" or "closed"
  user,    \* each goroutine that may Put: "off", "idle", "putting", "done"
  stopped, \* the watcher's own context is cancelled
  cmu,     \* holder of the controller's mutex
  dash,    \* the dashboard's serve goroutine
  known,   \* the done channel Wait has read: "unread", "nil", "set"
  registered,  \* the instance is in the peer registry
  streams, \* open streams
  post,    \* each warm request and its goroutine
  warming  \* Server.warming: "idle" or "inflight"

srvVars == <<on, main, ctx, index, user, stopped, cmu, dash, known,
             registered, streams, post, warming>>

mainVars == <<on, main, ctx, index>>
useVars == <<user, stopped>>
dashVars == <<cmu, dash, known, registered>>
webVars == <<streams, post, warming>>

Users == Tools \cup Posts \cup {"warm", "watch"}
MainStages == {"monitor", "launch", "serving", "returned", "joined", "cancelled", "drained"}
Over == {"exited", "panicked"}
Up == main \notin Over

SrvStart(options) ==
  /\ on = options
  /\ main = "monitor" /\ ctx = "live" /\ index = "open"
  /\ user = [u \in Users |-> IF u \in Tools THEN "idle" ELSE "off"]
  /\ stopped = FALSE
  /\ cmu = NoHolder /\ dash = "off" /\ known = "unread" /\ registered = FALSE
  /\ streams = {}
  /\ post = [q \in Posts |-> "idle"]
  /\ warming = "idle"

SrvInit == \E options \in Runs : SrvStart(options)

-----------------------------------------------------------------------------
(* Controller.EnsureStarted: under its mutex, until the dashboard is in    *)
(* the registry.  A failed bind leaves nothing behind.                     *)
Bind(c) ==
  /\ cmu = NoHolder /\ dash = "off"
  /\ cmu' = c /\ dash' = "bound"
  /\ UNCHANGED <<known, registered>>

Ensure(c) ==
  \/ Bind(c)
  \/ cmu = NoHolder /\ UNCHANGED dashVars \* it runs already, or the port is taken

(* <-srv.Ready(), then the mutex is released.                              *)
Started(c) ==
  /\ Up /\ cmu = c /\ dash # "bound"
  /\ cmu' = NoHolder
  /\ UNCHANGED <<mainVars, useVars, dash, known, registered, webVars>>

-----------------------------------------------------------------------------
(* The command.                                                            *)
StartMonitor ==
  /\ main = "monitor"
  /\ IF "monitor" \in on THEN Ensure("main") ELSE UNCHANGED dashVars
  /\ main' = "launch"
  /\ UNCHANGED <<on, ctx, index, useVars, webVars>>

(* The warm goroutines and the watcher; then the transport serves.         *)
LaunchAll ==
  /\ main = "launch" /\ cmu # "main"
  /\ user' = [user EXCEPT !["warm"] = IF "warm" \in on THEN "idle" ELSE "off",
                          !["watch"] = IF "watch" \in on THEN "idle" ELSE "off"]
  /\ main' = "serving"
  /\ UNCHANGED <<on, ctx, index, stopped, dashVars, webVars>>

(* The client closes the transport, or a signal cancels the context.  HTTP *)
(* transports give their calls five seconds, so calls may outlive them.    *)
Return ==
  /\ main = "serving" /\ main' = "returned"
  /\ ctx' \in {"live", "done"}
  /\ UNCHANGED <<on, index, useVars, dashVars, webVars>>

WatcherDone == user["watch"] \in {"off", "done"}

(* cancelWatch(); <-watchDone.                                             *)
StopWatch ==
  /\ main = "returned" /\ ~stopped /\ stopped' = TRUE
  /\ UNCHANGED <<mainVars, user, dashVars, webVars>>

JoinWatch ==
  /\ main = "returned" /\ stopped /\ WatcherDone
  /\ main' = "joined"
  /\ UNCHANGED <<on, ctx, index, useVars, dashVars, webVars>>

CancelMonitor ==
  /\ main = "joined" /\ main' = "cancelled" /\ ctx' = "done"
  /\ UNCHANGED <<on, index, useVars, dashVars, webVars>>

(* Controller.Wait: the channel is read under the mutex, then waited for.  *)
ReadDone ==
  /\ main = "cancelled" /\ known = "unread" /\ cmu = NoHolder
  /\ known' = IF dash = "off" THEN "nil" ELSE "set"
  /\ UNCHANGED <<mainVars, useVars, cmu, dash, registered, webVars>>

Waited_NotDone == known # "unread"
Waited == known = "nil" \/ (known = "set" /\ dash = "done")

Wait ==
  /\ main = "cancelled" /\ Waited
  /\ main' = "drained"
  /\ UNCHANGED <<on, ctx, index, useVars, dashVars, webVars>>

CloseIndex ==
  /\ main = "drained" /\ index = "open" /\ index' = "closed"
  /\ UNCHANGED <<on, main, ctx, useVars, dashVars, webVars>>

Exit ==
  /\ main = "drained" /\ index = "closed" /\ main' = "exited"
  /\ UNCHANGED <<on, ctx, index, useVars, dashVars, webVars>>

MainStep ==
  \/ StartMonitor \/ Started("main") \/ LaunchAll \/ StopWatch \/ JoinWatch
  \/ CancelMonitor \/ ReadDone \/ Wait \/ CloseIndex \/ Exit

-----------------------------------------------------------------------------
(* Everything that writes to the index: the context is checked between two *)
(* files, never between the check and the Put.                             *)
SeesCancel(u) ==
  CASE u = "watch" -> stopped \/ ctx = "done"
    [] u = "warm" -> ctx = "done"
    [] OTHER -> FALSE

BeginPut(u) ==
  /\ Up /\ user[u] = "idle" /\ ~SeesCancel(u)
  /\ user' = [user EXCEPT ![u] = "putting"]
  /\ UNCHANGED <<mainVars, stopped, dashVars, webVars>>

PutPanics == index = "closed" /\ "memory" \notin on

Put(u) ==
  /\ Up /\ user[u] = "putting"
  /\ user' = [user EXCEPT ![u] = "idle"]
  /\ main' = IF PutPanics THEN "panicked" ELSE main
  /\ UNCHANGED <<on, ctx, index, stopped, dashVars, webVars>>

(* The walk ends, or has seen that its context is done.                    *)
Done(u) ==
  /\ Up /\ user[u] = "idle" /\ u \in {"warm", "watch"} /\ (u = "watch" => SeesCancel(u))
  /\ user' = [user EXCEPT ![u] = "done"]
  /\ UNCHANGED <<mainVars, stopped, dashVars, webVars>>

(* monitor_info with enable=true, from any tool call.                      *)
MonitorInfo(t) ==
  /\ Up /\ main # "monitor" /\ user[t] = "idle" /\ Ensure(t)
  /\ UNCHANGED <<mainVars, useVars, webVars>>

-----------------------------------------------------------------------------
(* Server.Serve: register, serve until the context is done, shut down,     *)
(* deregister.  Registration may fail, which only hides the instance.      *)
Register ==
  /\ Up /\ dash = "bound" /\ dash' = "serving"
  /\ registered' \in BOOLEAN
  /\ UNCHANGED <<mainVars, useVars, cmu, known, webVars>>

Shutdown ==
  /\ Up /\ dash = "serving" /\ ctx = "done" /\ dash' = "shutting"
  /\ UNCHANGED <<mainVars, useVars, cmu, known, registered, webVars>>

ServeReturns ==
  /\ dash' = "done" /\ registered' = FALSE
  /\ UNCHANGED <<mainVars, useVars, cmu, known, webVars>>

(* http.Server.Shutdown waits for the open streams, which do not see ctx,  *)
(* and gives up after five seconds.                                        *)
Drained == Up /\ dash = "shutting" /\ streams = {} /\ ServeReturns
ShutdownTimesOut == Up /\ dash = "shutting" /\ streams # {} /\ ServeReturns

OpenStream(s) ==
  /\ Up /\ dash = "serving" /\ s \notin streams
  /\ streams' = streams \cup {s}
  /\ UNCHANGED <<mainVars, useVars, dashVars, post, warming>>

CloseStream(s) ==
  /\ Up /\ s \in streams /\ streams' = streams \ {s}
  /\ UNCHANGED <<mainVars, useVars, dashVars, post, warming>>

ServeStep == Register \/ Shutdown \/ Drained \/ ShutdownTimesOut

-----------------------------------------------------------------------------
(* startWarm: the check and the store of the in-flight state are one       *)
(* critical section; the goroutine has a context of its own and stores the *)
(* idle state when the warm function has returned.                         *)
MayCheck == \A q \in Posts : post[q] # "checked"

CheckWarm(q) ==
  /\ Up /\ dash = "serving" /\ post[q] = "idle" /\ MayCheck
  /\ post' = [post EXCEPT ![q] = IF warming = "idle" THEN "checked" ELSE "idle"]
  /\ UNCHANGED <<mainVars, useVars, dashVars, streams, warming>>

StartWarm(q) ==
  /\ Up /\ post[q] = "checked"
  /\ post' = [post EXCEPT ![q] = "running"]
  /\ warming' = "inflight"
  /\ user' = [user EXCEPT ![q] = "idle"]
  /\ UNCHANGED <<mainVars, stopped, dashVars, streams>>

EndWarm(q) ==
  /\ Up /\ post[q] = "running" /\ user[q] = "idle"
  /\ user' = [user EXCEPT ![q] = "off"]
  /\ post' = [post EXCEPT ![q] = "finished"]
  /\ UNCHANGED <<mainVars, stopped, dashVars, streams, warming>>

StoreIdle(q) ==
  /\ Up /\ post[q] = "finished"
  /\ post' = [post EXCEPT ![q] = "idle"]
  /\ warming' = "idle"
  /\ UNCHANGED <<mainVars, useVars, dashVars, streams>>

-----------------------------------------------------------------------------
SrvNext ==
  \/ MainStep \/ Return \/ ServeStep
  \/ \E u \in Users : BeginPut(u) \/ Put(u) \/ Done(u)
  \/ \E t \in Tools : MonitorInfo(t) \/ Started(t)
  \/ \E s \in Browsers : OpenStream(s) \/ CloseStream(s)
  \/ \E q \in Posts : CheckWarm(q) \/ StartWarm(q) \/ EndWarm(q) \/ StoreIdle(q)

SrvSpec == SrvInit /\ [][SrvNext]_srvVars

-----------------------------------------------------------------------------
SrvTypeOK ==
  /\ on \in Runs
  /\ main \in MainStages \cup Over /\ ctx \in {"live", "done"} /\ index \in {"open", "closed"}
  /\ user \in [Users -> {"off", "idle", "putting", "done"}]
  /\ stopped \in BOOLEAN
  /\ cmu \in Tools \cup {"main", NoHolder}
  /\ dash \in {"off", "bound", "serving", "shutting", "done"}
  /\ known \in {"unread", "nil", "set"} /\ registered \in BOOLEAN
  /\ streams \subseteq Browsers
  /\ post \in [Posts -> {"idle", "checked", "running", "finished"}]
  /\ warming \in {"idle", "inflight"}

(* mcp_cmd.go: no maintenance call can hit a closed index, and the         *)
(* dashboard that was running when the command returned is drained and out *)
(* of the registry before the index closes, with streams open or not.      *)
ShutdownOrder ==
  index = "closed" => /\ user["watch"] \in {"off", "done"}
                      /\ known = "set" => dash = "done" /\ ~registered

(* Two clicks never start two warms, and while one runs the overview says  *)
(* so.                                                                     *)
OneWarm ==
  /\ Cardinality({q \in Posts : post[q] = "running"}) <= 1
  /\ \A q \in Posts : post[q] = "running" => warming = "inflight"

(* The order of the shutdown and the one warm at a time.                   *)
ServerSafe == ShutdownOrder /\ OneWarm

(* A server whose transport has returned ends, although browsers stay      *)
(* connected, warms go on and the dashboard is started at the last moment. *)
ServerExits == (main = "returned") ~> (main \in Over)
=============================================================================
