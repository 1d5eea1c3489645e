------------------------------ MODULE EventBus ------------------------------
(***************************************************************************)
(* The live feed of the dashboard: tool calls counted and recorded by the  *)
(* Collector (internal/monitor/collector.go), fanned out under its mutex   *)
(* to the eventBus (internal/monitor/stream.go), drained by one            *)
(* handleStream per browser.  The bus never waits: a full outbox loses its *)
(* oldest event.                                                           *)
(*                                                                         *)
(* Events are numbered in the order Record took them.  A call holds the    *)
(* Collector's mutex from Record to the end of the fan-out and the bus's   *)
(* mutex during it; the reader of an outbox takes part in neither.         *)
(***************************************************************************)
EXTENDS Integers, Sequences, FiniteSets

CONSTANTS
  Calls,     \* goroutines that run tool calls
  Streams,   \* connected browsers
  Nobody,    \* holder of a free mutex
  Outbox,    \* subBufferSize
  RecentCap, \* recentCap
  MaxEvents  \* bound: calls recorded

ASSUME EventBusAssumption ==
  /\ Outbox \in Nat \ {0} /\ RecentCap \in Nat \ {0} /\ MaxEvents \in Nat
  /\ Nobody \notin Calls \cup Streams /\ IsFiniteSet(Calls)

VARIABLES
  call,     \* what each call is doing
  recorded, \* totalCalls: events numbered so far
  recent,   \* the recent-calls feed
  inflight, \* the in-flight gauge
  mu,       \* the call that holds the bus's mutex
  fan,      \* how far the fan-out is with each subscriber
  subs,     \* the bus's map of subscribers
  outbox,   \* queued events of each
  handler,  \* each browser's handleStream
  gone,     \* browsers whose request context is cancelled
  sent      \* last event each browser was sent, or had no share in

busVars == <<call, recorded, recent, inflight, mu, fan, subs, outbox, handler,
             gone, sent>>

callVars == <<call, recorded, recent, inflight>>
streamVars == <<subs, handler, gone>>

BusInit ==
  /\ call = [c \in Calls |-> "idle"]
  /\ recorded = 0 /\ recent = <<>> /\ inflight = 0
  /\ mu = Nobody
  /\ fan = [s \in Streams |-> "none"]
  /\ subs = {}
  /\ outbox = [s \in Streams |-> <<>>]
  /\ handler = [s \in Streams |-> "new"]
  /\ gone = {}
  /\ sent = [s \in Streams |-> 0]

(* The Collector's mutex is held.                                          *)
Recording == \E c \in Calls : call[c] \in {"recorded", "publishing"}

-----------------------------------------------------------------------------
(* instrument: Begin, the handler, End, Record.                            *)
Unrecorded == {c \in Calls : call[c] \in {"running", "ended"}}

Begin(c) ==
  /\ call[c] = "idle" /\ recorded + Cardinality(Unrecorded) < MaxEvents
  /\ call' = [call EXCEPT ![c] = "running"]
  /\ inflight' = inflight + 1
  /\ UNCHANGED <<recorded, recent, mu, fan, outbox, sent, streamVars>>

End(c) ==
  /\ call[c] = "running"
  /\ call' = [call EXCEPT ![c] = "ended"]
  /\ inflight' = inflight - 1
  /\ UNCHANGED <<recorded, recent, mu, fan, outbox, sent, streamVars>>

Capped(q) == IF Len(q) > RecentCap THEN Tail(q) ELSE q

Record(c) ==
  /\ call[c] = "ended" /\ ~Recording
  /\ call' = [call EXCEPT ![c] = "recorded"]
  /\ recorded' = recorded + 1
  /\ recent' = Capped(Append(recent, recorded + 1))
  /\ UNCHANGED <<inflight, mu, fan, outbox, sent, streamVars>>

(* Publish takes the bus's mutex and ranges over the subscribers.          *)
Publish(c) ==
  /\ call[c] = "recorded" /\ mu = Nobody
  /\ call' = [call EXCEPT ![c] = "publishing"]
  /\ mu' = c
  /\ fan' = [s \in Streams |-> IF s \in subs THEN "offer" ELSE "none"]
  /\ UNCHANGED <<recorded, recent, inflight, outbox, sent, streamVars>>

Room(s) == Len(outbox[s]) < Outbox
Send(s) == outbox' = [outbox EXCEPT ![s] = Append(@, recorded)]
At(s, step) == fan' = [fan EXCEPT ![s] = step]

(* One subscriber at a time: the send of the fast path, ...                *)
Offer(s) ==
  /\ fan[s] = "offer" /\ \A r \in Streams : fan[r] \in {"none", "offer"}
  /\ IF Room(s) THEN Send(s) /\ At(s, "none")
                ELSE UNCHANGED outbox /\ At(s, "drop")
  /\ UNCHANGED <<callVars, mu, sent, streamVars>>

(* ... the oldest event dropped, unless its reader was faster, ...         *)
Drop(s) ==
  /\ fan[s] = "drop" /\ At(s, "retry")
  /\ outbox' = [outbox EXCEPT ![s] = IF @ = <<>> THEN @ ELSE Tail(@)]
  /\ UNCHANGED <<callVars, mu, sent, streamVars>>

(* ... and the second attempt, which would give the new event up.          *)
Retry(s) ==
  /\ fan[s] = "retry" /\ At(s, "none")
  /\ IF Room(s) THEN Send(s) ELSE UNCHANGED outbox
  /\ UNCHANGED <<callVars, mu, sent, streamVars>>

Published(c) ==
  /\ call[c] = "publishing" /\ \A s \in Streams : fan[s] = "none"
  /\ call' = [call EXCEPT ![c] = "idle"]
  /\ mu' = Nobody
  /\ UNCHANGED <<recorded, recent, inflight, fan, outbox, sent, streamVars>>

-----------------------------------------------------------------------------
(* handleStream subscribes.  A call that has recorded its event and not    *)
(* yet published it will find the new subscriber.                          *)
Subscribe(s) ==
  /\ handler[s] = "new" /\ mu = Nobody
  /\ handler' = [handler EXCEPT ![s] = "running"]
  /\ subs' = subs \cup {s}
  /\ sent' = [sent EXCEPT ![s] = IF Recording THEN recorded - 1 ELSE recorded]
  /\ UNCHANGED <<callVars, mu, fan, outbox, gone>>

(* The loop's select: an event, or the end of the request.  With both      *)
(* ready Go picks either.                                                  *)
Receive(s) ==
  /\ handler[s] = "running" /\ outbox[s] # <<>>
  /\ sent' = [sent EXCEPT ![s] = Head(outbox[s])]
  /\ outbox' = [outbox EXCEPT ![s] = Tail(@)]
  /\ UNCHANGED <<callVars, mu, fan, streamVars>>

Disconnect(s) ==
  /\ handler[s] = "running" /\ s \notin gone
  /\ gone' = gone \cup {s}
  /\ UNCHANGED <<callVars, mu, fan, outbox, sent, subs, handler>>

(* ctx.Done, a closed channel, or a write to a browser that has gone.      *)
StreamReturns(s) ==
  /\ handler[s] = "running" /\ s \in gone
  /\ handler' = [handler EXCEPT ![s] = "returned"]
  /\ UNCHANGED <<callVars, mu, fan, outbox, sent, subs, gone>>

(* The watcher goroutine of Subscribe: it deletes the subscriber and       *)
(* closes its channel under the mutex.                                     *)
MayUnsubscribe_AnyTime == TRUE
MayUnsubscribe == mu = Nobody

Unsubscribe(s) ==
  /\ s \in subs \cap gone /\ MayUnsubscribe
  /\ subs' = subs \ {s}
  /\ UNCHANGED <<callVars, mu, fan, outbox, sent, handler, gone>>

-----------------------------------------------------------------------------
CallStep(c) == End(c) \/ Record(c) \/ Publish(c) \/ Published(c)
FanStep(s) == Offer(s) \/ Drop(s) \/ Retry(s)

BusNext ==
  \/ \E c \in Calls : Begin(c) \/ CallStep(c)
  \/ \E s \in Streams : \/ FanStep(s) \/ Subscribe(s) \/ Receive(s)
                        \/ Disconnect(s) \/ StreamReturns(s) \/ Unsubscribe(s)

BusSpec == BusInit /\ [][BusNext]_busVars

-----------------------------------------------------------------------------
BusTypeOK ==
  /\ call \in [Calls -> {"idle", "running", "ended", "recorded", "publishing"}]
  /\ recorded \in Nat
  /\ recent \in Seq(Nat)
  /\ inflight \in Int
  /\ mu \in Calls \cup {Nobody}
  /\ fan \in [Streams -> {"none", "offer", "drop", "retry"}]
  /\ subs \subseteq Streams
  /\ outbox \in [Streams -> Seq(Nat)]
  /\ handler \in [Streams -> {"new", "running", "returned"}]
  /\ gone \subseteq Streams
  /\ sent \in [Streams -> Int]

(* A send never meets a closed channel: the fan-out has only subscribers   *)
(* before it, however their watchers and readers come in between.          *)
SendsOpen == \A s \in Streams : fan[s] # "none" => s \in subs

(* A browser sees the events in the order they were recorded, none twice.  *)
Ordered ==
  \A s \in Streams : \A i, j \in 1 .. Len(outbox[s]) :
    sent[s] < outbox[s][i] /\ (i < j => outbox[s][i] < outbox[s][j])

(* What is dropped is never the newest event: every subscriber that the    *)
(* fan-out has passed has it in its outbox or has been sent it.  The last  *)
(* branch of Publish, which would give it up, is never taken.              *)
FannedOut(s) ==
  IF fan[s] # "none" \/ \E c \in Calls : call[c] = "recorded" THEN recorded - 1
                                                              ELSE recorded
LastOf(s) == IF outbox[s] = <<>> THEN sent[s] ELSE outbox[s][Len(outbox[s])]

FreshestKept ==
  \A s \in subs :
    IF fan[s] = "retry" THEN Room(s) ELSE LastOf(s) = FannedOut(s)

(* The activity panel agrees with the calls: the feed is the last calls    *)
(* recorded, without a gap, and the gauge counts those that still run.     *)
ActivityExact ==
  /\ \A i \in 1 .. Len(recent) : recent[i] = recorded - Len(recent) + i
  /\ Len(recent) = RecentCap \/ Len(recent) = recorded
  /\ inflight = Cardinality({c \in Calls : call[c] = "running"})

(* What browsers see is what the calls did.                                *)
LiveFeed == SendsOpen /\ Ordered /\ FreshestKept /\ ActivityExact

(* A tool call gets through Record although no browser reads, and a        *)
(* browser that has gone is unsubscribed.                                  *)
RecordReturns == \A c \in Calls : (call[c] = "running") ~> (call[c] = "idle")
GoneUnsubscribed == []<>(gone \cap subs = {})
=============================================================================
