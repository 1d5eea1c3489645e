----------------------------- MODULE BodyCache ------------------------------
(***************************************************************************)
(* The body half of the bbolt index (internal/index/bbolt.go): the         *)
(* bodies_v1 and body_access_v1 buckets, the bodies_total_size meta key,   *)
(* its in-memory counter, the bounded bputs channel and the one goroutine  *)
(* that drains it in batches and evicts what exceeds the cap.              *)
(*                                                                         *)
(* A body is abstracted to the version of the file it was extracted from;  *)
(* its encoded length, key included, is SizeOf[v].  Times are ticks of     *)
(* "clock".  A bbolt write transaction is a working copy "tx" of the       *)
(* committed database "db"; bbolt admits one writer at a time, so tx = db  *)
(* unless the body writer is inside a flush.  The counter is an atomic     *)
(* that every transaction updates while it is still open.                  *)
(***************************************************************************)
EXTENDS Integers, Sequences, FiniteSets, FiniteSetsExt, Functions

CONSTANTS
  Keys,         \* absolute paths of files
  BodyVersions, \* versions of a file's content
  NoBody,       \* "no body"
  SizeOf,       \* encoded size of each version, key included
  MaxBody,      \* bodyMaxBytes
  Caps,         \* caps the index may be opened with; 0 is BodyCacheCap.Disable
  Callers,      \* goroutines using the index
  BodyQueueCap, \* bodyPutBufferSize
  BodyBatch,    \* bodyFlushBatch
  MaxClock,     \* bound: calls made
  MaxDeletes,   \* bound: Delete calls
  MaxClears,    \* bound: Clear calls
  MaxOpens,     \* bound: times the file is opened
  MaxFaults     \* bound: write transactions that fail

ASSUME BodyCacheAssumption ==
  /\ NoBody \notin BodyVersions
  /\ IsFiniteSet(Keys)
  /\ SizeOf \in [BodyVersions -> Nat \ {0}]
  /\ Caps # {} /\ Caps \subseteq Nat
  /\ BodyQueueCap \in Nat \ {0}
  /\ BodyBatch \in Nat \ {0}
  /\ {MaxBody, MaxClock, MaxDeletes, MaxClears, MaxOpens, MaxFaults} \subseteq Nat

VARIABLES
  db,       \* the committed file
  tx,       \* the open write transaction's view of it
  flush,    \* where the body writer's flush stands
  toApply,  \* requests of the batch the flush has still to apply
  gathered, \* the writer's batch
  bputs,    \* the channel
  total,    \* bodiesTotalSize
  cap,      \* bodyCap of this process, 0 when bodyCacheOff
  call,     \* what each caller is in the middle of
  status,   \* "open", "closing", "closed" (Close returned), "down" (no process)
  clock,    \* time.Now()
  used,     \* how much of each bound is used up
  trust     \* history, read by properties only: what "total" is worth

bodyVars == <<db, tx, flush, toApply, gathered, bputs, total, cap, call, status,
          clock, used, trust>>

-----------------------------------------------------------------------------
Times == 0 .. MaxClock        \* 0: no access entry

(* How far a counter can be relied on: it equals the bytes stored, it is   *)
(* at least that, or it says nothing.                                      *)
Trust == {"exact", "over", "none"}
Weaken(t) == IF t = "none" THEN "none" ELSE "over"

(* The file.  "worth" is history: the trust in the mirrored counter.       *)
DB == [bodies : [Keys -> BodyVersions \cup {NoBody}],
       access : [Keys -> Times],
       meta   : Int,
       worth  : Trust]

File(bodies, access, meta, worth) ==
  [bodies |-> bodies, access |-> access, meta |-> meta, worth |-> worth]

NoBodies == [k \in Keys |-> NoBody]
NoAccess == [k \in Keys |-> 0]
EmptyDB == File(NoBodies, NoAccess, 0, "exact")

(* bodyPutReq; a nil val is a Touch.                                       *)
Request == [key : Keys, val : BodyVersions \cup {NoBody}, ts : Times \ {0}]

NoCall == [op |-> "idle"]
Sending(r) == [op |-> "send", req |-> r]
Clearing(raced) == [op |-> "clear", raced |-> raced]
Calls == {NoCall} \cup {Sending(r) : r \in Request} \cup {Clearing(b) : b \in BOOLEAN}

Bounds == [deletes |-> MaxDeletes, clears |-> MaxClears,
           opens |-> MaxOpens, faults |-> MaxFaults]

Use(b) == /\ used[b] < Bounds[b]
          /\ used' = [used EXCEPT ![b] = @ + 1]

Size(v) == IF v = NoBody THEN 0 ELSE SizeOf[v]

(* Bytes a bodies bucket really holds.                                     *)
BytesOf(bodies) == SumFunction([k \in DOMAIN bodies |-> Size(bodies[k])])

Running == status \in {"open", "closing"}

(* A file without the body of k and without its access time.  (Here and    *)
(* below, Def_Bug is Def with a bug that a property has to catch.)         *)
Drop_KeepsBody(f, k, w) == File(f.bodies, [f.access EXCEPT ![k] = 0], f.meta, w)
Drop(f, k, w) ==
  File([f.bodies EXCEPT ![k] = NoBody], [f.access EXCEPT ![k] = 0], f.meta, w)

-----------------------------------------------------------------------------
(* openBoltIndex on a fresh file.                                          *)
BodyInit ==
  /\ db = EmptyDB /\ tx = EmptyDB
  /\ flush = "idle" /\ toApply = <<>> /\ gathered = <<>> /\ bputs = <<>>
  /\ total = 0 /\ cap \in Caps
  /\ call = [c \in Callers |-> NoCall]
  /\ status = "open"
  /\ clock = 0
  /\ used = [deletes |-> 0, clears |-> 0, opens |-> 1, faults |-> 0]
  /\ trust = "exact"

-----------------------------------------------------------------------------
(* Callers.                                                                *)

(* The channel operand, time.Now() included, is evaluated before the send, *)
(* so another goroutine's request may overtake this one.                   *)
Enqueue(c, k, v) ==
  /\ call[c] = NoCall /\ cap > 0
  /\ clock < MaxClock /\ clock' = clock + 1
  /\ call' = [call EXCEPT ![c] = Sending([key |-> k, val |-> v, ts |-> clock'])]
  /\ UNCHANGED <<db, tx, flush, toApply, gathered, bputs, total, cap, status, used, trust>>

(* PutBody up to the send; a body over MaxBody is dropped before it.       *)
PutBody(c, k, v) ==
  /\ status # "down"
  /\ SizeOf[v] <= MaxBody
  /\ Enqueue(c, k, v)

(* LookupBody for a file now at version v, when it hits.                   *)
LookupBody(c, k, v) ==
  /\ Running
  /\ db.bodies[k] = v
  /\ Enqueue(c, k, NoBody)

(* The non-blocking send: a full channel drops the request.                *)
BodyRoom_OffByOne == Len(bputs) <= BodyQueueCap
BodyRoom == Len(bputs) < BodyQueueCap

SendRequest(c) ==
  /\ call[c].op = "send" /\ status = "open"
  /\ bputs' = IF BodyRoom THEN Append(bputs, call[c].req) ELSE bputs
  /\ call' = [call EXCEPT ![c] = NoCall]
  /\ UNCHANGED <<db, tx, flush, toApply, gathered, total, cap, status, clock, used, trust>>

(* Delete: one write transaction, so never inside a flush.  The counter    *)
(* moves inside the transaction and is not mirrored; if the commit fails   *)
(* it stays moved.                                                         *)
DeleteBody(k) ==
  /\ Running /\ flush = "idle"
  /\ total' = total - Size(db.bodies[k])
  /\ \/ /\ Use("deletes")
        /\ db' = Drop(db, k, Weaken(db.worth))
        /\ trust' = trust
     \/ /\ Use("faults")
        /\ db' = db
        /\ trust' = "none"
  /\ tx' = db'
  /\ UNCHANGED <<flush, toApply, gathered, bputs, cap, call, status, clock>>

(* Clear: the transaction re-creates the buckets and keeps meta ...        *)
ClearBuckets(c) ==
  /\ Running /\ flush = "idle" /\ call[c] = NoCall
  /\ Use("clears")
  /\ db' = File(NoBodies, NoAccess, db.meta, Weaken(db.worth))
  /\ tx' = db'
  /\ call' = [call EXCEPT ![c] = Clearing(FALSE)]
  /\ trust' = Weaken(trust)
  /\ UNCHANGED <<flush, toApply, gathered, bputs, total, cap, status, clock>>

(* ... and once it has committed the counter is stored as 0, whatever      *)
(* the body writer counted in between ("raced").                           *)
ClearCounter(c) ==
  /\ call[c].op = "clear"
  /\ total' = 0
  /\ call' = [call EXCEPT ![c] = NoCall]
  /\ trust' = IF call[c].raced THEN "none" ELSE "exact"
  /\ UNCHANGED <<db, tx, flush, toApply, gathered, bputs, cap, status, clock, used>>

-----------------------------------------------------------------------------
(* The body writer goroutine.                                              *)

StartFlush(batch) ==
  /\ gathered' = batch
  /\ toApply' = batch
  /\ flush' = "apply"

(* case req := <-bputs                                                     *)
ReceiveBody ==
  /\ Running /\ flush = "idle" /\ bputs # <<>>
  /\ LET batch == Append(gathered, Head(bputs))
     IN  IF Len(batch) >= BodyBatch
         THEN StartFlush(batch)
         ELSE gathered' = batch /\ UNCHANGED <<toApply, flush>>
  /\ bputs' = Tail(bputs)
  /\ UNCHANGED <<db, tx, total, cap, call, status, clock, used, trust>>

(* case <-ticker.C, and the last flush once the channel is closed and      *)
(* drained.                                                                *)
Tick_OpenOnly ==
  /\ status = "open" /\ flush = "idle" /\ gathered # <<>>
  /\ StartFlush(gathered)
  /\ UNCHANGED <<db, tx, bputs, total, cap, call, status, clock, used, trust>>

Tick ==
  /\ Running /\ flush = "idle" /\ gathered # <<>>
  /\ StartFlush(gathered)
  /\ UNCHANGED <<db, tx, bputs, total, cap, call, status, clock, used, trust>>

(* One request of the batch: a Put replaces the body and moves the         *)
(* counter, a Put and a Touch both write the access time.                  *)
NewBody_FirstWins(r) ==
  IF r.val = NoBody \/ tx.bodies[r.key] # NoBody THEN tx.bodies[r.key] ELSE r.val
NewBody_SharedBuffer(r) ==
  IF r.val = NoBody THEN tx.bodies[r.key] ELSE gathered[Len(gathered)].val
NewBody(r) == IF r.val = NoBody THEN tx.bodies[r.key] ELSE r.val
Growth_IgnoresOld(r) == IF r.val = NoBody THEN 0 ELSE Size(r.val)
Growth(r) == IF r.val = NoBody THEN 0 ELSE Size(r.val) - Size(tx.bodies[r.key])

Apply ==
  /\ flush = "apply"
  /\ LET r == Head(toApply)
     IN  /\ tx' = File([tx.bodies EXCEPT ![r.key] = NewBody(r)],
                     [tx.access EXCEPT ![r.key] = r.ts], tx.meta, tx.worth)
         /\ total' = total + Growth(r)
         /\ call' = [c \in Callers |-> IF r.val # NoBody /\ call[c].op = "clear"
                                       THEN Clearing(TRUE) ELSE call[c]]
  /\ toApply' = Tail(toApply)
  /\ flush' = IF toApply' = <<>> THEN "mirror" ELSE "apply"
  /\ UNCHANGED <<db, gathered, bputs, cap, status, clock, used, trust>>

MirrorTotal == tx' = File(tx.bodies, tx.access, total, trust)

Mirror ==
  /\ flush = "mirror"
  /\ MirrorTotal
  /\ flush' = "check"
  /\ UNCHANGED <<db, toApply, gathered, bputs, total, cap, call, status, clock, used, trust>>

(* bodyCap is never 0 in a process that flushes: openBoltIndex replaces 0  *)
(* by the default, and without a body cache nothing is ever enqueued.      *)
OverCap_OffByOne == total > cap + 1
OverCap == total > cap

CheckCap ==
  /\ flush = "check"
  /\ flush' = IF OverCap THEN "evict" ELSE "commit"
  /\ UNCHANGED <<db, tx, toApply, gathered, bputs, total, cap, call, status, clock, used, trust>>

Tracked == {k \in Keys : tx.access[k] # 0}
Oldest == {k \in Tracked : \A j \in Tracked : tx.access[k] <= tx.access[j]}

(* One turn of evictBodiesLocked's loop; an access entry without a body    *)
(* frees nothing.                                                          *)
Evict ==
  /\ flush = "evict" /\ OverCap
  /\ \E k \in Oldest :
       /\ tx' = Drop(tx, k, tx.worth)
       /\ total' = total - Size(tx.bodies[k])
  /\ UNCHANGED <<db, flush, toApply, gathered, bputs, cap, call, status, clock, used, trust>>

EvictDone ==
  /\ flush = "evict"
  /\ ~OverCap \/ Tracked = {}
  /\ MirrorTotal
  /\ flush' = "commit"
  /\ UNCHANGED <<db, toApply, gathered, bputs, total, cap, call, status, clock, used, trust>>

EndFlush ==
  /\ flush' = "idle" /\ toApply' = <<>> /\ gathered' = <<>>
  /\ UNCHANGED <<bputs, total, cap, call, status, clock>>

Commit ==
  /\ flush = "commit"
  /\ db' = tx /\ tx' = tx
  /\ EndFlush
  /\ UNCHANGED <<used, trust>>

(* The transaction fails: the file is as before and the counter is not.    *)
Abort ==
  /\ flush # "idle"
  /\ Use("faults")
  /\ tx' = db /\ db' = db
  /\ trust' = "none"
  /\ EndFlush

-----------------------------------------------------------------------------
(* Close closes the channels, waits for the writer and closes the file.    *)
Close ==
  /\ status = "open"
  /\ status' = "closing"
  /\ UNCHANGED <<db, tx, flush, toApply, gathered, bputs, total, cap, call, clock, used, trust>>

WriterReturns ==
  /\ status = "closing" /\ flush = "idle" /\ bputs = <<>> /\ gathered = <<>>
  /\ status' = "closed"
  /\ UNCHANGED <<db, tx, flush, toApply, gathered, bputs, total, cap, call, clock, used, trust>>

(* The process is gone: what was not committed is lost.                    *)
Die ==
  /\ status' = "down"
  /\ tx' = db /\ flush' = "idle" /\ toApply' = <<>> /\ gathered' = <<>> /\ bputs' = <<>>
  /\ call' = [c \in Callers |-> NoCall]
  /\ UNCHANGED <<db, total, cap, clock, used, trust>>

BodyCrash == status # "down" /\ Die

(* Sending on a closed channel panics, the default case notwithstanding.   *)
SendPanics(c) ==
  /\ call[c].op = "send" /\ status \in {"closing", "closed"}
  /\ Die

(* openBoltIndex on an existing file, perhaps with another cap.            *)
RecoveredTotal_Zero == 0
RecoveredTotal == db.meta

Open ==
  /\ status = "down"
  /\ Use("opens")
  /\ status' = "open"
  /\ cap' \in Caps
  /\ total' = RecoveredTotal
  /\ trust' = db.worth
  /\ UNCHANGED <<db, tx, flush, toApply, gathered, bputs, call, clock>>

-----------------------------------------------------------------------------
CallerNext ==
  \/ \E c \in Callers, k \in Keys, v \in BodyVersions : PutBody(c, k, v) \/ LookupBody(c, k, v)
  \/ \E c \in Callers : SendRequest(c) \/ SendPanics(c) \/ ClearBuckets(c) \/ ClearCounter(c)
  \/ \E k \in Keys : DeleteBody(k)

WriterNext ==
  ReceiveBody \/ Tick \/ Apply \/ Mirror \/ CheckCap \/ Evict \/ EvictDone
    \/ Commit \/ Abort \/ WriterReturns

BodyNext == CallerNext \/ WriterNext \/ Close \/ BodyCrash \/ Open

(* The runtime keeps scheduling the writer goroutine.                      *)
BodyFairness == WF_bodyVars(WriterNext)

BodySpec == BodyInit /\ [][BodyNext]_bodyVars

BodyFairSpec == BodySpec /\ BodyFairness

-----------------------------------------------------------------------------
(* Type invariant.                                                         *)
BodyTypeOK ==
  /\ db \in DB /\ tx \in DB
  /\ flush \in {"idle", "apply", "mirror", "check", "evict", "commit"}
  /\ toApply \in Seq(Request) /\ gathered \in Seq(Request) /\ bputs \in Seq(Request)
  /\ Len(bputs) <= BodyQueueCap /\ Len(gathered) <= BodyBatch
  /\ total \in Int /\ cap \in Caps
  /\ call \in [Callers -> Calls]
  /\ status \in {"open", "closing", "closed", "down"}
  /\ clock \in Times
  /\ used \in [{"deletes", "clears", "opens", "faults"} -> Nat]
  /\ trust \in Trust

(* Eviction walks the access bucket only, so a body without an access      *)
(* entry could never be evicted: there is none, on disk or inside a        *)
(* transaction, whatever Touches, Deletes, Clears, evictions and crashes   *)
(* came in between.                                                        *)
Evictable(f) == \A k \in Keys : f.bodies[k] # NoBody => f.access[k] # 0

EveryBodyEvictable == Evictable(db) /\ Evictable(tx)

(* What the code guarantees of a finished batch: the counter is within the *)
(* cap, or eviction has emptied the bucket and there is nothing more it    *)
(* could do.                                                               *)
PostBatch ==
  flush = "commit" => total <= cap \/ tx.bodies = NoBodies

(* bodiesTotalSize against the bytes stored: as long as no transaction     *)
(* failed and no flush ran between a Clear's commit and its Store(0), the  *)
(* counter never falls below the bytes stored, and it is exact until a     *)
(* process starts from a counter a Delete or Clear left unmirrored.        *)
CounterCoversBodies ==
  Running => /\ trust = "exact" => total = BytesOf(tx.bodies)
             /\ trust = "over" => total >= BytesOf(tx.bodies)

(* The promise of BodyCacheCap.MaxBytes under the same provisos: no batch  *)
(* leaves more than the cap on disk, not even after restarts with other    *)
(* caps and an over-counting meta key.                                     *)
DiskWithinCap ==
  flush = "commit" /\ trust # "none" => BytesOf(tx.bodies) <= cap

(* The cap: eviction can always do its work and has done it when a batch   *)
(* commits, and the counter it goes by never hides bytes from it.          *)
CapKept == EveryBodyEvictable /\ PostBatch /\ CounterCoversBodies /\ DiskWithinCap

(* A finished batch leaves under each key it put the last version put, or  *)
(* nothing (evicted); it never leaves an earlier one.                      *)
LastBodyPut(i) ==
  /\ gathered[i].val # NoBody
  /\ \A j \in i + 1 .. Len(gathered) :
       gathered[j].key = gathered[i].key => gathered[j].val = NoBody

BatchApplied ==
  flush = "commit" =>
    \A i \in DOMAIN gathered :
      LastBodyPut(i) => tx.bodies[gathered[i].key] \in {gathered[i].val, NoBody}

(* What a finished batch leaves (bodyWriterLoop.flush): the last body put  *)
(* under each path, and no more than the cap allows.                       *)
BatchExact == CapKept /\ BatchApplied

(* Close returns once the writer has drained the channel, whatever is in   *)
(* flight (Close, bodyWriterLoop).                                         *)
CloseTerminates == (status = "closing") ~> (status \in {"closed", "down"})

(* Requests on their way to the bucket.                                    *)
InFlight == {call[c].req : c \in {d \in Callers : call[d].op = "send"}}
              \cup Range(bputs) \cup Range(gathered)
OfferedBodies == {<<r.key, r.val>> : r \in {q \in InFlight : q.val # NoBody}}

(* The body cache is a lossy cache of what PutBody was given: a body is    *)
(* found under a path only if it was put for that path and was still on    *)
(* its way when it appeared.                                               *)
BodyLossy == INSTANCE LossyCache WITH
  None <- NoBody,
  Values <- BodyVersions,
  cached <- db.bodies,
  offered <- OfferedBodies

BodiesLossy == BodyLossy!Spec
=============================================================================
