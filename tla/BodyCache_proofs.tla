-------------------------- MODULE BodyCache_proofs --------------------------
(***************************************************************************)
(* What holds of BodyCache for every set of paths, versions, sizes, caps   *)
(* and goroutines, every channel and batch size and every bound.           *)
(***************************************************************************)
EXTENDS BodyCache, DataLemmas

(* The type invariant alone is not inductive: a flush that is applying has *)
(* something left to apply, and a batch that is full is being flushed.     *)
TypeInv ==
  /\ BodyTypeOK
  /\ flush = "apply" => toApply # <<>>
  /\ flush = "idle" => Len(gathered) < BodyBatch
  /\ status \in {"closed", "down"} => flush = "idle"

(* A file is known by its four parts.                                      *)
LEMMA FileParts ==
  ASSUME NEW b, NEW a, NEW m, NEW w
  PROVE  /\ File(b, a, m, w).bodies = b
         /\ File(b, a, m, w).access = a
         /\ File(b, a, m, w).meta = m
         /\ File(b, a, m, w).worth = w
BY DEF File

LEMMA FileType ==
  ASSUME NEW b \in [Keys -> BodyVersions \cup {NoBody}], NEW a \in [Keys -> Times],
         NEW m \in Int, NEW w \in Trust
  PROVE  File(b, a, m, w) \in DB
BY DEF File, DB

LEMMA PartsType ==
  ASSUME NEW f \in DB
  PROVE  /\ f.bodies \in [Keys -> BodyVersions \cup {NoBody}]
         /\ f.access \in [Keys -> Times]
         /\ f.meta \in Int
         /\ f.worth \in Trust
BY DEF DB

LEMMA EmptyType == EmptyDB \in DB
BY BodyCacheAssumption, FileType DEF EmptyDB, NoBodies, NoAccess, Times, Trust

(* Deleting one entry of a file, or the lot, leaves a file.                *)
LEMMA DropType ==
  ASSUME NEW f \in DB, NEW k \in Keys, NEW w \in Trust
  PROVE  Drop(f, k, w) \in DB
<1>1. 0 \in Times
  BY BodyCacheAssumption DEF Times
<1>2. QED
  BY <1>1, FileType, PartsType DEF Drop

LEMMA WeakenType == \A t \in Trust : Weaken(t) \in Trust
BY DEF Weaken, Trust

LEMMA SizeType ==
  ASSUME NEW v \in BodyVersions \cup {NoBody}
  PROVE  Size(v) \in Nat
BY BodyCacheAssumption DEF Size

LEMMA EntryType ==
  ASSUME NEW f \in DB, NEW k \in Keys
  PROVE  /\ f.bodies[k] \in BodyVersions \cup {NoBody}
         /\ f.access[k] \in Times
         /\ Size(f.bodies[k]) \in Nat
<1>1. f.bodies[k] \in BodyVersions \cup {NoBody} /\ f.access[k] \in Times
  BY PartsType
<1>2. QED
  BY <1>1, SizeType

LEMMA RequestType ==
  ASSUME NEW r \in Request
  PROVE  r.key \in Keys /\ r.val \in BodyVersions \cup {NoBody} /\ r.ts \in Times /\ r.ts # 0
BY DEF Request

LEMMA CallType ==
  /\ NoCall \in Calls
  /\ \A r \in Request : Sending(r) \in Calls
  /\ \A b \in BOOLEAN : Clearing(b) \in Calls
BY DEF Calls

LEMMA SendingType ==
  ASSUME NEW x \in Calls, x.op = "send"
  PROVE  x.req \in Request
BY DEF Calls, NoCall, Sending, Clearing

LEMMA ClearingType ==
  ASSUME NEW x \in Calls, x.op = "clear"
  PROVE  x.raced \in BOOLEAN
BY DEF Calls, NoCall, Sending, Clearing

LEMMA UseType ==
  ASSUME BodyTypeOK, NEW b \in {"deletes", "clears", "opens", "faults"}, Use(b)
  PROVE  used' \in [{"deletes", "clears", "opens", "faults"} -> Nat]
BY DEF Use, BodyTypeOK

-----------------------------------------------------------------------------
(* Every variable keeps its type.                                         *)
THEOREM TypeCorrect == BodySpec => []TypeInv
<1>1. BodyInit => TypeInv
  BY BodyCacheAssumption, EmptyType, CallType, EmptyBatch
  DEF BodyInit, TypeInv, BodyTypeOK, Times, Trust
<1>2. TypeInv /\ [BodyNext]_bodyVars => TypeInv'
  <2> SUFFICES ASSUME TypeInv, [BodyNext]_bodyVars PROVE TypeInv'
    OBVIOUS
  <2> USE BodyCacheAssumption
  <2>1. ASSUME NEW c \in Callers, NEW k \in Keys, NEW v \in BodyVersions \cup {NoBody},
               Enqueue(c, k, v)
        PROVE  TypeInv'
    <3>1. clock' \in Times /\ clock' # 0
      BY <2>1 DEF Enqueue, TypeInv, BodyTypeOK, Times
    <3>2. [key |-> k, val |-> v, ts |-> clock'] \in Request
      BY <3>1 DEF Request
    <3>3. QED
      BY <2>1, <3>1, <3>2, CallType DEF TypeInv, BodyTypeOK, Enqueue
  <2>2. ASSUME NEW c \in Callers, SendRequest(c) PROVE TypeInv'
    <3>1. call[c].req \in Request
      BY <2>2, SendingType DEF TypeInv, BodyTypeOK, SendRequest
    <3>2. bputs' \in Seq(Request) /\ Len(bputs') <= BodyQueueCap
      BY <2>2, <3>1, AppendType DEF TypeInv, BodyTypeOK, SendRequest, BodyRoom
    <3>3. QED
      BY <2>2, <3>2, CallType DEF TypeInv, BodyTypeOK, SendRequest
  <2>3. ASSUME NEW c \in Callers, ClearBuckets(c) PROVE TypeInv'
    <3>1. db' \in DB
      <4>1. NoBodies \in [Keys -> BodyVersions \cup {NoBody}] /\ NoAccess \in [Keys -> Times]
        BY DEF NoBodies, NoAccess, Times
      <4>2. QED
        BY <2>3, <4>1, FileType, PartsType, WeakenType DEF TypeInv, BodyTypeOK, ClearBuckets
    <3>2. used' \in [{"deletes", "clears", "opens", "faults"} -> Nat]
      BY <2>3, UseType DEF TypeInv, ClearBuckets
    <3>3. QED
      BY <2>3, <3>1, <3>2, CallType, WeakenType DEF TypeInv, BodyTypeOK, ClearBuckets
  <2>4. ASSUME NEW c \in Callers, ClearCounter(c) PROVE TypeInv'
    BY <2>4, CallType DEF TypeInv, BodyTypeOK, ClearCounter, Trust
  <2>5. ASSUME NEW k \in Keys, DeleteBody(k) PROVE TypeInv'
    <3>1. total' \in Int
      <4>1. Size(db.bodies[k]) \in Nat
        BY EntryType DEF TypeInv, BodyTypeOK
      <4>2. QED
        BY <2>5, <4>1 DEF TypeInv, BodyTypeOK, DeleteBody
    <3>2. db' \in DB /\ trust' \in Trust
      <4>1. Weaken(db.worth) \in Trust
        BY PartsType, WeakenType DEF TypeInv, BodyTypeOK
      <4>2. Drop(db, k, Weaken(db.worth)) \in DB
        BY <4>1, DropType DEF TypeInv, BodyTypeOK
      <4>3. QED
        BY <2>5, <4>2 DEF TypeInv, BodyTypeOK, DeleteBody, Trust
    <3>3. used' \in [{"deletes", "clears", "opens", "faults"} -> Nat]
      BY <2>5, UseType DEF TypeInv, DeleteBody
    <3>4. QED
      BY <2>5, <3>1, <3>2, <3>3 DEF TypeInv, BodyTypeOK, DeleteBody
  <2>6. CASE ReceiveBody
    <3> DEFINE batch == Append(gathered, Head(bputs))
    <3>1. /\ bputs' \in Seq(Request) /\ Len(bputs') <= BodyQueueCap
          /\ Head(bputs) \in Request
      BY <2>6, HeadTail DEF TypeInv, BodyTypeOK, ReceiveBody, Running
    <3>2. /\ batch \in Seq(Request) /\ batch # <<>>
          /\ Len(batch) = Len(gathered) + 1 /\ Len(gathered) \in Nat
      BY <3>1, AppendType DEF TypeInv, BodyTypeOK
    <3>3. Len(batch) <= BodyBatch /\ Len(batch) \in Nat
      BY <2>6, <3>2 DEF TypeInv, ReceiveBody
    <3> HIDE DEF batch
    <3>4. CASE Len(batch) >= BodyBatch
      <4>1. gathered' = batch /\ toApply' = batch /\ flush' = "apply"
        BY <2>6, <3>4 DEF ReceiveBody, StartFlush, batch
      <4>2. QED
        BY <2>6, <3>1, <3>2, <3>3, <4>1 DEF TypeInv, BodyTypeOK, ReceiveBody, Running
    <3>5. CASE ~(Len(batch) >= BodyBatch)
      <4>1. gathered' = batch /\ UNCHANGED <<toApply, flush>> /\ Len(batch) < BodyBatch
        BY <2>6, <3>3, <3>5 DEF ReceiveBody, StartFlush, batch
      <4>2. QED
        BY <2>6, <3>1, <3>2, <3>3, <4>1 DEF TypeInv, BodyTypeOK, ReceiveBody, Running
    <3>6. QED
      BY <3>4, <3>5
  <2>7. CASE Tick \/ CheckCap
    BY <2>7 DEF TypeInv, BodyTypeOK, Tick, StartFlush, CheckCap, Running
  <2>8. CASE Mirror \/ EvictDone
    <3>1. File(tx.bodies, tx.access, total, trust) \in DB
      BY FileType, PartsType DEF TypeInv, BodyTypeOK
    <3>2. QED
      BY <2>8, <3>1 DEF TypeInv, BodyTypeOK, Mirror, MirrorTotal, EvictDone
  <2>9. CASE Apply
    <3>1. /\ Head(toApply) \in Request /\ toApply' \in Seq(Request)
      BY <2>9, HeadTail DEF TypeInv, BodyTypeOK, Apply
    <3>2. NewBody(Head(toApply)) \in BodyVersions \cup {NoBody} /\ Growth(Head(toApply)) \in Int
      <4>1. Head(toApply).key \in Keys /\ Head(toApply).val \in BodyVersions \cup {NoBody}
        BY <3>1, RequestType
      <4>2. /\ tx.bodies[Head(toApply).key] \in BodyVersions \cup {NoBody}
            /\ Size(tx.bodies[Head(toApply).key]) \in Nat
            /\ Size(Head(toApply).val) \in Nat
        BY <4>1, EntryType, SizeType DEF TypeInv, BodyTypeOK
      <4>3. QED
        BY <4>1, <4>2 DEF NewBody, Growth
    <3>3. tx' \in DB
      BY <2>9, <3>1, <3>2, RequestType, PartsType, FileType DEF TypeInv, BodyTypeOK, Apply
    <3>4. call' \in [Callers -> Calls]
      BY <2>9, CallType DEF TypeInv, BodyTypeOK, Apply
    <3>5. total' \in Int
      <4>1. total' = total + Growth(Head(toApply))
        BY <2>9 DEF Apply
      <4>2. total \in Int
        BY DEF TypeInv, BodyTypeOK
      <4>3. QED
        BY <3>2, <4>1, <4>2
    <3>6. flush' \in {"mirror", "apply"} /\ (flush' = "apply" => toApply' # <<>>)
      BY <2>9 DEF Apply
    <3>7. QED
      BY <2>9, <3>1, <3>3, <3>4, <3>5, <3>6 DEF TypeInv, BodyTypeOK, Apply
  <2>10. CASE Evict
    <3>1. PICK k \in Keys : /\ tx' = Drop(tx, k, tx.worth)
                            /\ total' = total - Size(tx.bodies[k])
      BY <2>10 DEF Evict, Oldest, Tracked
    <3>2. Size(tx.bodies[k]) \in Nat /\ tx.worth \in Trust
      BY EntryType, PartsType DEF TypeInv, BodyTypeOK
    <3>3. tx' \in DB /\ total' \in Int
      <4>1. tx \in DB /\ total \in Int
        BY DEF TypeInv, BodyTypeOK
      <4>2. Drop(tx, k, tx.worth) \in DB
        BY <3>2, <4>1, DropType
      <4>3. QED
        BY <3>1, <3>2, <4>1, <4>2
    <3>4. QED
      BY <2>10, <3>3 DEF TypeInv, BodyTypeOK, Evict
  <2>11. CASE Commit
    BY <2>11, EmptyBatch DEF TypeInv, BodyTypeOK, Commit, EndFlush
  <2>12. CASE Abort
    <3>1. used' \in [{"deletes", "clears", "opens", "faults"} -> Nat]
      BY <2>12, UseType DEF TypeInv, Abort
    <3>2. QED
      BY <2>12, <3>1, EmptyBatch DEF TypeInv, BodyTypeOK, Abort, EndFlush, Trust
  <2>13. CASE WriterReturns \/ Close
    BY <2>13 DEF TypeInv, BodyTypeOK, WriterReturns, Close
  <2>14. CASE Die
    BY <2>14, EmptyBatch, CallType DEF TypeInv, BodyTypeOK, Die
  <2>15. CASE Open
    <3>1. used' \in [{"deletes", "clears", "opens", "faults"} -> Nat]
      BY <2>15, UseType DEF TypeInv, Open
    <3>2. QED
      BY <2>15, <3>1, PartsType DEF TypeInv, BodyTypeOK, Open, RecoveredTotal
  <2>16. CASE UNCHANGED bodyVars
    BY <2>16 DEF TypeInv, BodyTypeOK, bodyVars
  <2>17. QED
    BY <2>1, <2>2, <2>3, <2>4, <2>5, <2>6, <2>7, <2>8, <2>9, <2>10, <2>11, <2>12,
       <2>13, <2>14, <2>15, <2>16
    DEF BodyNext, CallerNext, WriterNext, PutBody, LookupBody, BodyCrash, SendPanics
<1>3. QED
  BY <1>1, <1>2, PTL DEF BodySpec

-----------------------------------------------------------------------------
(* Every stored body has an access entry.                                  *)
LEMMA NoneStored ==
  /\ Evictable(EmptyDB)
  /\ \A m, w : Evictable(File(NoBodies, NoAccess, m, w))
BY FileParts DEF Evictable, EmptyDB, NoBodies

LEMMA DropEvictable ==
  ASSUME NEW f \in DB, Evictable(f), NEW k \in Keys, NEW w
  PROVE  Evictable(Drop(f, k, w))
BY PartsType, FileParts DEF Evictable, Drop

LEMMA EvictableStep ==
  ASSUME TypeInv, EveryBodyEvictable, [BodyNext]_bodyVars
  PROVE  EveryBodyEvictable'
<1> USE DEF EveryBodyEvictable
<1>1. ASSUME NEW c \in Callers, NEW k \in Keys, NEW v \in BodyVersions \cup {NoBody},
             Enqueue(c, k, v)
      PROVE  UNCHANGED <<db, tx>>
  BY <1>1 DEF Enqueue
<1>2. ASSUME NEW c \in Callers, SendRequest(c) \/ ClearCounter(c)
      PROVE  UNCHANGED <<db, tx>>
  BY <1>2 DEF SendRequest, ClearCounter
<1>3. ASSUME NEW c \in Callers, ClearBuckets(c) PROVE EveryBodyEvictable'
  BY <1>3, NoneStored DEF ClearBuckets, Evictable
<1>4. ASSUME NEW k \in Keys, DeleteBody(k) PROVE EveryBodyEvictable'
  <2>1. Evictable(Drop(db, k, Weaken(db.worth)))
    BY DropEvictable DEF TypeInv, BodyTypeOK
  <2>2. QED
    BY <1>4, <2>1 DEF DeleteBody, Evictable
<1>5. CASE ReceiveBody \/ Tick \/ CheckCap \/ WriterReturns \/ Close \/ Open
  BY <1>5 DEF ReceiveBody, Tick, CheckCap, WriterReturns, Close, Open, Evictable
<1>6. CASE Mirror \/ EvictDone
  BY <1>6, FileParts DEF Mirror, EvictDone, MirrorTotal, Evictable
<1>7. CASE Apply
  <2> DEFINE r == Head(toApply)
  <2>1. r \in Request
    BY <1>7, HeadTail DEF TypeInv, BodyTypeOK, Apply
  <2>2. r.key \in Keys /\ r.ts # 0
    BY <2>1, RequestType
  <2>3. /\ tx'.bodies = [tx.bodies EXCEPT ![r.key] = NewBody(r)]
        /\ tx'.access = [tx.access EXCEPT ![r.key] = r.ts]
        /\ db' = db
    BY <1>7, FileParts DEF Apply
  <2>4. /\ tx.bodies \in [Keys -> BodyVersions \cup {NoBody}]
        /\ tx.access \in [Keys -> Times]
    BY PartsType DEF TypeInv, BodyTypeOK
  <2> HIDE DEF r
  <2>5. QED
    BY <2>2, <2>3, <2>4 DEF Evictable
<1>8. CASE Evict
  <2>1. PICK k \in Keys : tx' = Drop(tx, k, tx.worth)
    BY <1>8 DEF Evict, Oldest, Tracked
  <2>2. Evictable(Drop(tx, k, tx.worth))
    BY DropEvictable DEF TypeInv, BodyTypeOK
  <2>3. QED
    BY <1>8, <2>1, <2>2 DEF Evict, Evictable
<1>9. CASE Commit \/ Abort \/ Die
  BY <1>9 DEF Commit, Abort, Die, Evictable
<1>10. CASE UNCHANGED bodyVars
  BY <1>10 DEF bodyVars, Evictable
<1>11. ASSUME UNCHANGED <<db, tx>> PROVE EveryBodyEvictable'
  BY <1>11 DEF Evictable
<1>12. QED
  BY <1>1, <1>2, <1>3, <1>4, <1>5, <1>6, <1>7, <1>8, <1>9, <1>10, <1>11
  DEF BodyNext, CallerNext, WriterNext, PutBody, LookupBody, BodyCrash, SendPanics

(* No body is out of eviction's reach, on disk or in a transaction.        *)
THEOREM BodiesEvictable == BodySpec => []EveryBodyEvictable
<1>1. BodyInit => EveryBodyEvictable
  BY NoneStored DEF BodyInit, EveryBodyEvictable
<1>2. QED
  BY <1>1, EvictableStep, TypeCorrect, PTL DEF BodySpec

-----------------------------------------------------------------------------
LEMMA PostBatchStep ==
  ASSUME TypeInv, EveryBodyEvictable, PostBatch, [BodyNext]_bodyVars
  PROVE  PostBatch'
<1> SUFFICES ASSUME flush' = "commit"
             PROVE  total' <= cap' \/ tx'.bodies = NoBodies
  BY DEF PostBatch
<1> USE BodyCacheAssumption
<1>1. ASSUME NEW c \in Callers, NEW k \in Keys, NEW v \in BodyVersions \cup {NoBody},
             Enqueue(c, k, v)
      PROVE  UNCHANGED <<total, cap, tx, flush>>
  BY <1>1 DEF Enqueue
<1>2. ASSUME NEW c \in Callers, SendRequest(c)
      PROVE  UNCHANGED <<total, cap, tx, flush>>
  BY <1>2 DEF SendRequest
<1>3. ASSUME NEW c \in Callers, ClearCounter(c) PROVE total' <= cap'
  BY <1>3 DEF ClearCounter, TypeInv, BodyTypeOK
<1>4. /\ \A c \in Callers : ~ClearBuckets(c)
      /\ \A k \in Keys : ~DeleteBody(k)
  BY DEF ClearBuckets, DeleteBody
<1>5. CASE CheckCap
  <2>1. total \in Int /\ cap \in Int
    BY DEF TypeInv, BodyTypeOK
  <2>2. ~(total > cap) /\ UNCHANGED <<total, cap>>
    BY <1>5 DEF CheckCap, OverCap
  <2> QED
    BY <2>1, <2>2
<1>6. CASE EvictDone
  <2>1. CASE ~OverCap
    BY <1>6, <2>1 DEF EvictDone, OverCap, TypeInv, BodyTypeOK
  <2>2. CASE Tracked = {}
    <3>1. \A k \in Keys : tx.bodies[k] = NoBody
      BY <2>2 DEF EveryBodyEvictable, Evictable, Tracked
    <3>2. tx.bodies = NoBodies
      BY <3>1, PartsType DEF TypeInv, BodyTypeOK, NoBodies
    <3>3. QED
      BY <1>6, <3>2, FileParts DEF EvictDone, MirrorTotal
  <2>3. QED
    BY <1>6, <2>1, <2>2 DEF EvictDone
<1>7. CASE \/ ReceiveBody \/ Tick \/ Apply \/ Mirror \/ Evict \/ Commit \/ Abort
           \/ WriterReturns \/ Die \/ Open
  BY <1>7 DEF ReceiveBody, Tick, StartFlush, Apply, Mirror, Evict, Commit, Abort, EndFlush,
     WriterReturns, Die, Open, TypeInv
<1>8. CASE Close
  BY <1>8 DEF Close, PostBatch
<1>9. CASE UNCHANGED bodyVars
  BY <1>9 DEF bodyVars, PostBatch
<1>10. ASSUME UNCHANGED <<total, cap, tx, flush>>
       PROVE  total' <= cap' \/ tx'.bodies = NoBodies
  BY <1>10 DEF PostBatch
<1>11. QED
  BY <1>1, <1>2, <1>3, <1>4, <1>5, <1>6, <1>7, <1>8, <1>9, <1>10
  DEF BodyNext, CallerNext, WriterNext, PutBody, LookupBody, BodyCrash, SendPanics

(* What a batch ends with: the counter within the cap, or nothing left     *)
(* that could be evicted.                                                  *)
THEOREM PostBatchHolds == BodySpec => []PostBatch
<1>1. BodyInit => PostBatch
  BY DEF BodyInit, PostBatch
<1>2. QED
  BY <1>1, PostBatchStep, TypeCorrect, BodiesEvictable, PTL DEF BodySpec

(* Together: eviction reaches every body and a finished batch is evicted.  *)
THEOREM EvictionHolds == BodySpec => [](EveryBodyEvictable /\ PostBatch)
BY BodiesEvictable, PostBatchHolds, PTL

-----------------------------------------------------------------------------
(* BodyCache implements LossyCache.  The invariant behind it: between      *)
(* flushes the transaction's view is the file, and inside one every body   *)
(* it has changed is gone or comes from the batch.                         *)
FlushInv ==
  /\ flush = "idle" => tx = db
  /\ Range(toApply) \subseteq Range(gathered)
  /\ \A k \in Keys : \/ tx.bodies[k] \in {db.bodies[k], NoBody}
                     \/ \E r \in Range(gathered) : r.key = k /\ r.val = tx.bodies[k]

(* What is in flight carries over to what is offered.                      *)
LEMMA OfferedMonotone ==
  ASSUME InFlight' \subseteq InFlight
  PROVE  OfferedBodies' \subseteq OfferedBodies
BY DEF OfferedBodies

(* Calls that do not send contribute nothing.                              *)
LEMMA InFlightMonotone ==
  ASSUME \A c \in Callers : call'[c].op = "send" => call'[c] = call[c],
         Range(bputs') \cup Range(gathered') \subseteq InFlight
  PROVE  InFlight' \subseteq InFlight
BY DEF InFlight

(* An abstract step that only forgets.                                     *)
LEMMA StutterIsSettle ==
  ASSUME TypeInv, UNCHANGED db, InFlight' \subseteq InFlight
  PROVE  BodyLossy!Settle
<1>1. db.bodies \in [Keys -> BodyVersions \cup {NoBody}]
  BY PartsType DEF TypeInv, BodyTypeOK
<1>2. QED
  BY <1>1, OfferedMonotone DEF BodyLossy!Settle

LEMMA LossyStep ==
  ASSUME TypeInv, TypeInv', FlushInv, [BodyNext]_bodyVars
  PROVE  BodyLossy!Next \/ UNCHANGED BodyLossy!lvars
<1> USE DEF BodyLossy!Next
<1>1. ASSUME NEW c \in Callers, NEW k \in Keys, NEW v \in BodyVersions \cup {NoBody},
             Enqueue(c, k, v)
      PROVE  BodyLossy!Next
  <2> DEFINE r == [key |-> k, val |-> v, ts |-> clock']
  <2>1. InFlight' \subseteq InFlight \cup {r}
    BY <1>1 DEF Enqueue, InFlight, TypeInv, BodyTypeOK, Sending
  <2>2. CASE v = NoBody
    <3>1. OfferedBodies' \subseteq OfferedBodies
      BY <2>1, <2>2 DEF OfferedBodies
    <3>2. db.bodies \in [Keys -> BodyVersions \cup {NoBody}]
      BY PartsType DEF TypeInv, BodyTypeOK
    <3>3. QED
      BY <1>1, <3>1, <3>2 DEF Enqueue, BodyLossy!Settle
  <2>3. CASE v \in BodyVersions
    <3>1. OfferedBodies' \subseteq OfferedBodies \cup {<<k, v>>}
      BY <2>1 DEF OfferedBodies
    <3>2. UNCHANGED db.bodies
      BY <1>1 DEF Enqueue
    <3>3. <<k, v>> \in BodyLossy!Offers
      BY <2>3 DEF BodyLossy!Offers
    <3>4. QED
      BY <3>1, <3>2, <3>3 DEF BodyLossy!Offer
  <2>4. QED
    BY <2>2, <2>3
<1>2. ASSUME NEW c \in Callers, SendRequest(c) PROVE BodyLossy!Next
  <2>1. call[c].req \in InFlight /\ call[c].req \in Request
    BY <1>2, SendingType DEF SendRequest, InFlight, TypeInv, BodyTypeOK
  <2>2. Range(bputs') \subseteq InFlight
    BY <1>2, <2>1, RangeAppend DEF SendRequest, InFlight, TypeInv, BodyTypeOK
  <2>3. InFlight' \subseteq InFlight
    BY <1>2, <2>2, InFlightMonotone DEF SendRequest, InFlight, NoCall, TypeInv, BodyTypeOK
  <2>4. QED
    BY <1>2, <2>3, StutterIsSettle DEF SendRequest
<1>3. ASSUME NEW c \in Callers, ClearCounter(c) PROVE BodyLossy!Next
  <2>1. InFlight' \subseteq InFlight
    BY <1>3, InFlightMonotone DEF ClearCounter, InFlight, NoCall, TypeInv, BodyTypeOK
  <2>2. QED
    BY <1>3, <2>1, StutterIsSettle DEF ClearCounter
<1>4. ASSUME NEW c \in Callers, ClearBuckets(c) PROVE BodyLossy!Next
  <2>1. InFlight' \subseteq InFlight
    BY <1>4, InFlightMonotone DEF ClearBuckets, InFlight, Clearing, TypeInv, BodyTypeOK
  <2>2. db'.bodies = NoBodies
    BY <1>4, FileParts DEF ClearBuckets
  <2>3. QED
    BY <2>1, <2>2, OfferedMonotone DEF BodyLossy!Settle, NoBodies
<1>5. ASSUME NEW k \in Keys, DeleteBody(k) PROVE BodyLossy!Next
  <2>1. InFlight' \subseteq InFlight
    BY <1>5, InFlightMonotone DEF DeleteBody, InFlight
  <2>2. db'.bodies = db.bodies \/ db'.bodies = [db.bodies EXCEPT ![k] = NoBody]
    BY <1>5, FileParts DEF DeleteBody, Drop
  <2>3. db.bodies \in [Keys -> BodyVersions \cup {NoBody}]
    BY PartsType DEF TypeInv, BodyTypeOK
  <2>4. QED
    BY <2>1, <2>2, <2>3, OfferedMonotone DEF BodyLossy!Settle
<1>6. CASE ReceiveBody
  <2>1. Range(bputs') \subseteq Range(bputs) /\ Head(bputs) \in Range(bputs) /\ Head(bputs) \in Request
    BY <1>6, RangeHeadTail, HeadTail DEF ReceiveBody, TypeInv, BodyTypeOK
  <2>2. gathered' = Append(gathered, Head(bputs))
    BY <1>6 DEF ReceiveBody, StartFlush
  <2>3. Range(gathered') = Range(gathered) \cup {Head(bputs)}
    BY <2>1, <2>2, RangeAppend DEF TypeInv, BodyTypeOK
  <2>4. InFlight' \subseteq InFlight
    BY <1>6, <2>1, <2>3, InFlightMonotone DEF ReceiveBody, InFlight
  <2>5. QED
    BY <1>6, <2>4, StutterIsSettle DEF ReceiveBody
<1>7. CASE Tick
  BY <1>7, InFlightMonotone, StutterIsSettle DEF Tick, StartFlush, InFlight
<1>8. CASE Mirror \/ CheckCap \/ Evict \/ EvictDone \/ WriterReturns \/ Close \/ Open
  <2>1. UNCHANGED <<db, call, bputs, gathered>>
    BY <1>8 DEF Mirror, CheckCap, Evict, EvictDone, WriterReturns, Close, Open
  <2>2. InFlight' \subseteq InFlight
    BY <2>1, InFlightMonotone DEF InFlight
  <2>3. QED
    BY <2>1, <2>2, StutterIsSettle
<1>9. CASE Apply
  <2>1. InFlight' \subseteq InFlight
    BY <1>9, InFlightMonotone DEF Apply, InFlight, Clearing
  <2>2. QED
    BY <1>9, <2>1, StutterIsSettle DEF Apply
<1>10. ASSUME EndFlush PROVE InFlight' \subseteq InFlight
  BY <1>10, RangeEmpty, InFlightMonotone DEF EndFlush, InFlight
<1>11. CASE Commit
  <2>1. db' = tx
    BY <1>11 DEF Commit
  <2>2. OfferedBodies' \subseteq OfferedBodies
    BY <1>10, <1>11, OfferedMonotone DEF Commit
  <2>3. \A k \in Keys : tx.bodies[k] \in {db.bodies[k], NoBody} \/ <<k, tx.bodies[k]>> \in OfferedBodies
    BY DEF FlushInv, OfferedBodies, InFlight
  <2>4. tx.bodies \in [Keys -> BodyVersions \cup {NoBody}]
    BY PartsType DEF TypeInv, BodyTypeOK
  <2>5. QED
    BY <2>1, <2>2, <2>3, <2>4 DEF BodyLossy!Settle
<1>12. CASE Abort
  BY <1>10, <1>12, StutterIsSettle DEF Abort
<1>13. CASE Die
  <2>1. InFlight' \subseteq InFlight
    BY <1>13, RangeEmpty, InFlightMonotone DEF Die, NoCall, InFlight
  <2>2. QED
    BY <1>13, <2>1, StutterIsSettle DEF Die
<1>14. CASE UNCHANGED bodyVars
  <2>1. InFlight' \subseteq InFlight
    BY <1>14, InFlightMonotone DEF bodyVars, InFlight
  <2>2. QED
    BY <1>14, <2>1, StutterIsSettle DEF bodyVars
<1>15. QED
  BY <1>1, <1>2, <1>3, <1>4, <1>5, <1>6, <1>7, <1>8, <1>9, <1>11, <1>12, <1>13, <1>14
  DEF BodyNext, CallerNext, WriterNext, PutBody, LookupBody, BodyCrash, SendPanics

LEMMA FlushInvStep ==
  ASSUME TypeInv, FlushInv, [BodyNext]_bodyVars
  PROVE  FlushInv'
<1>1. ASSUME NEW c \in Callers, NEW k \in Keys, NEW v \in BodyVersions \cup {NoBody},
             Enqueue(c, k, v)
      PROVE  UNCHANGED <<db, tx, flush, toApply, gathered>>
  BY <1>1 DEF Enqueue
<1>2. ASSUME NEW c \in Callers, SendRequest(c) \/ ClearCounter(c)
      PROVE  UNCHANGED <<db, tx, flush, toApply, gathered>>
  BY <1>2 DEF SendRequest, ClearCounter
<1>3. CASE WriterReturns \/ Close \/ Open \/ UNCHANGED bodyVars
  BY <1>3 DEF WriterReturns, Close, Open, bodyVars, FlushInv
<1>4. ASSUME NEW c \in Callers, ClearBuckets(c) PROVE FlushInv'
  BY <1>4 DEF ClearBuckets, FlushInv
<1>5. ASSUME NEW k \in Keys, DeleteBody(k) PROVE FlushInv'
  BY <1>5 DEF DeleteBody, FlushInv
<1>6. CASE ReceiveBody
  <2>1. Head(bputs) \in Request
    BY <1>6, HeadTail DEF ReceiveBody, TypeInv, BodyTypeOK
  <2>2. /\ gathered' = Append(gathered, Head(bputs))
        /\ toApply' = toApply \/ toApply' = gathered'
        /\ UNCHANGED <<db, tx>>
    BY <1>6 DEF ReceiveBody, StartFlush
  <2>3. Range(gathered) \subseteq Range(gathered')
    BY <2>1, <2>2, RangeAppend DEF TypeInv, BodyTypeOK
  <2>4. tx = db
    BY <1>6 DEF ReceiveBody, FlushInv
  <2>5. QED
    BY <2>2, <2>3, <2>4 DEF FlushInv
<1>7. CASE Tick
  BY <1>7 DEF Tick, StartFlush, FlushInv
<1>8. CASE Mirror \/ CheckCap \/ EvictDone
  <2>1. UNCHANGED <<db, toApply, gathered, tx.bodies>> /\ flush' # "idle"
    BY <1>8, FileParts DEF Mirror, MirrorTotal, CheckCap, EvictDone
  <2>2. QED
    BY <2>1 DEF FlushInv
<1>9. CASE Apply
  <2> DEFINE r == Head(toApply)
  <2>1. /\ r \in Request /\ r \in Range(toApply)
        /\ Range(toApply') \subseteq Range(toApply)
    BY <1>9, HeadTail, RangeHeadTail DEF TypeInv, BodyTypeOK, Apply
  <2>2. /\ tx'.bodies = [tx.bodies EXCEPT ![r.key] = NewBody(r)]
        /\ UNCHANGED <<db, gathered>> /\ flush' # "idle"
    BY <1>9, FileParts DEF Apply
  <2>3. tx.bodies \in [Keys -> BodyVersions \cup {NoBody}]
    BY PartsType DEF TypeInv, BodyTypeOK
  <2> HIDE DEF r
  <2>4. r \in Range(gathered)
    BY <2>1 DEF FlushInv
  <2>5. ASSUME NEW k \in Keys
        PROVE  \/ tx'.bodies[k] \in {db.bodies[k], NoBody}
               \/ \E q \in Range(gathered) : q.key = k /\ q.val = tx'.bodies[k]
    <3>1. CASE k = r.key /\ r.val # NoBody
      BY <2>2, <2>3, <2>4, <3>1 DEF NewBody
    <3>2. CASE k # r.key \/ r.val = NoBody
      <4>1. tx'.bodies[k] = tx.bodies[k]
        BY <2>2, <2>3, <3>2 DEF NewBody
      <4>2. QED
        BY <4>1 DEF FlushInv
    <3>3. QED
      BY <3>1, <3>2
  <2>6. QED
    BY <2>1, <2>2, <2>5 DEF FlushInv
<1>10. CASE Evict
  <2>1. PICK e \in Keys : tx' = Drop(tx, e, tx.worth)
    BY <1>10 DEF Evict, Oldest, Tracked
  <2>2. tx'.bodies = [tx.bodies EXCEPT ![e] = NoBody]
    BY <2>1, FileParts DEF Drop
  <2>3. UNCHANGED <<db, toApply, gathered>> /\ flush' # "idle"
    BY <1>10 DEF Evict
  <2>4. tx.bodies \in [Keys -> BodyVersions \cup {NoBody}]
    BY PartsType DEF TypeInv, BodyTypeOK
  <2>5. QED
    BY <2>2, <2>3, <2>4 DEF FlushInv
<1>11. CASE Commit \/ Abort \/ Die
  BY <1>11, RangeEmpty DEF Commit, Abort, Die, EndFlush, FlushInv
<1>12. ASSUME UNCHANGED <<db, tx, flush, toApply, gathered>> PROVE FlushInv'
  BY <1>12 DEF FlushInv
<1>13. QED
  BY <1>1, <1>2, <1>3, <1>4, <1>5, <1>6, <1>7, <1>8, <1>9, <1>10, <1>11, <1>12
  DEF BodyNext, CallerNext, WriterNext, PutBody, LookupBody, BodyCrash, SendPanics

(* Every behaviour of the body cache is one of a lossy cache: no body      *)
(* appears under a path it was not put for, through any interleaving of    *)
(* flushes, evictions, failed transactions, crashes and restarts.          *)
THEOREM ImplementsLossyCache == BodySpec => BodiesLossy
<1>1. BodyInit => BodyLossy!Init
  <2> SUFFICES ASSUME BodyInit PROVE BodyLossy!Init
    OBVIOUS
  <2>1. InFlight = {}
    BY RangeEmpty DEF BodyInit, InFlight, NoCall
  <2>2. OfferedBodies = {}
    BY <2>1 DEF OfferedBodies
  <2>3. db.bodies \in [Keys -> BodyVersions \cup {NoBody}]
    BY FileParts DEF BodyInit, EmptyDB, NoBodies
  <2>4. QED
    BY <2>2, <2>3 DEF BodyLossy!Init
<1>2. BodyInit => FlushInv
  BY RangeEmpty DEF BodyInit, FlushInv
<1>3. TypeInv /\ TypeInv' /\ FlushInv /\ [BodyNext]_bodyVars => [BodyLossy!Next]_(BodyLossy!lvars)
  BY LossyStep
<1>4. TypeInv /\ FlushInv /\ [BodyNext]_bodyVars => FlushInv'
  BY FlushInvStep
<1>5. QED
  BY <1>1, <1>2, <1>3, <1>4, TypeCorrect, PTL DEF BodySpec, BodiesLossy, BodyLossy!Spec
-----------------------------------------------------------------------------
(* Bytes of a bodies bucket, and what one entry more or less makes of them.*)
LEMMA BytesType ==
  ASSUME NEW b \in [Keys -> BodyVersions \cup {NoBody}]
  PROVE  BytesOf(b) \in Nat
<1> DEFINE f == [k \in DOMAIN b |-> Size(b[k])]
<1>1. DOMAIN f = Keys /\ \A k \in Keys : f[k] \in Nat
  BY SizeType
<1>2. SumFunctionOnSet(f, Keys) \in Nat
  BY <1>1, SumNat, BodyCacheAssumption
<1> QED
  BY <1>1, <1>2 DEF BytesOf, SumFunction

LEMMA BytesExcept ==
  ASSUME NEW b \in [Keys -> BodyVersions \cup {NoBody}], NEW k \in Keys, NEW v \in BodyVersions \cup {NoBody}
  PROVE  BytesOf([b EXCEPT ![k] = v]) = BytesOf(b) + Size(v) - Size(b[k])
<1> DEFINE f == [j \in DOMAIN b |-> Size(b[j])]
           c == [b EXCEPT ![k] = v]
           g == [j \in DOMAIN c |-> Size(c[j])]
<1>1. f \in [Keys -> Int] /\ g \in [Keys -> Int]
  BY SizeType
<1>2. f[k] = Size(b[k]) /\ g[k] = Size(v) /\ \A j \in Keys \ {k} : g[j] = f[j]
  OBVIOUS
<1>3. SumFunction(g) = SumFunction(f) + g[k] - f[k]
  <2> HIDE DEF f, g
  <2> QED
    BY <1>1, <1>2, SumExcept, BodyCacheAssumption
<1> QED
  BY <1>2, <1>3 DEF BytesOf

LEMMA BytesNone == BytesOf(NoBodies) = 0
<1> DEFINE f == [k \in DOMAIN NoBodies |-> Size(NoBodies[k])]
<1>1. DOMAIN f = Keys /\ \A k \in Keys : f[k] = 0
  BY DEF NoBodies, Size
<1>2. SumFunctionOnSet(f, Keys) = 0
  BY <1>1, SumZero, BodyCacheAssumption
<1> QED
  BY <1>1, <1>2 DEF BytesOf, SumFunction

(* A counter n that is trusted to the degree t, against bodies b.          *)
Covers(t, n, b) ==
  /\ t = "exact" => n = BytesOf(b)
  /\ t = "over" => n >= BytesOf(b)

(* The counter of a running process covers what its transaction holds; the *)
(* mirrored one what the file holds, and what a transaction holds that has *)
(* just mirrored it.  A Clear whose Store(0) is still to come and that no  *)
(* put has raced has left nothing to count.                                *)
CapInv ==
  /\ status # "down" => Covers(trust, total, tx.bodies)
  /\ Covers(db.worth, db.meta, db.bodies)
  /\ flush \in {"check", "commit"} => Covers(tx.worth, tx.meta, tx.bodies)
  /\ \A c \in Callers : call[c] = Clearing(FALSE) => tx.bodies = NoBodies /\ db.bodies = NoBodies

LEMMA WeakenCovers ==
  ASSUME NEW t \in Trust, NEW n \in Int,
         NEW b \in [Keys -> BodyVersions \cup {NoBody}], NEW c \in [Keys -> BodyVersions \cup {NoBody}],
         Covers(t, n, b), BytesOf(c) <= BytesOf(b)
  PROVE  Covers(Weaken(t), n, c)
BY BytesType DEF Covers, Weaken, Trust

LEMMA MovedCovers ==
  ASSUME NEW t, NEW n \in Int, NEW b \in [Keys -> BodyVersions \cup {NoBody}], NEW k \in Keys,
         NEW v \in BodyVersions \cup {NoBody}, Covers(t, n, b)
  PROVE  Covers(t, n + Size(v) - Size(b[k]), [b EXCEPT ![k] = v])
<1>1. BytesOf([b EXCEPT ![k] = v]) = BytesOf(b) + Size(v) - Size(b[k])
  BY BytesExcept
<1>2. BytesOf(b) \in Nat /\ Size(v) \in Nat /\ Size(b[k]) \in Nat
  BY BytesType, SizeType
<1> QED
  BY <1>1, <1>2 DEF Covers

LEMMA DroppedCovers ==
  ASSUME NEW t, NEW n \in Int, NEW f \in DB, NEW k \in Keys, Covers(t, n, f.bodies)
  PROVE  /\ Covers(t, n - Size(f.bodies[k]), [f.bodies EXCEPT ![k] = NoBody])
         /\ BytesOf([f.bodies EXCEPT ![k] = NoBody]) <= BytesOf(f.bodies)
<1>1. f.bodies \in [Keys -> BodyVersions \cup {NoBody}] /\ f.bodies[k] \in BodyVersions \cup {NoBody}
  BY PartsType
<1>2. Size(NoBody) = 0 /\ Size(f.bodies[k]) \in Nat /\ BytesOf(f.bodies) \in Nat
  BY <1>1, SizeType, BytesType DEF Size
<1>3. Covers(t, n + Size(NoBody) - Size(f.bodies[k]), [f.bodies EXCEPT ![k] = NoBody])
  BY <1>1, MovedCovers
<1>4. n + Size(NoBody) - Size(f.bodies[k]) = n - Size(f.bodies[k])
  BY <1>2
<1>5. BytesOf([f.bodies EXCEPT ![k] = NoBody]) = BytesOf(f.bodies) + Size(NoBody) - Size(f.bodies[k])
  BY <1>1, BytesExcept
<1> QED
  BY <1>2, <1>3, <1>4, <1>5

LEMMA CapInitInv == BodyInit => CapInv
BY BytesNone, FileParts DEF BodyInit, CapInv, Covers, EmptyDB, NoCall, Clearing

LEMMA CapInvStep ==
  ASSUME TypeInv, FlushInv, CapInv, [BodyNext]_bodyVars
  PROVE  CapInv'
<1> USE DEF CapInv
<1>t. /\ db \in DB /\ tx \in DB /\ total \in Int /\ trust \in Trust
      /\ tx.bodies \in [Keys -> BodyVersions \cup {NoBody}] /\ db.bodies \in [Keys -> BodyVersions \cup {NoBody}]
      /\ db.meta \in Int /\ db.worth \in Trust
  BY PartsType DEF TypeInv, BodyTypeOK
<1>n. NoBodies \in [Keys -> BodyVersions \cup {NoBody}]
  BY DEF NoBodies
<1>1. ASSUME NEW c \in Callers, NEW k \in Keys, NEW v \in BodyVersions \cup {NoBody},
             Enqueue(c, k, v)
      PROVE  CapInv'
  BY <1>1 DEF Enqueue, Sending, Clearing, TypeInv, BodyTypeOK
<1>2. ASSUME NEW c \in Callers, SendRequest(c) PROVE CapInv'
  BY <1>2 DEF SendRequest, NoCall, Clearing, TypeInv, BodyTypeOK
<1>3. ASSUME NEW c \in Callers, ClearCounter(c) PROVE CapInv'
  <2>1. /\ UNCHANGED <<db, tx, flush, status>> /\ total' = 0
        /\ trust' = "exact" => call[c].raced = FALSE
        /\ trust' \in {"none", "exact"}
    BY <1>3 DEF ClearCounter
  <2>2. \A d \in Callers : call'[d] = Clearing(FALSE) => call[d] = Clearing(FALSE)
    BY <1>3 DEF ClearCounter, NoCall, Clearing, TypeInv, BodyTypeOK
  <2>3. call[c].raced = FALSE => call[c] = Clearing(FALSE)
    <3>1. call[c] \in Calls /\ call[c].op = "clear"
      BY <1>3 DEF ClearCounter, TypeInv, BodyTypeOK
    <3>2. call[c] # NoCall /\ (\A r : call[c] # Sending(r))
      BY <3>1 DEF NoCall, Sending
    <3>3. PICK raced \in BOOLEAN : call[c] = Clearing(raced)
      BY <3>1, <3>2 DEF Calls
    <3>4. call[c].raced = raced
      BY <3>3 DEF Clearing
    <3> QED
      BY <3>3, <3>4
  <2>4. Covers(trust', total', tx'.bodies)
    BY <2>1, <2>3, BytesNone DEF Covers
  <2> QED
    BY <2>1, <2>2, <2>4
<1>4. ASSUME NEW c \in Callers, ClearBuckets(c) PROVE CapInv'
  <2>1. /\ tx'.bodies = NoBodies /\ db'.bodies = NoBodies
        /\ db'.worth = Weaken(db.worth) /\ db'.meta = db.meta
        /\ trust' = Weaken(trust) /\ total' = total /\ status # "down" /\ flush' = "idle"
    BY <1>4, FileParts DEF ClearBuckets, Running
  <2>2. BytesOf(NoBodies) <= BytesOf(tx.bodies) /\ BytesOf(NoBodies) <= BytesOf(db.bodies)
    BY <1>t, BytesNone, BytesType
  <2>3. Covers(trust', total', tx'.bodies)
    BY <2>1, <2>2, <1>t, <1>n, WeakenCovers
  <2>4. Covers(db'.worth, db'.meta, db'.bodies)
    BY <2>1, <2>2, <1>t, <1>n, WeakenCovers
  <2> QED
    BY <2>1, <2>3, <2>4
<1>5. ASSUME NEW k \in Keys, DeleteBody(k) PROVE CapInv'
  <2> DEFINE b == [db.bodies EXCEPT ![k] = NoBody]
  <2>1. /\ tx = db /\ tx' = db' /\ total' = total - Size(db.bodies[k]) /\ UNCHANGED <<call, status, flush>>
        /\ flush = "idle" /\ status # "down"
    BY <1>5 DEF DeleteBody, FlushInv, Running
  <2>2. CASE trust' = "none" /\ db' = db
    BY <2>1, <2>2 DEF Covers
  <2>3. CASE trust' = trust /\ db' = Drop(db, k, Weaken(db.worth))
    <3>1. db'.bodies = b /\ db'.meta = db.meta /\ db'.worth = Weaken(db.worth)
      BY <2>3, FileParts DEF Drop
    <3>2. b \in [Keys -> BodyVersions \cup {NoBody}]
      BY <1>t
    <3>3. Covers(trust, total - Size(db.bodies[k]), b)
      BY <1>t, <2>1, DroppedCovers
    <3>4. BytesOf(b) <= BytesOf(db.bodies)
      BY <1>t, <2>1, DroppedCovers
    <3>5. Covers(Weaken(db.worth), db.meta, b)
      BY <1>t, <3>2, <3>4, WeakenCovers
    <3>6. db.bodies = NoBodies => b = NoBodies
      BY DEF NoBodies
    <3> QED
      BY <2>1, <2>3, <3>1, <3>3, <3>5, <3>6
  <2> QED
    BY <1>5, <2>2, <2>3 DEF DeleteBody
<1>6. CASE ReceiveBody \/ Tick
  BY <1>6 DEF ReceiveBody, Tick, StartFlush
<1>7. CASE Apply
  <2> DEFINE r == Head(toApply)
  <2>1. r \in Request
    BY <1>7, HeadTail DEF TypeInv, BodyTypeOK, Apply
  <2>2. /\ tx'.bodies = [tx.bodies EXCEPT ![r.key] = NewBody(r)]
        /\ total' = total + Growth(r)
        /\ UNCHANGED <<db, status, trust>> /\ flush' \in {"apply", "mirror"}
        /\ call' = [c \in Callers |-> IF r.val # NoBody /\ call[c].op = "clear"
                                      THEN Clearing(TRUE) ELSE call[c]]
    BY <1>7, FileParts DEF Apply
  <2>3. status # "down"
    BY <1>7 DEF Apply, TypeInv
  <2> HIDE DEF r
  <2>4. r.key \in Keys /\ r.val \in BodyVersions \cup {NoBody}
    BY <2>1, RequestType
  <2>5. CASE r.val = NoBody
    <3>1. tx'.bodies = tx.bodies /\ total' = total
      BY <1>t, <2>2, <2>4, <2>5 DEF NewBody, Growth
    <3>2. \A c \in Callers : call'[c] = call[c]
      BY <2>2, <2>5
    <3> QED
      BY <2>2, <2>3, <3>1, <3>2
  <2>6. CASE r.val # NoBody
    <3>1. Growth(r) = Size(r.val) - Size(tx.bodies[r.key]) /\ NewBody(r) = r.val
      BY <2>6 DEF Growth, NewBody
    <3>2. Covers(trust, total + Size(r.val) - Size(tx.bodies[r.key]), [tx.bodies EXCEPT ![r.key] = r.val])
      BY <1>t, <2>3, <2>4, MovedCovers
    <3>3. Size(r.val) \in Nat /\ Size(tx.bodies[r.key]) \in Nat
      BY <1>t, <2>4, SizeType
    <3>4. total' = total + Size(r.val) - Size(tx.bodies[r.key])
      BY <1>t, <2>2, <3>1, <3>3
    <3>5. \A c \in Callers : call'[c] # Clearing(FALSE)
      BY <2>2, <2>6 DEF Clearing
    <3> QED
      BY <2>2, <3>1, <3>2, <3>4, <3>5
  <2> QED
    BY <2>5, <2>6
<1>8. CASE Mirror
  <2>1. /\ tx'.bodies = tx.bodies /\ tx'.meta = total /\ tx'.worth = trust /\ status # "down"
        /\ UNCHANGED <<db, total, call, status, trust>>
    BY <1>8, FileParts DEF Mirror, MirrorTotal, TypeInv
  <2> QED
    BY <2>1
<1>9. CASE CheckCap
  BY <1>9 DEF CheckCap
<1>10. CASE Evict
  <2>1. PICK k \in Keys : tx' = Drop(tx, k, tx.worth) /\ total' = total - Size(tx.bodies[k])
    BY <1>10 DEF Evict, Oldest, Tracked
  <2>2. tx'.bodies = [tx.bodies EXCEPT ![k] = NoBody]
    BY <2>1, FileParts DEF Drop
  <2>3. UNCHANGED <<db, call, status, trust>> /\ flush' = "evict" /\ status # "down"
    BY <1>10 DEF Evict, TypeInv
  <2>4. Covers(trust, total - Size(tx.bodies[k]), [tx.bodies EXCEPT ![k] = NoBody])
    BY <1>t, <2>3, DroppedCovers
  <2>5. tx.bodies = NoBodies => [tx.bodies EXCEPT ![k] = NoBody] = NoBodies
    BY DEF NoBodies
  <2> QED
    BY <2>1, <2>2, <2>3, <2>4, <2>5
<1>11. CASE EvictDone
  <2>1. /\ tx'.bodies = tx.bodies /\ tx'.meta = total /\ tx'.worth = trust /\ status # "down"
        /\ UNCHANGED <<db, total, call, status, trust>>
    BY <1>11, FileParts DEF EvictDone, MirrorTotal, TypeInv
  <2> QED
    BY <2>1
<1>12. CASE Commit
  BY <1>12 DEF Commit, EndFlush
<1>13. CASE Abort
  BY <1>13 DEF Abort, EndFlush, Covers
<1>14. CASE WriterReturns \/ Close
  BY <1>14 DEF WriterReturns, Close
<1>15. CASE Die
  BY <1>15 DEF Die, NoCall, Clearing
<1>16. CASE Open
  <2>1. tx = db
    BY <1>16 DEF Open, FlushInv, TypeInv
  <2> QED
    BY <1>16, <2>1 DEF Open, RecoveredTotal, TypeInv
<1>17. CASE UNCHANGED bodyVars
  BY <1>17 DEF bodyVars
<1> QED
  BY <1>1, <1>2, <1>3, <1>4, <1>5, <1>6, <1>7, <1>8, <1>9, <1>10, <1>11, <1>12, <1>13,
     <1>14, <1>15, <1>16, <1>17
  DEF BodyNext, CallerNext, WriterNext, PutBody, LookupBody, BodyCrash, SendPanics

(* Eviction reaches every body, the counter never falls below the bytes    *)
(* stored, and no batch leaves more than the cap on disk, for any paths,   *)
(* sizes, caps and callers.                                                *)
THEOREM CapIsKept == BodySpec => []CapKept
<1>1. BodyInit => FlushInv
  BY RangeEmpty DEF BodyInit, FlushInv
<1>2. TypeInv /\ EveryBodyEvictable /\ PostBatch /\ CapInv => CapKept
  <2> SUFFICES ASSUME TypeInv, EveryBodyEvictable, PostBatch, CapInv PROVE CapKept
    OBVIOUS
  <2>1. CounterCoversBodies
    BY DEF CapInv, Covers, CounterCoversBodies, Running
  <2>2. ASSUME flush = "commit", trust # "none" PROVE BytesOf(tx.bodies) <= cap
    <3>1. total \in Int /\ cap \in Nat /\ BytesOf(tx.bodies) \in Nat /\ status # "down" /\ trust \in Trust
      BY <2>2, BytesType, PartsType, BodyCacheAssumption DEF TypeInv, BodyTypeOK
    <3>2. BytesOf(tx.bodies) <= total
      BY <2>2, <3>1 DEF CapInv, Covers, Trust
    <3>3. total <= cap \/ BytesOf(tx.bodies) = 0
      BY <2>2, BytesNone DEF PostBatch
    <3> QED
      BY <3>1, <3>2, <3>3
  <2> QED
    BY <2>1, <2>2 DEF CapKept, DiskWithinCap
<1> QED
  BY <1>1, <1>2, CapInitInv, CapInvStep, FlushInvStep, TypeCorrect, EvictionHolds, PTL DEF BodySpec

(* What has been applied of a batch.                                       *)
Applied == 1 .. Len(gathered) - Len(toApply)

LastApplied(i) ==
  /\ gathered[i].val # NoBody
  /\ \A j \in Applied : j > i /\ gathered[j].key = gathered[i].key => gathered[j].val = NoBody

(* What is left of a batch is its end, and what is applied of it left the  *)
(* last body put under each key, or eviction took it.                      *)
BatchInv ==
  flush # "idle" =>
    /\ Len(toApply) <= Len(gathered)
    /\ \A j \in 1 .. Len(toApply) : toApply[j] = gathered[Len(gathered) - Len(toApply) + j]
    /\ flush # "apply" => toApply = <<>>
    /\ \A i \in Applied :
         LastApplied(i) => tx.bodies[gathered[i].key] \in {gathered[i].val, NoBody}

LEMMA BatchInvStep ==
  ASSUME TypeInv, BatchInv, [BodyNext]_bodyVars
  PROVE  BatchInv'
<1>t. /\ tx \in DB /\ gathered \in Seq(Request) /\ toApply \in Seq(Request) /\ bputs \in Seq(Request)
      /\ tx.bodies \in [Keys -> BodyVersions \cup {NoBody}] /\ Len(gathered) \in Nat /\ Len(toApply) \in Nat
  BY PartsType, LenProperties DEF TypeInv, BodyTypeOK
<1>1. ASSUME UNCHANGED <<tx, flush, toApply, gathered>> PROVE BatchInv'
  BY <1>1 DEF BatchInv, Applied, LastApplied
<1>2. ASSUME flush' = "idle" PROVE BatchInv'
  BY <1>2 DEF BatchInv
<1>3. ASSUME toApply' = gathered', gathered' \in Seq(Request), flush' = "apply" PROVE BatchInv'
  <2>1. Len(gathered') \in Nat
    BY <1>3, LenProperties
  <2>2. Len(gathered') - Len(toApply') = 0 /\ Applied' = {}
    BY <1>3, <2>1 DEF Applied
  <2> QED
    BY <1>3, <2>1, <2>2 DEF BatchInv
<1>4. CASE ReceiveBody
  <2>1. Append(gathered, Head(bputs)) \in Seq(Request) /\ flush = "idle"
    BY <1>4, <1>t, HeadTail, AppendType DEF ReceiveBody
  <2> QED
    BY <1>2, <1>3, <1>4, <2>1 DEF ReceiveBody, StartFlush
<1>5. CASE Tick
  BY <1>3, <1>5, <1>t DEF Tick, StartFlush
<1>6. CASE Apply
  <2> DEFINE r == Head(toApply)
             d == Len(gathered) - Len(toApply) + 1
  <2>1. /\ r \in Request /\ toApply # <<>> /\ Len(toApply') = Len(toApply) - 1 /\ Len(toApply) >= 1
        /\ r = toApply[1] /\ \A j \in 1 .. Len(toApply') : toApply'[j] = toApply[j + 1]
    BY <1>6, <1>t, HeadTailProperties, EmptySeq DEF Apply, TypeInv
  <2>2. /\ tx'.bodies = [tx.bodies EXCEPT ![r.key] = NewBody(r)]
        /\ UNCHANGED gathered /\ flush' = IF toApply' = <<>> THEN "mirror" ELSE "apply"
    BY <1>6, FileParts DEF Apply
  <2>3. /\ Len(toApply) <= Len(gathered) /\ r = gathered[d]
        /\ \A j \in 1 .. Len(toApply) : toApply[j] = gathered[Len(gathered) - Len(toApply) + j]
        /\ \A i \in Applied :
             LastApplied(i) => tx.bodies[gathered[i].key] \in {gathered[i].val, NoBody}
    <3>1. flush = "apply"
      BY <1>6 DEF Apply
    <3>2. /\ Len(toApply) <= Len(gathered)
          /\ \A j \in 1 .. Len(toApply) : toApply[j] = gathered[Len(gathered) - Len(toApply) + j]
          /\ \A i \in Applied :
              LastApplied(i) => tx.bodies[gathered[i].key] \in {gathered[i].val, NoBody}
      BY <3>1 DEF BatchInv
    <3>3. toApply[1] = gathered[Len(gathered) - Len(toApply) + 1]
      BY <2>1, <3>2, <1>t
    <3> QED
      BY <2>1, <3>2, <3>3
  <2> HIDE DEF r
  <2>4. Len(toApply') <= Len(gathered') 
        /\ \A j \in 1 .. Len(toApply') : toApply'[j] = gathered'[Len(gathered') - Len(toApply') + j]
    <3>1. ASSUME NEW j \in 1 .. Len(toApply') PROVE toApply'[j] = gathered'[Len(gathered') - Len(toApply') + j]
      <4>1. j + 1 \in 1 .. Len(toApply) /\ toApply'[j] = toApply[j + 1]
        BY <1>t, <2>1
      <4>2. Len(gathered) - Len(toApply) + (j + 1) = Len(gathered) - Len(toApply') + j
        BY <1>t, <2>1
      <4> QED
        BY <4>1, <4>2, <2>2, <2>3
    <3> QED
      BY <3>1, <1>t, <2>1, <2>2, <2>3
  <2>5. /\ Applied' = Applied \cup {d} /\ d \in Nat /\ \A i \in Applied : i < d
        /\ Applied \subseteq 1 .. Len(gathered) /\ d \in 1 .. Len(gathered)
    BY <1>t, <2>1, <2>2, <2>3 DEF Applied
  <2> HIDE DEF d
  <2>6. ASSUME NEW i \in Applied', LastApplied(i)'
        PROVE  tx'.bodies[gathered'[i].key] \in {gathered'[i].val, NoBody}
    <3>1. gathered[i] \in Request /\ r.key \in Keys /\ gathered[i].key \in Keys
      BY <1>t, <2>1, <2>2, <2>5, ElementOfSeq, RequestType
    <3>2. CASE i = d
      BY <3>1, <3>2, <2>2, <2>3, <2>6, <1>t DEF LastApplied, NewBody
    <3>3. CASE i \in Applied
      <4>1. LastApplied(i)
        BY <2>2, <2>5, <2>6 DEF LastApplied
      <4>2. tx.bodies[gathered[i].key] \in {gathered[i].val, NoBody}
        BY <2>3, <3>3, <4>1
      <4>3. r.key = gathered[i].key => r.val = NoBody
        BY <2>2, <2>3, <2>5, <2>6, <3>3 DEF LastApplied
      <4>4. tx'.bodies[gathered[i].key] = tx.bodies[gathered[i].key]
        BY <2>2, <3>1, <4>3, <1>t DEF NewBody
      <4> QED
        BY <2>2, <4>2, <4>4
    <3> QED
      BY <2>5, <3>2, <3>3
  <2> QED
    BY <2>2, <2>4, <2>6 DEF BatchInv
<1>7. CASE Mirror \/ CheckCap \/ EvictDone
  <2>1. UNCHANGED <<toApply, gathered, tx.bodies>> /\ flush \notin {"idle", "apply"} /\ flush' # "apply"
    BY <1>7, FileParts DEF Mirror, MirrorTotal, CheckCap, EvictDone
  <2> QED
    BY <2>1 DEF BatchInv, Applied, LastApplied
<1>8. CASE Evict
  <2>1. PICK k \in Keys : tx' = Drop(tx, k, tx.worth)
    BY <1>8 DEF Evict, Oldest, Tracked
  <2>2. tx'.bodies = [tx.bodies EXCEPT ![k] = NoBody]
    BY <2>1, FileParts DEF Drop
  <2>3. UNCHANGED <<toApply, gathered>> /\ flush = "evict" /\ flush' = "evict"
    BY <1>8 DEF Evict
  <2>4. \A i \in Applied : gathered[i].key \in Keys
    BY <1>t, <2>3, ElementOfSeq, RequestType DEF Applied, BatchInv
  <2> QED
    BY <1>t, <2>2, <2>3, <2>4 DEF BatchInv, Applied, LastApplied
<1>9. CASE Commit \/ Abort \/ Die
  BY <1>2, <1>9 DEF Commit, Abort, Die, EndFlush
<1>10. ASSUME NEW c \in Callers, ClearBuckets(c) PROVE BatchInv'
  BY <1>2, <1>10 DEF ClearBuckets
<1>11. ASSUME NEW k \in Keys, DeleteBody(k) PROVE BatchInv'
  BY <1>2, <1>11 DEF DeleteBody
<1>12. ASSUME NEW c \in Callers, NEW k \in Keys, NEW v \in BodyVersions \cup {NoBody}, Enqueue(c, k, v)
       PROVE  BatchInv'
  BY <1>1, <1>12 DEF Enqueue
<1>13. ASSUME NEW c \in Callers, SendRequest(c) \/ ClearCounter(c) PROVE BatchInv'
  BY <1>1, <1>13 DEF SendRequest, ClearCounter
<1>14. CASE WriterReturns \/ Close \/ Open \/ UNCHANGED bodyVars
  BY <1>1, <1>14 DEF WriterReturns, Close, Open, bodyVars
<1> QED
  BY <1>4, <1>5, <1>6, <1>7, <1>8, <1>9, <1>10, <1>11, <1>12, <1>13, <1>14
  DEF BodyNext, CallerNext, WriterNext, PutBody, LookupBody, BodyCrash, SendPanics

(* The last body put under a key in a batch is the one the batch leaves,   *)
(* unless eviction took it.                                                *)
THEOREM BatchIsApplied == BodySpec => []BatchApplied
<1>1. BodyInit => BatchInv
  BY DEF BodyInit, BatchInv
<1>2. TypeInv /\ BatchInv => BatchApplied
  <2> SUFFICES ASSUME TypeInv, BatchInv, flush = "commit", NEW i \in DOMAIN gathered, LastBodyPut(i)
               PROVE  tx.bodies[gathered[i].key] \in {gathered[i].val, NoBody}
    BY DEF BatchApplied
  <2>1. toApply = <<>> /\ gathered \in Seq(Request)
    BY DEF BatchInv, TypeInv, BodyTypeOK
  <2>2. Len(gathered) \in Nat /\ DOMAIN gathered = 1 .. Len(gathered) /\ Len(toApply) = 0
    BY <2>1, LenProperties
  <2>3. i \in Applied /\ Applied = 1 .. Len(gathered)
    BY <2>2 DEF Applied
  <2>4. LastApplied(i)
    BY <2>2, <2>3 DEF LastBodyPut, LastApplied
  <2> QED
    BY <2>3, <2>4 DEF BatchInv
<1> QED
  BY <1>1, <1>2, BatchInvStep, TypeCorrect, PTL DEF BodySpec

(* Every variable keeps its type.                                          *)
THEOREM TypesHold == BodySpec => []BodyTypeOK
BY TypeCorrect, PTL DEF TypeInv

(* A finished batch leaves the last body put under each path, within the   *)
(* cap (bodyWriterLoop.flush).                                             *)
THEOREM BatchIsExact == BodySpec => []BatchExact
BY CapIsKept, BatchIsApplied, PTL DEF BatchExact
=============================================================================
