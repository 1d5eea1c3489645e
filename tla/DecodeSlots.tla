---------------------------- MODULE DecodeSlots -----------------------------
(***************************************************************************)
(* decodeEntry and decodeBody (internal/index/codec.go): every stored      *)
(* entry is decoded in a goroutine of its own, which the caller leaves     *)
(* behind after decodeTimeout.  The goroutine cannot be cancelled and      *)
(* keeps its slot of decodeSem until gob returns; a caller that finds no   *)
(* slot takes a miss at once.                                              *)
(*                                                                         *)
(* A slot stands for the goroutine that holds it.  Slow entries are those  *)
(* whose decoding may take longer than any timeout, or for ever.           *)
(***************************************************************************)
EXTENDS Integers, FiniteSets

CONSTANTS
  Readers,  \* goroutines that look entries up
  NoReader, \* nobody waits
  Slots,    \* 1 .. concurrentDecodeLimit, as a set
  MaxReads  \* bound: lookups each reader makes

ASSUME DecodeSlotsAssumption == MaxReads \in Nat /\ NoReader \notin Readers

VARIABLES
  reader, \* each reader: "idle", "waiting", or how its last lookup ended
  reads,  \* lookups begun
  slot,   \* each slot: "free", "decoding", "stuck", "sent"
  owner,  \* the reader that waits for a slot's goroutine
  ready   \* readers whose result is in their channel

slotVars == <<reader, reads, slot, owner, ready>>

Ends == {"hit", "miss", "overloaded", "timeout"}

SlotInit ==
  /\ reader = [r \in Readers |-> "idle"]
  /\ reads = [r \in Readers |-> 0]
  /\ slot = [i \in Slots |-> "free"]
  /\ owner = [i \in Slots |-> NoReader]
  /\ ready = {}

FreeSlots == {i \in Slots : slot[i] = "free"}
NoLonger_Kept(r) == owner
NoLonger(r) == [i \in Slots |-> IF owner[i] = r THEN NoReader ELSE owner[i]]

Ask(r) ==
  /\ reader[r] # "waiting" /\ reads[r] < MaxReads
  /\ reads' = [reads EXCEPT ![r] = @ + 1]
  /\ UNCHANGED ready

(* The non-blocking acquire; an entry is quick or slow to decode.          *)
Acquire(r) ==
  /\ Ask(r)
  /\ \E i \in FreeSlots, s \in {"decoding", "stuck"} :
       /\ slot' = [slot EXCEPT ![i] = s]
       /\ owner' = [owner EXCEPT ![i] = r]
  /\ reader' = [reader EXCEPT ![r] = "waiting"]

Refused(r) ==
  /\ Ask(r) /\ FreeSlots = {}
  /\ reader' = [reader EXCEPT ![r] = "overloaded"]
  /\ UNCHANGED <<slot, owner>>

(* gob returns and the result goes to the call's own channel, which has    *)
(* room for it whether or not anybody still waits.                         *)
Sends(i) ==
  /\ slot' = [slot EXCEPT ![i] = "sent"]
  /\ owner' = [owner EXCEPT ![i] = NoReader]
  /\ ready' = ready \cup ({owner[i]} \ {NoReader})
  /\ UNCHANGED <<reader, reads>>

Decode(i) == slot[i] = "decoding" /\ Sends(i)
StuckReturns(i) == slot[i] = "stuck" /\ Sends(i)

(* The deferred receive from decodeSem.                                    *)
Release(i) ==
  /\ slot[i] = "sent" /\ slot' = [slot EXCEPT ![i] = "free"]
  /\ UNCHANGED <<reader, reads, owner, ready>>

(* The caller's select; with the result and the timer both ready Go picks  *)
(* either.                                                                 *)
Take(r) ==
  /\ reader[r] = "waiting" /\ r \in ready
  /\ \E e \in {"hit", "miss"} : reader' = [reader EXCEPT ![r] = e]
  /\ ready' = ready \ {r}
  /\ UNCHANGED <<reads, slot, owner>>

TimeUp(r) ==
  /\ reader[r] = "waiting"
  /\ reader' = [reader EXCEPT ![r] = "timeout"]
  /\ ready' = ready \ {r}
  /\ owner' = NoLonger(r)
  /\ UNCHANGED <<reads, slot>>

SlotNext ==
  \/ \E r \in Readers : Acquire(r) \/ Refused(r) \/ Take(r) \/ TimeUp(r)
  \/ \E i \in Slots : Decode(i) \/ StuckReturns(i) \/ Release(i)

SlotSpec == SlotInit /\ [][SlotNext]_slotVars

-----------------------------------------------------------------------------
SlotTypeOK ==
  /\ reader \in [Readers -> Ends \cup {"idle", "waiting"}]
  /\ reads \in [Readers -> 0 .. MaxReads]
  /\ slot \in [Slots -> {"free", "decoding", "stuck", "sent"}]
  /\ owner \in [Slots -> Readers \cup {NoReader}]
  /\ ready \subseteq Readers

(* A lookup is answered by its own goroutine or by its timer: the late     *)
(* result of one that timed out answers no later lookup of that reader.    *)
OneAnswer ==
  \A r \in Readers :
    Cardinality({i \in Slots : owner[i] = r}) + (IF r \in ready THEN 1 ELSE 0)
      = IF reader[r] = "waiting" THEN 1 ELSE 0

(* No lookup waits for a stuck decode, its own or another's, and the slots *)
(* of the others come back.                                                *)
LookupReturns == \A r \in Readers : (reader[r] = "waiting") ~> (reader[r] # "waiting")
SlotsComeBack == \A i \in Slots : (slot[i] \in {"decoding", "sent"}) ~> (slot[i] = "free")
=============================================================================
