------------------------------ MODULE BufferPool ------------------------------
(***************************************************************************)
(* The preallocated raw slots of ponkan/streaming/buffers.py, as operators *)
(* on the function that gives each slot index its RawFrameSlot.            *)
(*                                                                         *)
(* Of a slot's fields the model keeps in_use and sequence.  The bytes of   *)
(* its buffer are a variable of their own in StreamingEngine, because the  *)
(* backend's threads write them; the timestamps and the transferred count  *)
(* only feed reports (the count itself travels in the result's outcome).   *)
(***************************************************************************)
EXTENDS Naturals, FiniteSets

CONSTANTS RawSlots,  \* raw_slots: how many slots the pool holds
          None       \* Python's None: a slot without a sequence, no result

Slots == 0 .. RawSlots - 1

RawFrameSlot == [in_use : BOOLEAN, sequence : Nat \cup {None}]

\* What a finished read reported (the pair status, transferred):
\*   "full"   status 0 and at least video_size bytes,
\*   "short"  status 0 and fewer bytes,
\*   "error"  a status other than 0.
Outcomes == {"full", "short", "error"}

RawFrameResult == [slot : Slots, outcome : Outcomes, sequence : Nat]

ASSUME BufferPoolAssumption ==
    /\ RawSlots \in Nat \ {0}
    /\ None \notin Nat
    /\ None \notin RawFrameResult
    /\ None \notin Outcomes

FreeSlot == [in_use |-> FALSE, sequence |-> None]

EmptyPool == [i \in Slots |-> FreeSlot]

\* checkout(index) of a slot that is not in use; its caller handles the
\* RuntimeError that a slot in use raises.
Checkout(pool, i) == [pool EXCEPT ![i].in_use = TRUE]

\* release(index): resets the slot, whether or not it was in use.
Release(pool, i) == [pool EXCEPT ![i] = FreeSlot]

InUse(pool) == {i \in Slots : pool[i].in_use}

InUseCount(pool) == Cardinality(InUse(pool))
================================================================================
