---------------------------- MODULE StreamingEngine ----------------------------
(***************************************************************************)
(* StreamingEngine of ponkan/streaming/engine.py: it keeps every raw slot  *)
(* of its pool submitted to an asynchronous backend, collects completions  *)
(* from the backend's threads in a bounded queue, decodes them on the      *)
(* caller's thread and hands the frames out through a FrameQueue.          *)
(*                                                                         *)
(* Two kinds of threads run this code.  The caller's thread runs start,    *)
(* process_completed, frames and stop, one at a time; its methods are cut  *)
(* into steps wherever a backend thread can interleave, and pc says which  *)
(* step is next ("idle": outside every method).  Backend threads run       *)
(* _on_transfer_complete: it posts the result in one step and counts it in *)
(* a later one.                                                            *)
(*                                                                         *)
(* What the backend answers to submit_read is the parameter "accepted" of  *)
(* the steps that call it: a backend that is cancelling or released raises *)
(* (AsyncTransferBackend.submit_read), and the exception leaves the method *)
(* half done.  The modules that compose the engine with a backend supply   *)
(* the answer and the backend's half of each step.                         *)
(*                                                                         *)
(* A read's bytes are abstracted to the sequence number its slot had when  *)
(* the read wrote them, and its transferred/status pair to an outcome (see *)
(* BufferPool).                                                            *)
(* Timing collection is left out: no control depends on it.                *)
(***************************************************************************)
EXTENDS BufferPool, FrameQueue

CONSTANT MaxSubmits  \* bound: no more than this many sequence numbers are used

ASSUME MaxSubmitsAssumption == MaxSubmits \in Nat

VARIABLES
    running,          \* _running
    nextSequence,     \* _next_sequence
    slots,            \* buffer_pool.slots
    buffer,           \* the bytes of each slot: the sequence of the last read into it
    completionQueue,  \* _completion_queue
    outputQueue,      \* output_queue
    stats,            \* _stats
    posted,           \* callbacks that posted a result and did not count it yet
    taken,            \* history: frames handed out by frames()
    escaped,          \* history: results whose decoder raised something else
    pc,               \* the next step of the caller's thread
    cursor,           \* start(): the slots below it are submitted
    current           \* process_completed(): the result in hand

Frame == [sequence : Nat, data : Nat \cup {None}]
Counters == [submitted : Nat, completed : Nat, decoded : Nat, delivered : Nat,
             dropped_raw : Nat, dropped_decoded : Nat, usb_errors : Nat,
             decode_errors : Nat, cancelled : Nat]
Steps == {"idle", "starting", "submitted", "decoding", "recycling",
          "cancel", "drain", "release"}

poolVars == <<slots, nextSequence>>
countVars == <<stats, posted, taken, escaped>>
callerVars == <<pc, cursor, current>>
engineVars == <<running, poolVars, buffer, completionQueue, outputQueue,
                countVars, callerVars>>

EngineTypeOK ==
    /\ running \in BOOLEAN
    /\ nextSequence \in Nat
    /\ slots \in [Slots -> RawFrameSlot]
    /\ buffer \in [Slots -> Nat \cup {None}]
    /\ completionQueue \in Seq(RawFrameResult)
    /\ outputQueue \in Seq(Frame)
    /\ stats \in Counters
    /\ posted \in Nat
    /\ taken \in Nat
    /\ escaped \in Nat
    /\ pc \in Steps
    /\ cursor \in 0 .. RawSlots
    /\ current \in RawFrameResult \cup {None}
    /\ pc = "starting" => cursor \in Slots
    /\ (pc \in {"decoding", "recycling"}) <=> (current # None)

EngineInit ==
    /\ running = FALSE
    /\ nextSequence = 0
    /\ slots = EmptyPool
    /\ buffer = [i \in Slots |-> None]
    /\ completionQueue = <<>>
    /\ outputQueue = <<>>
    /\ stats = [submitted |-> 0, completed |-> 0, decoded |-> 0, delivered |-> 0,
                dropped_raw |-> 0, dropped_decoded |-> 0, usb_errors |-> 0,
                decode_errors |-> 0, cancelled |-> 0]
    /\ posted = 0
    /\ taken = 0
    /\ escaped = 0
    /\ pc = "idle"
    /\ cursor = RawSlots
    /\ current = None

--------------------------------------------------------------------------------
(* start() and _submit_slot()                                               *)

\* start() when already running returns at once.
StartAgain ==
    /\ pc = "idle"
    /\ running
    /\ UNCHANGED engineVars

Start ==
    /\ pc = "idle"
    /\ ~running
    /\ nextSequence + RawSlots <= MaxSubmits
    /\ running' = TRUE
    /\ pc' = "starting"
    /\ cursor' = 0
    /\ UNCHANGED <<poolVars, buffer, completionQueue, outputQueue, countVars, current>>

SubmitSlot_SameSequence(pool, i, accepted) ==
    /\ slots' = [pool EXCEPT ![i].sequence = nextSequence]
    /\ nextSequence' = IF accepted /\ cursor = RawSlots THEN nextSequence
                                                        ELSE nextSequence + 1
    /\ pc' = IF accepted THEN "submitted" ELSE "idle"

\* _submit_slot(slot) on a pool where slot i is checked out, up to the return of
\* backend.submit_read; the exception of a refusal leaves the caller's method.
SubmitSlot(pool, i, accepted) ==
    /\ slots' = [pool EXCEPT ![i].sequence = nextSequence]
    /\ nextSequence' = nextSequence + 1
    /\ pc' = IF accepted THEN "submitted" ELSE "idle"

StartSlot(accepted) ==
    /\ pc = "starting"
    /\ ~slots[cursor].in_use
    /\ SubmitSlot(Checkout(slots, cursor), cursor, accepted)
    /\ cursor' = IF accepted THEN cursor + 1 ELSE RawSlots
    /\ UNCHANGED <<running, buffer, completionQueue, outputQueue, countVars, current>>

\* checkout() raises on a slot that an earlier, interrupted stop() left in use;
\* start() does not reset running.
StartSlotInUse ==
    /\ pc = "starting"
    /\ slots[cursor].in_use
    /\ pc' = "idle"
    /\ cursor' = RawSlots
    /\ UNCHANGED <<running, poolVars, buffer, completionQueue, outputQueue,
                   countVars, current>>

CountSubmitted_LoopsTooFar ==
    /\ pc = "submitted"
    /\ stats' = [stats EXCEPT !.submitted = @ + 1]
    /\ pc' = IF cursor <= RawSlots THEN "starting" ELSE "idle"
    /\ UNCHANGED <<running, poolVars, buffer, completionQueue, outputQueue,
                   posted, taken, escaped, cursor, current>>

\* The read may already have completed, and its callback run, when it is counted.
CountSubmitted ==
    /\ pc = "submitted"
    /\ stats' = [stats EXCEPT !.submitted = @ + 1]
    /\ pc' = IF cursor < RawSlots THEN "starting" ELSE "idle"
    /\ UNCHANGED <<running, poolVars, buffer, completionQueue, outputQueue,
                   posted, taken, escaped, cursor, current>>

--------------------------------------------------------------------------------
(* _on_transfer_complete(), on a backend thread                             *)

PostResult_LatestSequence(i, outcome) ==
    LET result == [slot |-> i, outcome |-> outcome, sequence |-> nextSequence - 1]
    IN  /\ Len(completionQueue) < RawSlots
        /\ completionQueue' = Append(completionQueue, result)
        /\ posted' = posted + 1
        /\ UNCHANGED <<running, poolVars, buffer, outputQueue, stats, taken, escaped,
                       callerVars>>

\* Up to put_nowait; the backend's half of the step ends the transfer.
PostResult(i, outcome) ==
    LET sequence == IF slots[i].sequence = None THEN 0 ELSE slots[i].sequence
        result == [slot |-> i, outcome |-> outcome, sequence |-> sequence]
        full == Len(completionQueue) >= RawSlots
    IN  /\ completionQueue' = IF full THEN completionQueue
                                      ELSE Append(completionQueue, result)
        /\ posted' = IF full THEN posted ELSE posted + 1
        /\ stats' = IF full THEN [stats EXCEPT !.dropped_raw = @ + 1] ELSE stats
        /\ slots' = IF full THEN Release(slots, i) ELSE slots
        /\ UNCHANGED <<running, nextSequence, buffer, outputQueue, taken, escaped,
                       callerVars>>

CountCompleted ==
    /\ posted > 0
    /\ posted' = posted - 1
    /\ stats' = [stats EXCEPT !.completed = @ + 1]
    /\ UNCHANGED <<running, poolVars, buffer, completionQueue, outputQueue, taken,
                   escaped, callerVars>>

--------------------------------------------------------------------------------
(* process_completed() and _process_result()                                *)
(* The caller's limit ends the loop after any number of results, so one     *)
(* round of it is modelled and the loop is its repetition.                  *)

TakeResult_NewestFirst ==
    LET last == Len(completionQueue)
    IN  /\ pc = "idle"
        /\ completionQueue # <<>>
        /\ running => nextSequence < MaxSubmits
        /\ current' = completionQueue[last]
        /\ completionQueue' = SubSeq(completionQueue, 1, last - 1)
        /\ pc' = "decoding"
        /\ UNCHANGED <<running, poolVars, buffer, outputQueue, countVars, cursor>>

TakeResult ==
    /\ pc = "idle"
    /\ completionQueue # <<>>
    /\ running => nextSequence < MaxSubmits
    /\ current' = Head(completionQueue)
    /\ completionQueue' = Tail(completionQueue)
    /\ pc' = "decoding"
    /\ UNCHANGED <<running, poolVars, buffer, outputQueue, countVars, cursor>>

InHand(outcome) == pc = "decoding" /\ current.outcome = outcome

\* The result in hand does not become a frame; "counted" are the new counters.
Discard(counted) ==
    /\ stats' = counted
    /\ pc' = "recycling"
    /\ UNCHANGED <<running, poolVars, buffer, completionQueue, outputQueue, posted,
                   taken, cursor, current>>

UsbError ==
    /\ InHand("error")
    /\ Discard([stats EXCEPT !.usb_errors = @ + 1])
    /\ UNCHANGED escaped

ShortRead ==
    /\ InHand("short")
    /\ Discard([stats EXCEPT !.dropped_raw = @ + 1])
    /\ UNCHANGED escaped

DecodeFails ==
    /\ InHand("full")
    /\ Discard([stats EXCEPT !.decode_errors = @ + 1])
    /\ UNCHANGED escaped

\* The decoder raises something other than DecodeError: no counter is touched,
\* "finally" still recycles the slot, and the exception reaches the caller.
DecoderRaises ==
    /\ InHand("full")
    /\ Discard(stats)
    /\ escaped' = escaped + 1

DecodeFrame_CountsFrames ==
    LET frame == [sequence |-> stats.decoded, data |-> buffer[current.slot]]
        kept == IF Retains(outputQueue) THEN 1 ELSE 0
        lost == IF Drops(outputQueue) THEN 1 ELSE 0
    IN  /\ InHand("full")
        /\ outputQueue' = PutFrame(outputQueue, frame)
        /\ stats' = [stats EXCEPT !.decoded = @ + 1,
                                  !.delivered = @ + kept,
                                  !.dropped_decoded = @ + lost]
        /\ pc' = "recycling"
        /\ UNCHANGED <<running, poolVars, buffer, completionQueue, posted, taken,
                       escaped, cursor, current>>

\* The bytes are copied out of the slot here, before it is released.
DecodeFrame ==
    LET frame == [sequence |-> current.sequence, data |-> buffer[current.slot]]
        kept == IF Retains(outputQueue) THEN 1 ELSE 0
        lost == IF Drops(outputQueue) THEN 1 ELSE 0
    IN  /\ InHand("full")
        /\ outputQueue' = PutFrame(outputQueue, frame)
        /\ stats' = [stats EXCEPT !.decoded = @ + 1,
                                  !.delivered = @ + kept,
                                  !.dropped_decoded = @ + lost]
        /\ pc' = "recycling"
        /\ UNCHANGED <<running, poolVars, buffer, completionQueue, posted, taken,
                       escaped, cursor, current>>

\* The finally block of _process_result: while running, the released slot is
\* checked out again and submitted with a new sequence number.
Recycle(accepted) ==
    /\ pc = "recycling"
    /\ running
    /\ SubmitSlot(Checkout(Release(slots, current.slot), current.slot),
                  current.slot, accepted)
    /\ current' = None
    /\ UNCHANGED <<running, buffer, completionQueue, outputQueue, countVars, cursor>>

RecycleStopped_EvenIfRunning ==
    /\ pc = "recycling"
    /\ slots' = Release(slots, current.slot)
    /\ pc' = "idle"
    /\ current' = None
    /\ UNCHANGED <<running, nextSequence, buffer, completionQueue, outputQueue,
                   countVars, cursor>>

RecycleStopped ==
    /\ pc = "recycling"
    /\ ~running
    /\ slots' = Release(slots, current.slot)
    /\ pc' = "idle"
    /\ current' = None
    /\ UNCHANGED <<running, nextSequence, buffer, completionQueue, outputQueue,
                   countVars, cursor>>

--------------------------------------------------------------------------------
(* frames() and frames_async(): each hands out the oldest queued frame      *)

TakeFrame ==
    /\ pc = "idle"
    /\ outputQueue # <<>>
    /\ outputQueue' = Tail(outputQueue)
    /\ taken' = taken + 1
    /\ UNCHANGED <<running, poolVars, buffer, completionQueue, stats, posted, escaped,
                   callerVars>>

--------------------------------------------------------------------------------
(* stop()                                                                   *)

StopAgain ==
    /\ pc = "idle"
    /\ ~running
    /\ InUse(slots) = {}
    /\ UNCHANGED engineVars

Stop ==
    /\ pc = "idle"
    /\ running \/ InUse(slots) # {}
    /\ running' = FALSE
    /\ stats' = [stats EXCEPT !.cancelled = @ + InUseCount(slots)]
    /\ pc' = "cancel"
    /\ UNCHANGED <<poolVars, buffer, completionQueue, outputQueue, posted, taken,
                   escaped, cursor, current>>

\* One step of stop() that only moves on to the next one.
StopStep(from, to) ==
    /\ pc = from
    /\ pc' = to
    /\ UNCHANGED <<running, poolVars, buffer, completionQueue, outputQueue, countVars,
                   cursor, current>>

\* Every slot still in use is released, then the backend is.
StopRelease ==
    /\ pc = "release"
    /\ slots' = [i \in Slots |-> IF slots[i].in_use THEN FreeSlot ELSE slots[i]]
    /\ pc' = "idle"
    /\ UNCHANGED <<running, nextSequence, buffer, completionQueue, outputQueue,
                   countVars, cursor, current>>

--------------------------------------------------------------------------------

\* The steps of the caller's thread that do not call the backend.
CallerStep ==
    \/ Start \/ StartSlotInUse \/ CountSubmitted
    \/ TakeResult \/ UsbError \/ ShortRead \/ DecodeFrame \/ DecodeFails \/ DecoderRaises
    \/ RecycleStopped
    \/ TakeFrame
    \/ Stop
    \/ StartAgain \/ StopAgain
================================================================================
