---------------------------- MODULE StreamingSystem ----------------------------
(***************************************************************************)
(* The streaming engine on top of any backend that keeps the               *)
(* AsyncTransferBackend protocol.  Each action joins the engine's half of  *)
(* a step with the backend's.                                              *)
(***************************************************************************)
EXTENDS StreamingEngine, AsyncBackend

CONSTANT ShutdownCanFail  \* cancel_all, drain or release may raise (the native backend's do)

ASSUME ShutdownAssumption == ShutdownCanFail \in BOOLEAN

vars == <<engineVars, backendVars>>

TypeOK == EngineTypeOK /\ BackendTypeOK

Init == EngineInit /\ BackendInit

--------------------------------------------------------------------------------
(* The caller's thread                                                      *)

CallerAlone == CallerStep /\ UNCHANGED backendVars

SubmitFirst == StartSlot(TRUE) /\ SubmitRead(cursor)

SubmitFirstRefused == StartSlot(FALSE) /\ ~Accepting /\ UNCHANGED backendVars

Resubmit == Recycle(TRUE) /\ SubmitRead(current.slot)

ResubmitRefused == Recycle(FALSE) /\ ~Accepting /\ UNCHANGED backendVars

CancelTransfers == StopStep("cancel", "drain") /\ CancelAll

Drained_CallbacksOnly == posted = 0
Drained_TransfersOnly == Quiet

\* drain() waits for every transfer and for every callback to return.
Drained == Quiet /\ posted = 0

DrainTransfers == StopStep("drain", "release") /\ Drained /\ UNCHANGED backendVars

DrainRaises_ReleasesAnyway ==
    /\ ShutdownCanFail
    /\ stats.cancelled <= MaxSubmits
    /\ StopStep("drain", "release")
    /\ UNCHANGED backendVars

\* An exception of cancel_all or drain leaves stop() with the slots and the device
\* still held.  MaxSubmits also bounds a shutdown that fails again and again.
DrainRaises ==
    /\ ShutdownCanFail
    /\ stats.cancelled <= MaxSubmits
    /\ StopStep("drain", "idle")
    /\ UNCHANGED backendVars

FinishStop_LeavesBackend == StopRelease /\ UNCHANGED backendVars

FinishStop == StopRelease /\ ReleaseBackend

\* An exception of backend.release leaves the device held with every slot freed.
ReleaseRaises == ShutdownCanFail /\ StopRelease /\ UNCHANGED backendVars

Caller ==
    \/ CallerAlone
    \/ SubmitFirst \/ SubmitFirstRefused \/ Resubmit \/ ResubmitRefused
    \/ CancelTransfers \/ DrainTransfers \/ DrainRaises \/ FinishStop \/ ReleaseRaises

--------------------------------------------------------------------------------
(* Backend threads                                                          *)

\* The bytes of a read that ended with this outcome are in the slot's buffer.
Written(i, outcome) ==
    IF outcome = "error" THEN buffer ELSE [buffer EXCEPT ![i] = slots[i].sequence]

BufferOnly ==
    UNCHANGED <<running, poolVars, completionQueue, outputQueue, countVars, callerVars>>

ReadSettles(i) ==
    \E outcome \in Outcomes :
        Settle(i, outcome) /\ buffer' = Written(i, outcome) /\ BufferOnly

\* A cancelled read never started, or ended in one of the ways a read ends.
ReadAbandoned(i) ==
    \E outcome \in Outcomes :
        Abandon(i) /\ buffer' = Written(i, outcome) /\ BufferOnly

Complete(i) == Callback(i) /\ PostResult(i, transfer[i])

CompletionCounted == CountCompleted /\ UNCHANGED backendVars

Transfer(i) == ReadSettles(i) \/ ReadAbandoned(i) \/ Complete(i)

--------------------------------------------------------------------------------

Next ==
    \/ Caller
    \/ \E i \in Slots : Transfer(i)
    \/ CompletionCounted

\* A method that was entered goes on, a submitted read ends (its pipe has a
\* timeout) and a callback that began returns.  Whether a method is called at all
\* is up to the program.
Fairness ==
    /\ WF_vars(pc # "idle" /\ Caller)
    /\ \A i \in Slots : WF_vars(Transfer(i))
    /\ WF_vars(CompletionCounted)

Spec == Init /\ [][Next]_vars /\ Fairness

--------------------------------------------------------------------------------
(* Properties                                                               *)

InFlight(i) == transfer[i] # "idle"
Queued(i) == \E k \in DOMAIN completionQueue : completionQueue[k].slot = i
InHandSlot(i) == current # None /\ current.slot = i

\* A raw slot belongs to one party at a time: to the backend while its transfer is
\* in flight, to the completion queue while its result waits, or to the caller
\* that processes the result.  The backend only writes into slots that are checked
\* out, and until the first stop() a checked-out slot is always with one of the
\* three, so no slot is lost to the stream.
SlotOwnership ==
    /\ \A i \in Slots :
          /\ InFlight(i) => slots[i].in_use /\ ~Queued(i) /\ ~InHandSlot(i)
          /\ Queued(i) => ~InHandSlot(i)
          /\ slots[i].in_use /\ ~cancelling => InFlight(i) \/ Queued(i) \/ InHandSlot(i)
    /\ \A j, k \in DOMAIN completionQueue :
          completionQueue[j].slot = completionQueue[k].slot => j = k

\* No transfer is outstanding and no callback is running.
AllQuiet == posted = 0 /\ \A i \in Slots : ~InFlight(i)

\* A callback always finds room in the completion queue, so the queue.Full branch of
\* _on_transfer_complete, which drops the read and frees its slot on the backend's
\* thread, is never taken.
QueueHasRoom ==
    \A i \in Slots : transfer[i] \in Outcomes => Len(completionQueue) < RawSlots

\* A decoded frame carries the bytes of the read whose sequence number it shows:
\* no later read overwrites a slot between completion and the copy made for the
\* decoder, and no callback reads the sequence of a slot that was released.
FrameIntegrity ==
    \A k \in DOMAIN outputQueue : outputQueue[k].data = outputQueue[k].sequence

\* The sequence numbers a read can be found under: in flight, completed, decoded.
Completed == [k \in DOMAIN completionQueue |-> completionQueue[k].sequence]
Decoded == [k \in DOMAIN outputQueue |-> outputQueue[k].sequence]
Beyond(i, s) == InFlight(i) /\ slots[i].sequence = s

\* Every read yields at most one frame: no sequence number is at two places of the
\* pipeline, nor twice at one.
NoDuplicateRead ==
    LET trail == Decoded \o (IF pc = "decoding" THEN <<current.sequence>> ELSE <<>>)
                         \o Completed
    IN  /\ \A j, k \in DOMAIN trail : trail[j] = trail[k] => j = k
        /\ \A i \in Slots : InFlight(i) =>
              /\ \A k \in DOMAIN trail : trail[k] # slots[i].sequence
              /\ \A j \in Slots : Beyond(j, slots[i].sequence) => j = i

\* The counters account for every read: until the first stop() a numbered read is
\* counted as submitted (or about to be) and is either in flight or completed; a
\* completed one waits, is in hand, or has met exactly one fate; a decoded frame
\* waits, was taken or was dropped, and "delivered" leaves out just the frames that
\* drop_newest refused.
StatsConservation ==
    LET one(condition) == IF condition THEN 1 ELSE 0
    IN  /\ ~cancelling =>
              /\ nextSequence = stats.submitted + one(pc = "submitted")
              /\ nextSequence = stats.completed + posted
                                  + Cardinality({i \in Slots : InFlight(i)})
        /\ stats.completed + posted =
              Len(completionQueue) + one(pc = "decoding") + stats.usb_errors
                + stats.dropped_raw + stats.decode_errors + escaped + stats.decoded
        /\ stats.decoded = Len(outputQueue) + taken + stats.dropped_decoded
        /\ stats.decoded = stats.delivered
                + one(DropPolicy = "drop_newest") * stats.dropped_decoded

\* The device handle is closed only when no transfer is outstanding and no callback
\* is running, and nothing is in flight ever after.
ClosedWhenQuiet == released => AllQuiet

\* Documented: the decoded queue retains at most its capacity
\* (BoundedFrameQueue's max_size, docs/api.md output_queue_size).
OutputBounded == Len(outputQueue) <= OutputQueueSize

\* Documented: stop() goes on to release the backend and close the handle even when
\* an exception interrupts it, so the caller gets control back from a stop() of a
\* started stream with the handle closed.
StopCloses == pc = "idle" /\ ~running /\ nextSequence > 0 => released

\* stop() returns at once when the engine is not running and no slot is in use.  That
\* is right only if nothing is left to do: the handle of a stream that was started is
\* closed by then.
NoOpStopIsClosed ==
    pc = "idle" /\ ~running /\ InUse(slots) = {} /\ nextSequence > 0 => released

\* A stop() that was entered ends with the handle closed and every slot free.
StopEnds ==
    pc = "cancel" ~> (pc = "idle" /\ released /\ InUse(slots) = {})

\* A caller that keeps calling process_completed.
PollingSpec == Spec /\ WF_vars(TakeResult /\ UNCHANGED backendVars)

\* While it is polled and running, the stream never stalls: the slot of every posted
\* result is submitted again (until the bound on sequence numbers is reached).
SlotsAreResubmitted ==
    \A i \in Slots : Queued(i) ~>
        (transfer[i] = "pending" \/ ~running \/ cancelling \/ nextSequence = MaxSubmits)

--------------------------------------------------------------------------------
(* The inductive invariant behind SlotOwnership, FrameIntegrity and the     *)
(* others; StreamingProofs proves it.                                       *)

\* Who owns a slot, and what stop() has settled.  Before the first stop() a slot that
\* waits in the queue or is in hand is still checked out, so it is not submitted by
\* mistake; the backend is released only after drain().
OwnershipInv ==
    /\ SlotOwnership
    /\ \A i \in Slots : (Queued(i) \/ InHandSlot(i)) /\ ~cancelling => slots[i].in_use
    /\ released => cancelling
    /\ pc \in {"drain", "release"} => cancelling
    /\ pc = "release" => AllQuiet
    /\ ClosedWhenQuiet

\* Whose bytes a slot's buffer holds, from the end of the read to the copy made for
\* the decoder.
BytesInv ==
    /\ \A i \in Slots : InFlight(i) => slots[i].sequence # None
    /\ \A i \in Slots : transfer[i] \in {"full", "short"} => buffer[i] = slots[i].sequence
    /\ \A k \in DOMAIN completionQueue :
          completionQueue[k].outcome = "full" =>
              buffer[completionQueue[k].slot] = completionQueue[k].sequence
    /\ InHand("full") => buffer[current.slot] = current.sequence
    /\ FrameIntegrity

IndInv == TypeOK /\ OwnershipInv /\ BytesInv
================================================================================
