------------------------------ MODULE NativeStream ------------------------------
(***************************************************************************)
(* The streaming engine on the native D3XX backend, as open_capture builds *)
(* it for backend "d3xx-native".                                           *)
(***************************************************************************)
EXTENDS StreamingEngine, D3xxNative

nativeStreamVars == <<engineVars, nativeVars>>

NativeStreamTypeOK == EngineTypeOK /\ NativeTypeOK

NativeStreamInit == EngineInit /\ NativeInit

--------------------------------------------------------------------------------
(* The caller's thread: the engine's methods, cut where they are inside the *)
(* backend                                                                  *)

EngineAlone == CallerFree /\ CallerStep /\ UNCHANGED nativeVars

SubmitReserved == StartSlot(TRUE) /\ ReserveRead(cursor)

ResubmitReserved == Recycle(TRUE) /\ ReserveRead(current.slot)

SubmitRefused ==
    /\ CallerFree
    /\ \/ StartSlot(FALSE) /\ ~CanReserve(cursor)
       \/ Recycle(FALSE) /\ ~CanReserve(current.slot)
    /\ UNCHANGED nativeVars

\* read_pipe_ex, for the sequence number _submit_slot gave the slot.
IssueRead ==
    /\ LET sequence == slots[thread["caller"].slot].sequence
       IN  \/ IssuePending(sequence)
           \/ \E outcome \in Outcomes : IssueAtOnce(sequence, outcome)
    /\ UNCHANGED engineVars

StopCancels == CallerFree /\ StopStep("cancel", "drain") /\ CancelNative

StopCancelRaises == CallerFree /\ StopStep("cancel", "idle") /\ CancelNativeRaises

StopDrains == StopStep("drain", "release") /\ NativeDrained /\ UNCHANGED nativeVars

StopDrainTimesOut_ReleasesAnyway ==
    StopStep("drain", "release") /\ NativeDrainTimesOut /\ UNCHANGED nativeVars

StopDrainTimesOut ==
    StopStep("drain", "idle") /\ NativeDrainTimesOut /\ UNCHANGED nativeVars

StopReleases == StopRelease /\ (BeginRelease \/ ReleaseAgain)

StopReleaseRaises == StopRelease /\ BeginReleaseRaises

StopJoins == (JoinPump \/ ReleaseOverlappedRaises) /\ UNCHANGED engineVars

\* MaxSubmits also bounds a shutdown that fails again and again.
ShutdownFails ==
    /\ stats.cancelled < MaxSubmits
    /\ StopCancelRaises \/ StopDrainTimesOut \/ StopReleaseRaises

--------------------------------------------------------------------------------
(* _settle_slot, on thread t                                                *)

Claims(t) == Claim(t) /\ UNCHANGED engineVars

GoesOn(t) == CheckCancelled(t) /\ UNCHANGED engineVars

\* The bytes of the native buffer are copied to the raw slot, whoever has it by now.
Copies(t) ==
    LET i == thread[t].slot
    IN  /\ EndCompletion(t)
        /\ buffer' = IF thread[t].outcome = "error" THEN buffer
                     ELSE [buffer EXCEPT ![i] = nativeBytes[i]]
        /\ UNCHANGED <<running, poolVars, completionQueue, outputQueue, countVars,
                       callerVars>>

Posts(t) == PostCompletion(t) /\ PostResult(thread[t].slot, thread[t].outcome)

Returns(t) == ReturnFromSettle(t) /\ CountCompleted

SettleStep(t) == Claims(t) \/ GoesOn(t) \/ Copies(t) \/ Posts(t) \/ Returns(t)

CallerThread ==
    \/ EngineAlone \/ SubmitReserved \/ ResubmitReserved \/ SubmitRefused \/ IssueRead
    \/ SettleStep("caller")
    \/ StopCancels \/ StopDrains \/ StopReleases \/ StopJoins \/ ShutdownFails

PumpAlone == (BeginRound \/ Poll \/ PumpExits) /\ UNCHANGED engineVars

PumpThread == PumpAlone \/ SettleStep("pump")

DeviceFinishes == (\E outcome \in Outcomes : ReadFinishes(outcome)) /\ UNCHANGED engineVars

NativeStreamNext == CallerThread \/ PumpThread \/ DeviceFinishes

\* A method that was entered goes on, the pump keeps polling, and a pending read ends
\* at its pipe's timeout.
NativeStreamSpec ==
    /\ NativeStreamInit
    /\ [][NativeStreamNext]_nativeStreamVars
    /\ WF_nativeStreamVars((pc # "idle" \/ ~CallerFree) /\ CallerThread)
    /\ WF_nativeStreamVars(PumpThread)
    /\ WF_nativeStreamVars(DeviceFinishes)

--------------------------------------------------------------------------------
(* Properties                                                               *)

SlotQueued(i) == \E k \in DOMAIN completionQueue : completionQueue[k].slot = i
SlotInHand(i) == current # None /\ current.slot = i
Settling(i) ==
    {t \in Threads : thread[t].at \in {"claimed", "copying", "posting"} /\ thread[t].slot = i}

\* However the driver answers, each submission is settled by one thread and yields at
\* most one result: a callback always finds room in the completion queue, and a slot
\* whose result waits or is in hand is neither in flight nor being settled.
OneResultPerRead ==
    /\ \A t \in Threads : thread[t].at = "posting" => Len(completionQueue) < RawSlots
    /\ \A i \in Slots :
          /\ Cardinality(Settling(i)) <= 1
          /\ SlotQueued(i) \/ SlotInHand(i) => ~inFlight[i] /\ Settling(i) = {}

\* Documented: a result's view holds the completed raw bytes of the read, and its
\* sequence is the one assigned when that read was submitted.  So, until the stream is
\* cancelled, a decoded frame carries the bytes of the read whose number it shows.
GenuineBeforeStop ==
    ~cancelRequested =>
        \A k \in DOMAIN outputQueue : outputQueue[k].data = outputQueue[k].sequence

\* Whatever the driver answers, a frame decoded before the stream is cancelled never
\* shows the bytes of a read submitted after its own: a result that settles the wrong
\* read brings older bytes, and no later read reaches the raw slot before its frame is
\* decoded.
NoNewerBytes ==
    ~cancelRequested =>
        \A k \in DOMAIN outputQueue :
            outputQueue[k].data # None => outputQueue[k].data <= outputQueue[k].sequence

\* However often a shutdown fails half way, the engine holds the raw slot of every read
\* that is in flight, so stop() never frees a slot whose read the drain gave up on.
\* (Once a thread has claimed the read it is in flight no more, and the bytes may be
\* copied after the slot was freed: see DrainedMeansDone.)
InFlightIsHeld == \A i \in Slots : inFlight[i] => slots[i].in_use

\* Once the handle is closed the pump has ended, no thread is in the backend and no
\* read is pending at the device.
ClosedAfterPump ==
    handleClosed =>
        /\ thread["pump"].at = "exited" /\ CallerFree
        /\ pipe = <<>> /\ ~AnyInFlight

\* stop() ends with the handle closed and every slot free.
NativeStopEnds ==
    pc = "cancel" ~> (pc = "idle" /\ CallerFree /\ handleClosed /\ InUse(slots) = {})

\* Every submitted read is settled.
NativeReadsEnd == \A i \in Slots : inFlight[i] ~> ~inFlight[i]

\* Documented: drain() returns only after submitted work has been completed or
\* cancelled, callbacks included.
DrainedMeansDone ==
    pc = "release" =>
        posted = 0 /\ \A t \in Threads : thread[t].at \notin {"copying", "posting"}

\* Documented: read_frame returns the frame with the latest sequence of those that are
\* queued; it takes the last one.
NewestIsLast ==
    \A j, k \in DOMAIN outputQueue :
        j < k => outputQueue[j].sequence < outputQueue[k].sequence
================================================================================
