------------------------------- MODULE D3xxStream -------------------------------
(***************************************************************************)
(* The streaming engine on the D3XX worker backend, as _open_d3xx_engine   *)
(* of ponkan/capture.py builds it, and its refinement of StreamingSystem.  *)
(***************************************************************************)
EXTENDS StreamingEngine, D3xxAsync

allVars == <<engineVars, d3xxVars>>

D3xxStreamTypeOK == EngineTypeOK /\ D3xxTypeOK

D3xxStreamInit == EngineInit /\ D3xxInit

--------------------------------------------------------------------------------
(* The caller's thread                                                      *)

EngineAlone == CallerStep /\ UNCHANGED d3xxVars

SubmitSlotRead == StartSlot(TRUE) /\ SubmitJob(cursor)

SubmitSlotRefused == StartSlot(FALSE) /\ ~CanSubmit /\ UNCHANGED d3xxVars

ResubmitSlotRead == Recycle(TRUE) /\ SubmitJob(current.slot)

ResubmitSlotRefused == Recycle(FALSE) /\ ~CanSubmit /\ UNCHANGED d3xxVars

StopCancels == StopStep("cancel", "drain") /\ RequestCancel

\* What is left of cancel_all once the flag is set.
CancelFuture ==
    /\ pc = "drain"
    /\ \E k \in DOMAIN jobs : CancelJob(k)
    /\ UNCHANGED engineVars

StopDrains == StopStep("drain", "release") /\ FuturesDone /\ UNCHANGED d3xxVars

StopReleases == StopRelease /\ CloseHandle

CallerThread ==
    \/ EngineAlone
    \/ SubmitSlotRead \/ SubmitSlotRefused \/ ResubmitSlotRead \/ ResubmitSlotRefused
    \/ StopCancels \/ CancelFuture \/ StopDrains \/ StopReleases

--------------------------------------------------------------------------------
(* A worker thread                                                          *)

WorkerTakesJob(w) == TakeJob(w) /\ UNCHANGED engineVars

WorkerEndsRead(w) ==
    \E outcome \in Outcomes :
        /\ EndRead(w, outcome)
        /\ buffer' = IF outcome = "error" THEN buffer
                     ELSE [buffer EXCEPT ![worker[w].slot] = slots[worker[w].slot].sequence]
        /\ UNCHANGED <<running, poolVars, completionQueue, outputQueue, countVars,
                       callerVars>>

WorkerCallsBack(w) == RunCallback(w) /\ PostResult(worker[w].slot, worker[w].outcome)

WorkerReturns(w) == ReturnFromCallback(w) /\ CountCompleted

WorkerThread(w) ==
    WorkerTakesJob(w) \/ WorkerEndsRead(w) \/ WorkerCallsBack(w) \/ WorkerReturns(w)

--------------------------------------------------------------------------------

D3xxStreamNext == CallerThread \/ \E w \in Workers : WorkerThread(w)

\* As in StreamingSystem: threads go on, and pipe reads end at their timeout.
D3xxStreamSpec ==
    /\ D3xxStreamInit
    /\ [][D3xxStreamNext]_allVars
    /\ WF_allVars(pc # "idle" /\ CallerThread)
    /\ \A w \in Workers : WF_allVars(WorkerThread(w))

--------------------------------------------------------------------------------
(* Properties                                                               *)

Held(w) == worker[w].slot

\* The backend's side of a slot, as AsyncBackend sees it.
Transfer(i) ==
    IF \E k \in DOMAIN jobs : jobs[k] = i THEN "pending"
    ELSE IF \E w \in Workers : worker[w].at = "reading" /\ Held(w) = i THEN "pending"
    ELSE IF \E w \in Workers : worker[w].at = "calling" /\ Held(w) = i
         THEN worker[CHOOSE w \in Workers : worker[w].at = "calling" /\ Held(w) = i].outcome
    ELSE "idle"

System == INSTANCE StreamingSystem WITH
    transfer <- [i \in Slots |-> Transfer(i)],
    cancelling <- cancelRequested,
    released <- closed,
    ShutdownCanFail <- FALSE

\* The worker pool keeps the AsyncTransferBackend protocol: with it, the engine
\* behaves as StreamingSystem says, progress included.
ImplementsStreamingSystem == System!Spec

\* With the single worker the backend is built with, reads complete in the order of
\* submission: along the pipeline, from the oldest queued frame to the newest job,
\* sequence numbers increase.  So the newest frame in the queue is the latest read.
InOrder ==
    LET numbers(q) == [k \in DOMAIN q |-> q[k].sequence]
        inHand == IF pc = "decoding" THEN <<current.sequence>> ELSE <<>>
        inWorker == IF worker[1].at \in {"reading", "calling"}
                    THEN <<slots[Held(1)].sequence>> ELSE <<>>
        waiting == [k \in DOMAIN jobs |-> slots[jobs[k]].sequence]
        line == numbers(outputQueue) \o inHand \o numbers(completionQueue)
                    \o inWorker \o waiting
    IN  \A j, k \in DOMAIN line : j < k => line[j] < line[k]

================================================================================
