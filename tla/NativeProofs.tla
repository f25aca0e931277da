------------------------------ MODULE NativeProofs ------------------------------
(***************************************************************************)
(* Theorems about NativeStream, the engine on the native D3XX backend.     *)
(*                                                                         *)
(* Types, who owns a slot, what a shutdown has reached and how old the     *)
(* bytes of a frame are is proved however the driver answers; that the     *)
(* handle is closed last needs native calls that succeed.                  *)
(***************************************************************************)
EXTENDS NativeStream, EngineProofs

--------------------------------------------------------------------------------
(* The inductive invariant                                                  *)

InBackend == {"issuing", "settling", "claimed", "copying", "posting", "returning"}

\* Where the two threads may be: the caller is in submit_read only inside _submit_slot,
\* and the slot whose read it is issuing has its sequence number.
Places ==
    /\ thread["pump"].at \notin {"issuing", "joining"}
    /\ thread["caller"].at # "exited"
    /\ thread["caller"].at \in InBackend => pc = "submitted"
    /\ thread["caller"].at = "joining" => pc = "idle" /\ nativeReleased
    /\ \A t \in Threads :
          /\ thread[t].at \in InBackend => thread[t].slot \in Slots
          /\ thread[t].at \in InBackend \ {"issuing"} => thread[t].outcome \in Outcomes
          /\ thread[t].at = "issuing" => slots[thread[t].slot].sequence \in Nat

SettledBy(t, i) ==
    thread[t].at \in {"claimed", "copying", "posting"} /\ thread[t].slot = i

\* A slot is in flight, or being settled by one thread, or waits in the completion
\* queue, or is in hand; until the stream is cancelled it is then checked out.
Held ==
    /\ \A i \in Slots : inFlight[i] => slots[i].in_use
    /\ \A i \in Slots : ~(WaitsIn(completionQueue, i) /\ SlotInHand(i))
    /\ \A i \in Slots : WaitsIn(completionQueue, i) \/ SlotInHand(i) =>
                            ~inFlight[i] /\ \A t \in Threads : ~SettledBy(t, i)
    /\ \A i \in Slots, t \in Threads : SettledBy(t, i) => ~inFlight[i]
    /\ \A i \in Slots, s, t \in Threads : SettledBy(s, i) /\ SettledBy(t, i) => s = t
    /\ DistinctSlots(completionQueue)
    /\ ~cancelRequested =>
          \A i \in Slots :
             \/ WaitsIn(completionQueue, i)
             \/ SlotInHand(i)
             \/ \E t \in Threads : SettledBy(t, i)
             => slots[i].in_use

\* What stop() has reached: past cancel_all() no read is issued any more, and past
\* drain() none is in flight.
Stopped ==
    /\ pc \in {"drain", "release"} => cancelRequested
    /\ pc = "release" => ~AnyInFlight
    /\ nativeReleased => cancelRequested /\ ~AnyInFlight
    /\ cancelRequested => thread["caller"].at # "issuing"
    /\ thread["pump"].at = "exited" => nativeReleased
    /\ handleClosed => nativeReleased /\ CallerFree

NativeInv == NativeStreamTypeOK /\ Places /\ Held /\ Stopped

\* Initially no thread is in the backend and every slot is free.
LEMMA NativeInitially == NativeStreamInit => NativeInv
<1> SUFFICES ASSUME NativeStreamInit PROVE NativeInv
    OBVIOUS
<1> USE DEF NativeStreamInit, NativeInit
<1>1. EngineTypeOK
    BY EngineInitTypes
<1>2. \A t \in Threads : thread[t] = Idle /\ thread[t].at = "free"
    BY DEF Idle
<1>3. "caller" \in Threads /\ "pump" \in Threads
    BY DEF Threads
<1>4. NativeTypeOK
  <2>1. Idle \in ThreadState
      BY DEF Idle, ThreadState
  <2>2. pipe \in Seq([slot : Slots, sequence : Nat])
      OBVIOUS
  <2> QED
      BY <2>1, <2>2 DEF NativeTypeOK
<1>5. Places
    BY <1>2, <1>3 DEF Places, InBackend
<1>6. Held
  <2>1. /\ \A i \in Slots, t \in Threads : ~SettledBy(t, i)
        /\ \A i \in Slots : ~WaitsIn(completionQueue, i) /\ ~SlotInHand(i) /\ ~inFlight[i]
        /\ DistinctSlots(completionQueue)
      BY <1>2 DEF SettledBy, WaitsIn, SlotInHand, DistinctSlots, EngineInit
  <2> QED
      BY <2>1 DEF Held
<1>7. Stopped
    BY <1>2, <1>3 DEF Stopped, AnyInFlight, CallerFree, EngineInit
<1> QED
    BY <1>1, <1>4, <1>5, <1>6, <1>7 DEF NativeInv, NativeStreamTypeOK

--------------------------------------------------------------------------------
(* Types                                                                    *)

Points == {"free", "issuing", "settling", "claimed", "copying", "posting", "returning",
           "joining", "exited"}

\* What the driver reports of a read is one of the outcomes.
LEMMA ReportsOutcomes == \A i \in Slots : Reports(i) \subseteq Outcomes
BY DEF Reports

\* A thread that only moves on keeps its slot and its outcome.
LEMMA ThreadMoves ==
    ASSUME NEW f \in [Threads -> ThreadState], NEW t \in Threads, NEW at \in Points
    PROVE  [f EXCEPT ![t].at = at] \in [Threads -> ThreadState]
BY DEF ThreadState, Points

\* A thread that leaves the backend.
LEMMA ThreadRests ==
    ASSUME NEW f \in [Threads -> ThreadState], NEW t \in Threads
    PROVE  [f EXCEPT ![t] = Idle] \in [Threads -> ThreadState]
<1>1. Idle \in ThreadState
    BY DEF Idle, ThreadState
<1> QED
    BY <1>1

\* A thread that begins to issue the read of a slot.
LEMMA ThreadReserves ==
    ASSUME NEW f \in [Threads -> ThreadState], NEW t \in Threads, NEW i \in Slots
    PROVE  [f EXCEPT ![t] = [Idle EXCEPT !.at = "issuing", !.slot = i]]
               \in [Threads -> ThreadState]
<1>1. [Idle EXCEPT !.at = "issuing", !.slot = i] \in ThreadState
    BY DEF Idle, ThreadState
<1> QED
    BY <1>1

\* A thread whose read ended while it issued it.
LEMMA ThreadEnds ==
    ASSUME NEW f \in [Threads -> ThreadState], NEW t \in Threads, NEW outcome \in Outcomes
    PROVE  [f EXCEPT ![t].at = "settling", ![t].outcome = outcome] \in [Threads -> ThreadState]
BY DEF ThreadState

\* A thread that found a read ended.
LEMMA ThreadSettles ==
    ASSUME NEW f \in [Threads -> ThreadState], NEW t \in Threads,
           NEW i \in Slots, NEW outcome \in Outcomes
    PROVE  [f EXCEPT ![t] = [at |-> "settling", slot |-> i, outcome |-> outcome]]
               \in [Threads -> ThreadState]
<1>1. [at |-> "settling", slot |-> i, outcome |-> outcome] \in ThreadState
    BY DEF ThreadState
<1> QED
    BY <1>1

\* A step that leaves the engine alone leaves its types alone.
LEMMA EngineUntouched == EngineTypeOK /\ UNCHANGED engineVars => EngineTypeOK'
BY DEF engineVars, poolVars, countVars, callerVars, EngineTypeOK

\* The thread that is settling a slot has a slot and an outcome.
LEMMA SettlingThread ==
    ASSUME NativeInv, NEW t \in Threads, thread[t].at \in InBackend \ {"issuing"}
    PROVE  thread[t].slot \in Slots /\ thread[t].outcome \in Outcomes
BY DEF NativeInv, Places

\* The bytes copied from the native buffer to the raw slot are of a read, or none.
LEMMA CopyTypes ==
    ASSUME NativeInv, NEW t \in Threads, Copies(t)
    PROVE  EngineTypeOK'
<1> DEFINE i == thread[t].slot
<1>1. i \in Slots
    BY SettlingThread DEF Copies, EndCompletion, InBackend
<1>2. /\ buffer' \in {buffer, [buffer EXCEPT ![i] = nativeBytes[i]]}
      /\ UNCHANGED <<running, poolVars, completionQueue, outputQueue, countVars, callerVars>>
    BY DEF Copies
<1>3. nativeBytes[i] \in Nat \cup {None}
    BY <1>1 DEF NativeInv, NativeStreamTypeOK, NativeTypeOK
<1>4. EngineTypeOK
    BY DEF NativeInv, NativeStreamTypeOK
<1> HIDE DEF i
<1>5. buffer' \in [Slots -> Nat \cup {None}]
    BY <1>1, <1>2, <1>3, <1>4 DEF EngineTypeOK
<1> QED
    BY <1>2, <1>4, <1>5 DEF EngineTypeOK, poolVars, countVars, callerVars

\* The engine's half of every step keeps its types.
LEMMA NativeEngineTypes ==
    ASSUME NativeInv, [NativeStreamNext]_nativeStreamVars
    PROVE  EngineTypeOK'
<1>0. EngineTypeOK
    BY DEF NativeInv, NativeStreamTypeOK
<1>1. CASE EngineAlone
    BY <1>0, <1>1, TypeCallerStep DEF EngineAlone
<1>2. CASE SubmitReserved \/ ResubmitReserved \/ SubmitRefused
  <2>1. \E accepted \in BOOLEAN : StartSlot(accepted) \/ Recycle(accepted)
      BY <1>2 DEF SubmitReserved, ResubmitReserved, SubmitRefused
  <2> QED
      BY <1>0, <2>1, TypeSubmit
<1>3. CASE StopCancels \/ StopDrains \/ ShutdownFails \/ StopReleases
  <2>1. \/ \E from \in Steps, to \in {"idle", "drain", "release"} :
               from \in {"cancel", "drain"} /\ StopStep(from, to)
        \/ StopRelease
      BY <1>3 DEF StopCancels, StopDrains, ShutdownFails, StopCancelRaises,
                  StopDrainTimesOut, StopReleaseRaises, StopReleases, Steps
  <2> QED
      BY <1>0, <2>1, TypeStopStep
<1>4. ASSUME NEW t \in Threads, SettleStep(t)
      PROVE  EngineTypeOK'
  <2>1. CASE Claims(t) \/ GoesOn(t)
      BY <1>0, <2>1, EngineUntouched DEF Claims, GoesOn
  <2>2. CASE Copies(t)
      BY <2>2, CopyTypes
  <2>3. CASE Posts(t)
    <3>1. /\ thread[t].slot \in Slots /\ thread[t].outcome \in Outcomes
          /\ PostResult(thread[t].slot, thread[t].outcome)
        BY <2>3, SettlingThread DEF Posts, PostCompletion, InBackend
    <3> QED
        BY <1>0, <3>1, TypeCallback
  <2>4. CASE Returns(t)
      BY <1>0, <2>4, TypeCallback DEF Returns
  <2> QED
      BY <1>4, <2>1, <2>2, <2>3, <2>4 DEF SettleStep
<1>5. CASE \/ IssueRead \/ StopJoins \/ DeviceFinishes \/ PumpAlone
           \/ UNCHANGED nativeStreamVars
  <2>1. UNCHANGED engineVars
      BY <1>5 DEF IssueRead, StopJoins, DeviceFinishes, PumpAlone, nativeStreamVars
  <2> QED
      BY <1>0, <2>1, EngineUntouched
<1> QED
    BY <1>1, <1>2, <1>3, <1>4, <1>5 DEF NativeStreamNext, CallerThread, PumpThread, Threads

\* What the driver reports of a slot stays an outcome, pending or unissued.
LEMMA StatusTypes ==
    ASSUME NativeTypeOK
    PROVE  /\ Abort => /\ pipe' \in Seq([slot : Slots, sequence : Nat])
                       /\ status' \in [Slots -> {"unissued", "pending"} \cup Outcomes]
           /\ \A i \in Slots, outcome \in Outcomes :
                 /\ [status EXCEPT ![i] = outcome]
                        \in [Slots -> {"unissued", "pending"} \cup Outcomes]
                 /\ \A n \in Nat : Received(i, outcome, n) =>
                        nativeBytes' \in [Slots -> Nat \cup {None}]
<1>1. "error" \in Outcomes
    BY DEF Outcomes
<1>2. ASSUME Abort
      PROVE  /\ pipe' \in Seq([slot : Slots, sequence : Nat])
             /\ status' \in [Slots -> {"unissued", "pending"} \cup Outcomes]
    BY <1>1, <1>2 DEF Abort, NativeTypeOK
<1>3. ASSUME NEW i \in Slots, NEW outcome \in Outcomes
      PROVE  [status EXCEPT ![i] = outcome]
                 \in [Slots -> {"unissued", "pending"} \cup Outcomes]
    BY DEF NativeTypeOK
<1>4. ASSUME NEW i \in Slots, NEW outcome \in Outcomes, NEW n \in Nat,
             Received(i, outcome, n)
      PROVE  nativeBytes' \in [Slots -> Nat \cup {None}]
    BY <1>4 DEF NativeTypeOK, Received
<1> QED
    BY <1>2, <1>3, <1>4

\* submit_read, on the caller's thread.
LEMMA SubmitTypes ==
    ASSUME NativeInv, SubmitReserved \/ ResubmitReserved \/ SubmitRefused \/ IssueRead
    PROVE  NativeTypeOK'
<1>0. /\ NativeTypeOK /\ EngineTypeOK
      /\ "caller" \in Threads /\ thread \in [Threads -> ThreadState]
    BY DEF NativeInv, NativeStreamTypeOK, NativeTypeOK, Threads
<1>1. ASSUME NEW i \in Slots, ReserveRead(i)
      PROVE  NativeTypeOK'
  <2>1. inFlight' \in [Slots -> BOOLEAN]
      BY <1>0, <1>1 DEF ReserveRead, NativeTypeOK
  <2>2. status' \in [Slots -> {"unissued", "pending"} \cup Outcomes]
      BY <1>0, <1>1 DEF ReserveRead, NativeTypeOK
  <2>3. thread' \in [Threads -> ThreadState]
    <3>1. thread' = [thread EXCEPT !["caller"] = [Idle EXCEPT !.at = "issuing", !.slot = i]]
        BY <1>1 DEF ReserveRead
    <3> QED
        BY ONLY <1>0, <3>1, ThreadReserves
  <2> QED
      BY <1>0, <1>1, <2>1, <2>2, <2>3 DEF ReserveRead, NativeTypeOK, flagVars
<1>2. CASE SubmitReserved
  <2>1. cursor \in Slots
      BY <1>0, <1>2 DEF SubmitReserved, StartSlot, EngineTypeOK
  <2> QED
      BY <1>1, <1>2, <2>1 DEF SubmitReserved
<1>3. CASE ResubmitReserved
  <2>1. current.slot \in Slots
      BY <1>0, <1>3, BufferPoolAssumption
         DEF ResubmitReserved, Recycle, EngineTypeOK, RawFrameResult
  <2> QED
      BY <1>1, <1>3, <2>1 DEF ResubmitReserved
<1>4. CASE SubmitRefused
    BY <1>0, <1>4 DEF SubmitRefused, NativeTypeOK, nativeVars
<1>5. CASE IssueRead
  <2> DEFINE i == thread["caller"].slot
             sequence == slots[i].sequence
  <2>1. /\ thread["caller"].at = "issuing"
        /\ \/ IssuePending(sequence)
           \/ \E outcome \in Outcomes : IssueAtOnce(sequence, outcome)
      BY <1>5 DEF IssueRead, IssuePending, IssueAtOnce
  <2>2. i \in Slots /\ sequence \in Nat
      BY <1>0, <2>1 DEF NativeInv, Places, InBackend
  <2> HIDE DEF sequence
  <2>3. CASE IssuePending(sequence)
    <3>1. thread' \in [Threads -> ThreadState]
      <4>1. thread' = [thread EXCEPT !["caller"] = Idle]
          BY <2>3 DEF IssuePending
      <4> QED
          BY ONLY <1>0, <4>1, ThreadRests
    <3>2. pipe' \in Seq([slot : Slots, sequence : Nat])
      <4>1. pipe' = Append(pipe, [slot |-> i, sequence |-> sequence])
          BY <2>3 DEF IssuePending
      <4>2. [slot |-> i, sequence |-> sequence] \in [slot : Slots, sequence : Nat]
          BY <2>2
      <4> QED
          BY <1>0, <4>1, <4>2, AppendProperties DEF NativeTypeOK
    <3>3. status' \in [Slots -> {"unissued", "pending"} \cup Outcomes]
        BY <1>0, <2>2, <2>3 DEF IssuePending, NativeTypeOK
    <3> QED
        BY <1>0, <2>3, <3>1, <3>2, <3>3 DEF IssuePending, NativeTypeOK, flagVars
  <2>4. ASSUME NEW outcome \in Outcomes, IssueAtOnce(sequence, outcome)
        PROVE  NativeTypeOK'
    <3>1. thread' \in [Threads -> ThreadState]
      <4>1. thread' = [thread EXCEPT !["caller"].at = "settling",
                                     !["caller"].outcome = outcome]
          BY <2>4 DEF IssueAtOnce
      <4> QED
          BY ONLY <1>0, <4>1, ThreadEnds
    <3>2. /\ status' = [status EXCEPT ![i] = outcome]
          /\ Received(i, outcome, sequence)
        BY <2>4 DEF IssueAtOnce
    <3>3. /\ status' \in [Slots -> {"unissued", "pending"} \cup Outcomes]
          /\ nativeBytes' \in [Slots -> Nat \cup {None}]
        BY <1>0, <2>2, <3>2, StatusTypes
    <3> QED
        BY <1>0, <2>4, <3>1, <3>3 DEF IssueAtOnce, NativeTypeOK, flagVars
  <2> QED
      BY <2>1, <2>3, <2>4
<1> QED
    BY <1>2, <1>3, <1>4, <1>5

\* _settle_slot, on either thread.
LEMMA SettleTypes ==
    ASSUME NativeInv, NEW t \in Threads, SettleStep(t)
    PROVE  NativeTypeOK'
<1> DEFINE i == thread[t].slot
<1>0. /\ NativeTypeOK
      /\ {"claimed", "copying", "posting", "returning"} \subseteq Points
      /\ thread \in [Threads -> ThreadState]
    BY DEF NativeInv, NativeStreamTypeOK, NativeTypeOK, Points
<1>1. i \in Slots
    BY SettlingThread
       DEF SettleStep, Claims, Claim, GoesOn, CheckCancelled, Copies, EndCompletion, Posts,
           PostCompletion, Returns, ReturnFromSettle, InBackend
<1>2. /\ \E at \in Points : thread' \in {[thread EXCEPT ![t] = Idle],
                                        [thread EXCEPT ![t].at = at]}
      /\ inFlight' \in {inFlight, [inFlight EXCEPT ![i] = FALSE]}
      /\ Abort \/ UNCHANGED <<status, pipe>>
      /\ UNCHANGED <<nativeBytes, polls, flagVars>>
  <2>1. CASE Claims(t)
      BY <1>0, <2>1 DEF Claims, Claim
  <2>2. CASE Copies(t)
      BY <1>0, <2>2 DEF Copies, EndCompletion
  <2>3. CASE Posts(t)
      BY <1>0, <2>3 DEF Posts, PostCompletion
  <2>4. CASE Returns(t)
      BY <1>0, <2>4 DEF Returns, ReturnFromSettle
  <2>5. CASE GoesOn(t)
      BY <1>0, <2>5 DEF GoesOn, CheckCancelled
  <2> QED
      BY <1>0, <2>1, <2>2, <2>3, <2>4, <2>5 DEF SettleStep
<1>3. thread' \in [Threads -> ThreadState]
  <2>2. PICK at \in Points : thread' \in {[thread EXCEPT ![t] = Idle],
                                          [thread EXCEPT ![t].at = at]}
      BY <1>2
  <2>3. CASE thread' = [thread EXCEPT ![t] = Idle]
      BY ONLY <1>0, <2>3, ThreadRests
  <2>4. CASE thread' = [thread EXCEPT ![t].at = at]
      BY ONLY <1>0, <2>2, <2>4, ThreadMoves
  <2> QED
      BY <2>2, <2>3, <2>4
<1>4. inFlight' \in [Slots -> BOOLEAN]
    BY <1>0, <1>1, <1>2 DEF NativeTypeOK
<1>5. /\ status' \in [Slots -> {"unissued", "pending"} \cup Outcomes]
      /\ pipe' \in Seq([slot : Slots, sequence : Nat])
  <2>1. CASE Abort
      BY <1>0, <2>1, StatusTypes
  <2>2. CASE UNCHANGED <<status, pipe>>
      BY <1>0, <2>2 DEF NativeTypeOK
  <2> QED
      BY <1>2, <2>1, <2>2
<1> QED
    BY <1>0, <1>2, <1>3, <1>4, <1>5 DEF NativeTypeOK, flagVars

\* stop(), the pump's own steps and the device.
LEMMA OtherNativeTypes ==
    ASSUME NativeInv,
           \/ EngineAlone \/ StopCancels \/ StopDrains \/ StopReleases \/ StopJoins
           \/ ShutdownFails \/ PumpAlone \/ DeviceFinishes
    PROVE  NativeTypeOK'
<1>0. /\ NativeTypeOK /\ "caller" \in Threads /\ "pump" \in Threads
      /\ "joining" \in Points /\ "exited" \in Points /\ "settling" \in Points
      /\ thread \in [Threads -> ThreadState]
    BY DEF NativeInv, NativeStreamTypeOK, NativeTypeOK, Threads, Points
<1>1. CASE UNCHANGED nativeVars
    BY <1>0, <1>1 DEF NativeTypeOK, nativeVars
<1>2. CASE CancelNative \/ CancelNativeRaises \/ BeginReleaseRaises
  <2>1. /\ status' \in [Slots -> {"unissued", "pending"} \cup Outcomes]
        /\ pipe' \in Seq([slot : Slots, sequence : Nat])
    <3>1. Abort \/ UNCHANGED <<status, pipe>>
        BY <1>2 DEF CancelNative, CancelNativeRaises, BeginReleaseRaises
    <3> QED
        BY <1>0, <3>1, StatusTypes DEF NativeTypeOK
  <2> QED
      BY <1>0, <1>2, <2>1 DEF CancelNative, CancelNativeRaises, BeginReleaseRaises, NativeTypeOK
<1>3. CASE BeginRelease
  <2>1. /\ status' \in [Slots -> {"unissued", "pending"} \cup Outcomes]
        /\ pipe' \in Seq([slot : Slots, sequence : Nat])
      BY <1>0, <1>3, StatusTypes DEF BeginRelease
  <2>2. thread' \in [Threads -> ThreadState]
    <3>1. thread' = [thread EXCEPT !["caller"].at = "joining"]
        BY <1>3 DEF BeginRelease
    <3> QED
        BY ONLY <1>0, <3>1, ThreadMoves
  <2> QED
      BY <1>0, <1>3, <2>1, <2>2 DEF BeginRelease, NativeTypeOK
<1>4. CASE JoinPump \/ ReleaseOverlappedRaises
  <2>1. thread' \in [Threads -> ThreadState]
    <3>1. thread' = [thread EXCEPT !["caller"] = Idle]
        BY <1>4 DEF JoinPump, ReleaseOverlappedRaises
    <3> QED
        BY ONLY <1>0, <3>1, ThreadRests
  <2> QED
      BY <1>0, <1>4, <2>1 DEF JoinPump, ReleaseOverlappedRaises, NativeTypeOK, flagVars
<1>5. CASE BeginRound
    BY <1>0, <1>5 DEF BeginRound, NativeTypeOK, flagVars
<1>6. CASE Poll
  <2>1. PICK i \in polls :
           /\ polls' = polls \ {i}
           /\ \/ UNCHANGED thread
              \/ \E outcome \in Reports(i) :
                    thread' = [thread EXCEPT !["pump"] = [at |-> "settling", slot |-> i,
                                                          outcome |-> outcome]]
           /\ UNCHANGED <<inFlight, status, pipe, nativeBytes, flagVars>>
      BY <1>6 DEF Poll
  <2>2. i \in Slots
      BY <1>0 DEF NativeTypeOK
  <2>3. thread' \in [Threads -> ThreadState]
    <3>1. CASE UNCHANGED thread
        BY <1>0, <3>1
    <3>2. ASSUME NEW outcome \in Reports(i),
                 thread' = [thread EXCEPT !["pump"] = [at |-> "settling", slot |-> i,
                                                       outcome |-> outcome]]
          PROVE  thread' \in [Threads -> ThreadState]
      <4>1. outcome \in Outcomes
          BY <2>2, ReportsOutcomes
      <4> QED
          BY ONLY <1>0, <2>2, <3>2, <4>1, ThreadSettles
    <3> QED
        BY <2>1, <3>1, <3>2
  <2> QED
      BY <1>0, <2>1, <2>3 DEF NativeTypeOK, flagVars
<1>7. CASE PumpExits
  <2>1. thread' \in [Threads -> ThreadState]
    <3>1. thread' = [thread EXCEPT !["pump"].at = "exited"]
        BY <1>7 DEF PumpExits
    <3> QED
        BY ONLY <1>0, <3>1, ThreadMoves
  <2> QED
      BY <1>0, <1>7, <2>1 DEF PumpExits, NativeTypeOK, flagVars
<1>8. ASSUME NEW outcome \in Outcomes, ReadFinishes(outcome)
      PROVE  NativeTypeOK'
  <2>1. /\ Head(pipe) \in [slot : Slots, sequence : Nat]
        /\ Tail(pipe) \in Seq([slot : Slots, sequence : Nat])
    <3>1. pipe \in Seq([slot : Slots, sequence : Nat]) /\ pipe # <<>>
        BY <1>0, <1>8 DEF NativeTypeOK, ReadFinishes
    <3> QED
        BY <3>1, HeadTailProperties
  <2> DEFINE read == Head(pipe)
  <2>2. /\ status' = [status EXCEPT ![read.slot] = outcome]
        /\ Received(read.slot, outcome, read.sequence)
        /\ pipe' = Tail(pipe)
        /\ UNCHANGED <<inFlight, thread, polls, flagVars>>
      BY <1>8 DEF ReadFinishes
  <2>3. read.slot \in Slots /\ read.sequence \in Nat
      BY <2>1
  <2> HIDE DEF read
  <2>4. /\ status' \in [Slots -> {"unissued", "pending"} \cup Outcomes]
        /\ nativeBytes' \in [Slots -> Nat \cup {None}]
      BY <1>0, <2>2, <2>3, StatusTypes
  <2> QED
      BY <1>0, <2>1, <2>2, <2>4 DEF NativeTypeOK, flagVars
<1> QED
    BY <1>1, <1>2, <1>3, <1>4, <1>5, <1>6, <1>7, <1>8
       DEF EngineAlone, StopCancels, StopDrains, StopReleases, ReleaseAgain, StopJoins,
           ShutdownFails, StopCancelRaises, StopDrainTimesOut, StopReleaseRaises, PumpAlone,
           DeviceFinishes

\* Every step keeps the types.
LEMMA NativeTypeNext ==
    ASSUME NativeInv, [NativeStreamNext]_nativeStreamVars
    PROVE  NativeStreamTypeOK'
<1>1. UNCHANGED nativeStreamVars => NativeTypeOK'
  <2> HAVE UNCHANGED nativeStreamVars
  <2>1. NativeTypeOK /\ UNCHANGED nativeVars
      BY DEF nativeStreamVars, NativeInv, NativeStreamTypeOK
  <2> QED
      BY <2>1 DEF nativeVars, NativeTypeOK
<1>2. NativeTypeOK'
    BY <1>1, SubmitTypes, SettleTypes, OtherNativeTypes
       DEF NativeStreamNext, CallerThread, PumpThread, Threads, NativeStreamTypeOK
<1> QED
    BY <1>2, NativeEngineTypes DEF NativeStreamTypeOK

--------------------------------------------------------------------------------
(* The threads                                                              *)

\* A callback of the native backend always finds room in the completion queue.
LEMMA NativeRoom ==
    ASSUME NativeInv, NEW t \in Threads, thread[t].at = "posting"
    PROVE  Len(completionQueue) < RawSlots
<1>1. thread[t].slot \in Slots
    BY DEF NativeInv, Places, InBackend
<1>2. DistinctSlots(completionQueue) /\ ~WaitsIn(completionQueue, thread[t].slot)
    BY <1>1 DEF NativeInv, Held, SettledBy
<1>3. completionQueue \in Seq(RawFrameResult)
    BY DEF NativeInv, NativeStreamTypeOK, EngineTypeOK
<1> QED
    BY <1>1, <1>2, <1>3, RoomForAnother

\* So a callback posts its result and leaves the pool alone.
LEMMA CallbackPosts ==
    ASSUME NativeInv, NEW t \in Threads, Posts(t)
    PROVE  LET i == thread[t].slot IN
           /\ i \in Slots /\ thread[t].outcome \in Outcomes /\ thread[t].at = "posting"
           /\ thread' = [thread EXCEPT ![t].at = "returning"]
           /\ \E r \in RawFrameResult :
                 /\ r.slot = i /\ r.outcome = thread[t].outcome
                 /\ slots[i].sequence \in Nat => r.sequence = slots[i].sequence
                 /\ completionQueue' = Append(completionQueue, r)
           /\ UNCHANGED <<slots, running, nextSequence, buffer, outputQueue, stats,
                          pc, cursor, current, inFlight, status, pipe, nativeBytes, polls,
                          cancelRequested, nativeReleased, handleClosed>>
<1> DEFINE i == thread[t].slot
           sequence == IF slots[i].sequence = None THEN 0 ELSE slots[i].sequence
           r == [slot |-> i, outcome |-> thread[t].outcome, sequence |-> sequence]
<1>1. /\ thread[t].at = "posting" /\ thread' = [thread EXCEPT ![t].at = "returning"]
      /\ UNCHANGED <<inFlight, status, pipe, nativeBytes, polls, flagVars>>
      /\ PostResult(i, thread[t].outcome)
    BY DEF Posts, PostCompletion
<1>2. i \in Slots /\ thread[t].outcome \in Outcomes
    BY <1>1, SettlingThread DEF InBackend
<1>3. ~(Len(completionQueue) >= RawSlots)
  <2>1. Len(completionQueue) < RawSlots
      BY <1>1, NativeRoom
  <2>2. Len(completionQueue) \in Nat
      BY LenProperties DEF NativeInv, NativeStreamTypeOK, EngineTypeOK
  <2> QED
      BY <2>1, <2>2, BufferPoolAssumption
<1>4. slots[i].sequence \in Nat \cup {None}
    BY <1>2 DEF NativeInv, NativeStreamTypeOK, EngineTypeOK, RawFrameSlot
<1>5. /\ completionQueue' = Append(completionQueue, r)
      /\ UNCHANGED <<slots, running, nextSequence, buffer, outputQueue, stats, pc, cursor,
                     current>>
    BY <1>1, <1>3 DEF PostResult, callerVars
<1>6. r \in RawFrameResult
    BY <1>2, <1>4 DEF RawFrameResult
<1>7. slots[i].sequence \in Nat => r.sequence = slots[i].sequence
    BY BufferPoolAssumption
<1>8. r.slot = i /\ r.outcome = thread[t].outcome
    OBVIOUS
<1> HIDE DEF r
<1> QED
    BY <1>1, <1>2, <1>5, <1>6, <1>7, <1>8 DEF flagVars

\* While the caller is outside the backend and no thread moves, any of its steps will do.
LEMMA PlacesFree ==
    ASSUME Places, CallerFree, thread' = thread
    PROVE  Places'
BY DEF Places, CallerFree, InBackend, Threads

\* The pump moves and the caller's side stays.
LEMMA PlacesPump ==
    ASSUME Places, thread'["caller"] = thread["caller"], UNCHANGED <<slots, pc, nativeReleased>>,
           thread'["pump"].at \notin {"issuing", "joining"},
           thread'["pump"].at \in InBackend =>
               thread'["pump"].slot \in Slots /\ thread'["pump"].outcome \in Outcomes
    PROVE  Places'
BY DEF Places, Threads, InBackend

\* The caller moves and the pump stays.
LEMMA PlacesCaller ==
    ASSUME Places, thread'["pump"] = thread["pump"],
           LET c == thread'["caller"] IN
           /\ c.at # "exited"
           /\ c.at \in InBackend => pc' = "submitted" /\ c.slot \in Slots
           /\ c.at \in InBackend \ {"issuing"} => c.outcome \in Outcomes
           /\ c.at = "issuing" => slots'[c.slot].sequence \in Nat
           /\ c.at = "joining" => pc' = "idle" /\ nativeReleased'
    PROVE  Places'
BY DEF Places, Threads, InBackend

\* A slot that was submitted has its sequence number.
LEMMA SubmittedSequence ==
    ASSUME NativeInv, SubmitReserved \/ ResubmitReserved
    PROVE  \E i \in Slots :
              /\ ReserveRead(i) /\ pc' = "submitted"
              /\ \/ pc = "starting" /\ cursor = i /\ ~slots[i].in_use /\ current = None
                 \/ pc = "recycling" /\ current # None /\ current.slot = i
              /\ slots'[i].in_use /\ slots'[i].sequence = nextSequence
              /\ nextSequence \in Nat
              /\ \A j \in Slots \ {i} : slots'[j] = slots[j]
              /\ current' = None
              /\ UNCHANGED <<completionQueue, outputQueue, buffer>>
<1>0. /\ EngineTypeOK /\ None \notin RawFrameResult
    BY BufferPoolAssumption DEF NativeInv, NativeStreamTypeOK
<1>1. CASE SubmitReserved
  <2>1. cursor \in Slots /\ current = None /\ slots \in [Slots -> RawFrameSlot]
        /\ nextSequence \in Nat
      BY <1>0, <1>1 DEF SubmitReserved, StartSlot, EngineTypeOK
  <2>2. slots' = [Checkout(slots, cursor) EXCEPT ![cursor].sequence = nextSequence]
      BY <1>1 DEF SubmitReserved, StartSlot, SubmitSlot
  <2>3. /\ slots'[cursor].in_use /\ slots'[cursor].sequence = nextSequence
        /\ \A j \in Slots \ {cursor} : slots'[j] = slots[j]
      BY <2>1, <2>2 DEF Checkout, RawFrameSlot
  <2> QED
      BY <1>1, <2>1, <2>3 DEF SubmitReserved, StartSlot, SubmitSlot
<1>2. CASE ResubmitReserved
  <2>1. /\ current.slot \in Slots /\ current # None /\ slots \in [Slots -> RawFrameSlot]
        /\ nextSequence \in Nat
      BY <1>0, <1>2 DEF ResubmitReserved, Recycle, EngineTypeOK, RawFrameResult
  <2> DEFINE i == current.slot
  <2>2. slots' = [Checkout(Release(slots, i), i) EXCEPT ![i].sequence = nextSequence]
      BY <1>2 DEF ResubmitReserved, Recycle, SubmitSlot
  <2>3. /\ slots'[i].in_use /\ slots'[i].sequence = nextSequence
        /\ \A j \in Slots \ {i} : slots'[j] = slots[j]
      BY <2>1, <2>2 DEF Checkout, Release, FreeSlot, RawFrameSlot
  <2> QED
      BY <1>2, <2>1, <2>3 DEF ResubmitReserved, Recycle, SubmitSlot
<1> QED
    BY <1>1, <1>2

\* The caller is in the backend or in the join exactly where these steps leave it.
LEMMA PlacesNext ==
    ASSUME NativeInv, [NativeStreamNext]_nativeStreamVars
    PROVE  Places'
<1>0. /\ Places /\ NativeTypeOK /\ "caller" \in Threads /\ "pump" \in Threads
      /\ thread \in [Threads -> ThreadState]
      /\ \A t \in Threads : t = "caller" \/ t = "pump"
    BY DEF NativeInv, NativeStreamTypeOK, NativeTypeOK, Threads
<1>1. CASE EngineAlone \/ SubmitRefused
  <2>1. CallerFree /\ thread' = thread
      BY <1>1 DEF EngineAlone, SubmitRefused, nativeVars
  <2> QED
      BY <1>0, <2>1, PlacesFree
<1>2. CASE SubmitReserved \/ ResubmitReserved
  <2>1. PICK i \in Slots : /\ ReserveRead(i) /\ pc' = "submitted"
                           /\ slots'[i].sequence = nextSequence /\ nextSequence \in Nat
      BY <1>2, SubmittedSequence
  <2>2. thread' = [thread EXCEPT !["caller"] = [Idle EXCEPT !.at = "issuing", !.slot = i]]
      BY <2>1 DEF ReserveRead
  <2>3. /\ thread'["caller"].at = "issuing" /\ thread'["caller"].slot = i
        /\ thread'["pump"] = thread["pump"]
      BY <1>0, <2>2 DEF Idle
  <2> QED
      BY <1>0, <2>1, <2>3, PlacesCaller
<1>3. CASE IssueRead
  <2>1. /\ thread["caller"].at = "issuing" /\ pc' = pc /\ thread'["pump"] = thread["pump"]
        /\ \/ thread'["caller"] = Idle
           \/ /\ thread'["caller"].at = "settling"
              /\ thread'["caller"].slot = thread["caller"].slot
              /\ thread'["caller"].outcome \in Outcomes
      BY <1>0, <1>3 DEF IssueRead, IssuePending, IssueAtOnce, engineVars, callerVars, ThreadState
  <2>2. pc = "submitted" /\ thread["caller"].slot \in Slots
      BY <1>0, <2>1 DEF Places, InBackend
  <2> QED
      BY <1>0, <2>1, <2>2, PlacesCaller DEF Idle, InBackend
<1>4. ASSUME NEW t \in Threads, SettleStep(t)
      PROVE  Places'
  <2>1. /\ thread[t].at \in InBackend \ {"issuing"}
        /\ UNCHANGED <<pc, slots, nativeReleased>>
        /\ \/ thread' = [thread EXCEPT ![t] = Idle]
           \/ \E at \in InBackend \ {"issuing"} : thread' = [thread EXCEPT ![t].at = at]
    <3>1. CASE Claims(t)
        BY <3>1 DEF Claims, Claim, InBackend, engineVars, poolVars, callerVars, flagVars
    <3>2. CASE Copies(t)
        BY <3>2 DEF Copies, EndCompletion, InBackend, poolVars, callerVars, flagVars
    <3>3. CASE Posts(t)
        BY <3>3, CallbackPosts DEF InBackend
    <3>4. CASE Returns(t)
        BY <3>4 DEF Returns, ReturnFromSettle, CountCompleted, InBackend, poolVars, callerVars,
                    flagVars
    <3>5. CASE GoesOn(t)
        BY <3>5 DEF GoesOn, CheckCancelled, InBackend, engineVars, poolVars, callerVars, flagVars
    <3> QED
        BY <1>4, <3>1, <3>2, <3>3, <3>4, <3>5 DEF SettleStep
  <2>2. thread[t].slot \in Slots /\ thread[t].outcome \in Outcomes
      BY <2>1, SettlingThread
  <2>3. /\ \A u \in Threads \ {t} : thread'[u] = thread[u]
        /\ thread'[t].at \in {"free"} \cup (InBackend \ {"issuing"})
        /\ thread'[t].at # "free" => /\ thread'[t].slot = thread[t].slot
                                     /\ thread'[t].outcome = thread[t].outcome
      BY <1>0, <2>1 DEF Idle, ThreadState
  <2>4. CASE t = "caller"
    <3>1. pc = "submitted"
        BY <1>0, <2>1, <2>4 DEF Places
    <3>2. thread'["pump"] = thread["pump"]
        BY <1>0, <2>3, <2>4
    <3> QED
        BY <1>0, <2>1, <2>2, <2>3, <2>4, <3>1, <3>2, PlacesCaller DEF InBackend
  <2>5. CASE t = "pump"
    <3>1. thread'["caller"] = thread["caller"]
        BY <1>0, <2>3, <2>5
    <3> QED
        BY <1>0, <2>1, <2>2, <2>3, <2>5, <3>1, PlacesPump DEF InBackend
  <2> QED
      BY <1>0, <2>4, <2>5
<1>5. CASE StopCancels \/ StopDrains \/ ShutdownFails
  <2>1. thread' = thread
      BY <1>5 DEF StopCancels, StopDrains, ShutdownFails, StopCancelRaises,
                  StopDrainTimesOut, StopReleaseRaises, CancelNative, CancelNativeRaises,
                  BeginReleaseRaises, nativeVars
  <2>2. pc \in {"cancel", "drain", "release"}
      BY <1>5 DEF StopCancels, StopDrains, ShutdownFails, StopCancelRaises,
                  StopDrainTimesOut, StopReleaseRaises, StopStep, StopRelease
  <2>3. CallerFree
      BY <1>0, <2>2 DEF Places, CallerFree, InBackend, ThreadState
  <2> QED
      BY <1>0, <2>1, <2>3, PlacesFree
<1>6. CASE StopReleases
  <2>1. pc = "release" /\ pc' = "idle"
      BY <1>6 DEF StopReleases, StopRelease
  <2>2. CASE BeginRelease
    <3>1. thread' = [thread EXCEPT !["caller"].at = "joining"] /\ nativeReleased'
        BY <2>2 DEF BeginRelease
    <3>2. thread'["pump"] = thread["pump"] /\ thread'["caller"].at = "joining"
        BY <1>0, <3>1 DEF ThreadState
    <3> QED
        BY <1>0, <2>1, <3>1, <3>2, PlacesCaller DEF InBackend
  <2>3. CASE ReleaseAgain
    <3>1. CallerFree
        BY <1>0, <2>1 DEF Places, CallerFree, InBackend, ThreadState
    <3> QED
        BY <1>0, <2>3, <3>1, PlacesFree DEF ReleaseAgain, nativeVars
  <2> QED
      BY <1>6, <2>2, <2>3 DEF StopReleases
<1>7. CASE StopJoins
  <2>1. thread' = [thread EXCEPT !["caller"] = Idle]
      BY <1>7 DEF StopJoins, JoinPump, ReleaseOverlappedRaises
  <2>2. thread'["pump"] = thread["pump"] /\ thread'["caller"].at = "free"
      BY <1>0, <2>1 DEF Idle
  <2> QED
      BY <1>0, <2>2, PlacesCaller DEF InBackend
<1>8. CASE PumpAlone
  <2>1. UNCHANGED <<slots, pc, nativeReleased>>
      BY <1>8 DEF PumpAlone, BeginRound, Poll, PumpExits, engineVars, poolVars, callerVars,
                  flagVars
  <2>2. \/ thread' = thread
        \/ \E i \in Slots, outcome \in Outcomes :
              thread' = [thread EXCEPT !["pump"] = [at |-> "settling", slot |-> i,
                                                    outcome |-> outcome]]
        \/ thread' = [thread EXCEPT !["pump"].at = "exited"]
      BY <1>0, <1>8, ReportsOutcomes DEF PumpAlone, BeginRound, Poll, PumpExits, NativeTypeOK
  <2>3. /\ thread'["caller"] = thread["caller"]
        /\ \/ thread'["pump"] = thread["pump"]
           \/ /\ thread'["pump"].at = "settling" /\ thread'["pump"].slot \in Slots
              /\ thread'["pump"].outcome \in Outcomes
           \/ thread'["pump"].at = "exited"
      BY <1>0, <2>2 DEF ThreadState
  <2> QED
      BY <1>0, <2>1, <2>3, PlacesPump DEF Places, InBackend
<1>9. CASE DeviceFinishes \/ UNCHANGED nativeStreamVars
  <2>1. UNCHANGED <<thread, slots, pc, nativeReleased>>
      BY <1>9 DEF DeviceFinishes, ReadFinishes, nativeStreamVars, nativeVars, engineVars,
                  poolVars, callerVars, flagVars
  <2> QED
      BY <1>0, <2>1, PlacesPump DEF Places, InBackend
<1> QED
    BY <1>0, <1>1, <1>2, <1>3, <1>4, <1>5, <1>6, <1>7, <1>8, <1>9
       DEF NativeStreamNext, CallerThread, PumpThread

\* A step after which no more is in flight, that stops and closes nothing.
LEMMA StoppedFrame ==
    ASSUME Stopped, UNCHANGED <<cancelRequested, nativeReleased, handleClosed>>,
           \A i \in Slots : inFlight'[i] => inFlight[i],
           pc' \in {"drain", "release"} => pc' = pc,
           thread'["caller"].at = "issuing" => thread["caller"].at = "issuing",
           thread'["pump"].at = "exited" => thread["pump"].at = "exited",
           CallerFree => thread'["caller"].at = "free"
    PROVE  Stopped'
BY DEF Stopped, AnyInFlight, CallerFree

\* Every step keeps the order in which a stream stops.
LEMMA StoppedNext ==
    ASSUME NativeInv, [NativeStreamNext]_nativeStreamVars
    PROVE  Stopped'
<1>0. /\ Stopped /\ NativeTypeOK /\ "caller" \in Threads /\ "pump" \in Threads
      /\ thread \in [Threads -> ThreadState] /\ inFlight \in [Slots -> BOOLEAN]
      /\ \A t \in Threads : t = "caller" \/ t = "pump"
    BY DEF NativeInv, NativeStreamTypeOK, NativeTypeOK, Threads
<1>1. CASE EngineAlone \/ SubmitRefused \/ UNCHANGED nativeStreamVars
  <2>1. UNCHANGED <<thread, inFlight, cancelRequested, nativeReleased, handleClosed>>
      BY <1>1 DEF EngineAlone, SubmitRefused, nativeVars, nativeStreamVars
  <2>2. pc' \in {"drain", "release"} => pc' = pc
    <3>1. CASE EngineAlone
        BY <3>1 DEF EngineAlone, CallerStep, Start, StartSlotInUse, CountSubmitted, TakeResult,
            UsbError, ShortRead, DecodeFrame, DecodeFails, DecoderRaises, Discard,
            RecycleStopped, TakeFrame, Stop, StartAgain, StopAgain, engineVars, callerVars
    <3>2. CASE SubmitRefused
        BY <3>2 DEF SubmitRefused, StartSlot, Recycle, SubmitSlot
    <3>3. CASE UNCHANGED nativeStreamVars
        BY <3>3 DEF nativeStreamVars, engineVars, callerVars
    <3> QED
        BY <1>1, <3>1, <3>2, <3>3
  <2> QED
      BY <1>0, <2>1, <2>2, StoppedFrame DEF CallerFree
<1>2. CASE SubmitReserved \/ ResubmitReserved
  <2>1. PICK i \in Slots : ReserveRead(i) /\ pc' = "submitted"
      BY <1>2, SubmittedSequence
  <2>2. /\ ~cancelRequested /\ ~nativeReleased
        /\ UNCHANGED <<cancelRequested, nativeReleased, handleClosed>>
        /\ thread' = [thread EXCEPT !["caller"] = [Idle EXCEPT !.at = "issuing", !.slot = i]]
      BY <2>1 DEF ReserveRead, CanReserve, flagVars
  <2>3. thread'["pump"] = thread["pump"]
      BY <1>0, <2>2
  <2> QED
      BY <1>0, <2>1, <2>2, <2>3 DEF Stopped
<1>3. CASE IssueRead
  <2>1. /\ UNCHANGED <<pc, inFlight, cancelRequested, nativeReleased, handleClosed>>
        /\ thread["caller"].at = "issuing"
        /\ thread' = [thread EXCEPT !["caller"] = Idle]
           \/ \E outcome \in Outcomes :
                 thread' = [thread EXCEPT !["caller"].at = "settling",
                                          !["caller"].outcome = outcome]
      BY <1>3 DEF IssueRead, IssuePending, IssueAtOnce, engineVars, callerVars, flagVars
  <2>2. thread'["caller"].at \in {"free", "settling"} /\ thread'["pump"] = thread["pump"]
      BY <1>0, <2>1 DEF Idle, ThreadState
  <2> QED
      BY <1>0, <2>1, <2>2, StoppedFrame DEF CallerFree
<1>4. ASSUME NEW t \in Threads, SettleStep(t)
      PROVE  Stopped'
  <2>1. /\ UNCHANGED <<pc, cancelRequested, nativeReleased, handleClosed>>
        /\ thread[t].at \in InBackend \ {"issuing"}
        /\ inFlight' \in {inFlight, [inFlight EXCEPT ![thread[t].slot] = FALSE]}
        /\ \/ thread' = [thread EXCEPT ![t] = Idle]
           \/ \E at \in InBackend \ {"issuing"} : thread' = [thread EXCEPT ![t].at = at]
    <3>1. CASE Claims(t)
        BY <3>1 DEF Claims, Claim, InBackend, engineVars, callerVars, flagVars
    <3>2. CASE Copies(t)
        BY <3>2 DEF Copies, EndCompletion, InBackend, callerVars, flagVars
    <3>3. CASE Posts(t)
        BY <3>3, CallbackPosts DEF InBackend
    <3>4. CASE Returns(t)
        BY <3>4 DEF Returns, ReturnFromSettle, CountCompleted, InBackend, callerVars, flagVars
    <3>5. CASE GoesOn(t)
        BY <3>5 DEF GoesOn, CheckCancelled, InBackend, engineVars, callerVars, flagVars
    <3> QED
        BY <1>4, <3>1, <3>2, <3>3, <3>4, <3>5 DEF SettleStep
  <2>2. /\ \A u \in Threads \ {t} : thread'[u] = thread[u]
        /\ thread'[t].at \in {"free"} \cup (InBackend \ {"issuing"})
        /\ \A i \in Slots : inFlight'[i] => inFlight[i]
      BY <1>0, <2>1 DEF Idle, ThreadState
  <2> QED
      BY <1>0, <2>1, <2>2, StoppedFrame DEF CallerFree, InBackend
<1>5. CASE StopCancels \/ StopCancelRaises
  <2>1. /\ CallerFree /\ thread' = thread /\ inFlight' = inFlight /\ cancelRequested'
        /\ pc' # "release" /\ UNCHANGED <<nativeReleased, handleClosed>>
      BY <1>5 DEF StopCancels, StopCancelRaises, CancelNative, CancelNativeRaises, StopStep
  <2> QED
      BY <1>0, <2>1 DEF Stopped, CallerFree, AnyInFlight
<1>6. CASE StopDrains \/ StopDrainTimesOut
  <2>1. /\ UNCHANGED nativeVars /\ pc = "drain"
        /\ (pc' = "release" /\ ~AnyInFlight) \/ pc' = "idle"
      BY <1>6 DEF StopDrains, StopDrainTimesOut, NativeDrained, StopStep
  <2>2. UNCHANGED <<inFlight, thread, cancelRequested, nativeReleased, handleClosed>>
      BY <2>1 DEF nativeVars
  <2> QED
      BY <1>0, <2>1, <2>2 DEF Stopped, AnyInFlight, CallerFree
<1>7. CASE StopReleases \/ StopReleaseRaises
  <2>1. /\ pc = "release" /\ pc' = "idle" /\ inFlight' = inFlight
        /\ cancelRequested' /\ nativeReleased' /\ handleClosed' = handleClosed
        /\ thread'["pump"] = thread["pump"]
        /\ thread'["caller"].at \in {thread["caller"].at, "joining"}
        /\ handleClosed => thread' = thread
      BY <1>0, <1>7 DEF StopReleases, StopReleaseRaises, StopRelease, BeginRelease,
                        ReleaseAgain, BeginReleaseRaises, nativeVars, Stopped, ThreadState
  <2> QED
      BY <1>0, <2>1 DEF Stopped, AnyInFlight, CallerFree
<1>8. CASE StopJoins
  <2>1. /\ thread["caller"].at = "joining" /\ thread' = [thread EXCEPT !["caller"] = Idle]
        /\ UNCHANGED <<pc, inFlight, cancelRequested, nativeReleased>>
        /\ handleClosed' => handleClosed \/ nativeReleased
      BY <1>8 DEF NativeInv, Places, StopJoins, JoinPump, ReleaseOverlappedRaises, engineVars,
                  callerVars, flagVars
  <2>2. thread'["caller"].at = "free" /\ thread'["pump"] = thread["pump"]
      BY <1>0, <2>1 DEF Idle
  <2>3. nativeReleased
      BY <2>1 DEF NativeInv, Places
  <2> QED
      BY <1>0, <2>1, <2>2, <2>3 DEF Stopped, AnyInFlight, CallerFree
<1>9. CASE PumpAlone
  <2>1. /\ UNCHANGED <<pc, inFlight, cancelRequested, nativeReleased, handleClosed>>
        /\ thread'["caller"] = thread["caller"]
        /\ \/ thread'["pump"].at \in {thread["pump"].at, "settling"}
           \/ nativeReleased
      BY <1>0, <1>9 DEF PumpAlone, BeginRound, Poll, PumpExits, engineVars, callerVars, flagVars
  <2> QED
      BY <1>0, <2>1 DEF Stopped, AnyInFlight, CallerFree
<1>10. CASE DeviceFinishes
  <2>1. UNCHANGED <<thread, pc, inFlight, cancelRequested, nativeReleased, handleClosed>>
      BY <1>10 DEF DeviceFinishes, ReadFinishes, engineVars, callerVars, flagVars
  <2> QED
      BY <1>0, <2>1, StoppedFrame DEF CallerFree
<1> QED
    BY <1>0, <1>1, <1>2, <1>3, <1>4, <1>5, <1>6, <1>7, <1>8, <1>9, <1>10
       DEF NativeStreamNext, CallerThread, PumpThread, ShutdownFails

--------------------------------------------------------------------------------
(* Who has a slot                                                           *)

\* A step in which slots only leave the hands they are in, and stay checked out.
LEMMA HeldFrame ==
    ASSUME Held, DistinctSlots(completionQueue'), cancelRequested => cancelRequested',
           \A i \in Slots :
              /\ inFlight'[i] => inFlight[i]
              /\ \A t \in Threads : SettledBy(t, i)' => SettledBy(t, i)
              /\ WaitsIn(completionQueue', i) => WaitsIn(completionQueue, i)
              /\ SlotInHand(i)' => SlotInHand(i)
              /\ slots[i].in_use => slots'[i].in_use
    PROVE  Held'
BY DEF Held

\* The same, for a step that touches neither the queue nor the result in hand.
LEMMA HeldStill ==
    ASSUME Held, UNCHANGED <<completionQueue, current>>, cancelRequested => cancelRequested',
           \A i \in Slots :
              /\ inFlight'[i] => inFlight[i]
              /\ \A t \in Threads : SettledBy(t, i)' => SettledBy(t, i)
              /\ slots[i].in_use => slots'[i].in_use
    PROVE  Held'
<1>1. DistinctSlots(completionQueue')
    BY DEF Held
<1>2. \A i \in Slots : SlotInHand(i)' => SlotInHand(i)
    BY DEF SlotInHand
<1> QED
    BY <1>1, <1>2, HeldFrame

\* The caller's own steps: a result moves from the queue to the caller's hand, and a
\* slot in hand goes back to the pool.
LEMMA HeldCaller ==
    ASSUME NativeInv, EngineAlone
    PROVE  Held'
<1>0. /\ Held /\ EngineTypeOK /\ CallerStep
      /\ UNCHANGED <<inFlight, thread, cancelRequested>>
      /\ \A i \in Slots, t \in Threads : SettledBy(t, i)' <=> SettledBy(t, i)
    BY DEF NativeInv, NativeStreamTypeOK, EngineAlone, nativeVars, SettledBy
<1>1. CASE TakeResult
  <2>1. /\ completionQueue \in Seq(RawFrameResult) /\ completionQueue # <<>>
        /\ current' = Head(completionQueue) /\ completionQueue' = Tail(completionQueue)
        /\ slots' = slots /\ current = None
      BY <1>0, <1>1 DEF TakeResult, EngineTypeOK, poolVars
  <2>2. DistinctSlots(completionQueue)
      BY <1>0 DEF Held
  <2> DEFINE h == Head(completionQueue)
  <2>3. /\ WaitsIn(completionQueue, h.slot)
        /\ DistinctSlots(completionQueue')
        /\ \A i : WaitsIn(completionQueue', i) <=> WaitsIn(completionQueue, i) /\ i # h.slot
      BY <2>1, <2>2, WaitingAfterTake
  <2>4. \A i : /\ ~SlotInHand(i)
               /\ SlotInHand(i)' => i = h.slot
      BY <2>1 DEF SlotInHand
  <2> HIDE DEF h
  <2> QED
      BY <1>0, <2>1, <2>3, <2>4 DEF Held
<1>2. CASE RecycleStopped
  <2>1. /\ current.slot \in Slots /\ current # None /\ current' = None
        /\ slots' = [slots EXCEPT ![current.slot] = FreeSlot]
        /\ completionQueue' = completionQueue
      BY <1>0, <1>2, BufferPoolAssumption
         DEF RecycleStopped, EngineTypeOK, Release, RawFrameResult
  <2>2. \A i \in Slots : /\ ~SlotInHand(i)'
                         /\ SlotInHand(i) <=> i = current.slot
                         /\ i # current.slot => slots'[i] = slots[i]
      BY <1>0, <2>1 DEF SlotInHand, EngineTypeOK
  <2> QED
      BY <1>0, <2>1, <2>2 DEF Held
<1>3. CASE ~TakeResult /\ ~RecycleStopped
  <2>1. UNCHANGED <<completionQueue, current, slots>>
      BY <1>0, <1>3
         DEF CallerStep, Start, StartSlotInUse, CountSubmitted, UsbError, ShortRead,
             DecodeFrame, DecodeFails, DecoderRaises, Discard, TakeFrame, Stop, StartAgain,
             StopAgain, engineVars, poolVars, callerVars
  <2> QED
      BY <1>0, <2>1, HeldStill
<1> QED
    BY <1>1, <1>2, <1>3

\* submit_read takes the slot that start() checked out or that was in hand.
LEMMA HeldSubmit ==
    ASSUME NativeInv, SubmitReserved \/ ResubmitReserved \/ SubmitRefused
    PROVE  Held'
<1>0. /\ Held /\ NativeTypeOK /\ EngineTypeOK
      /\ inFlight \in [Slots -> BOOLEAN] /\ thread \in [Threads -> ThreadState]
      /\ "caller" \in Threads
    BY DEF NativeInv, NativeStreamTypeOK, NativeTypeOK, Threads
<1>1. CASE SubmitReserved \/ ResubmitReserved
  <2>1. PICK i \in Slots :
              /\ ReserveRead(i)
              /\ \/ ~slots[i].in_use /\ current = None
                 \/ current # None /\ current.slot = i
              /\ slots'[i].in_use
              /\ \A j \in Slots \ {i} : slots'[j] = slots[j]
              /\ current' = None
              /\ UNCHANGED completionQueue
      BY <1>1, SubmittedSequence
  <2>2. /\ ~cancelRequested /\ inFlight' = [inFlight EXCEPT ![i] = TRUE]
        /\ thread["caller"].at = "free"
        /\ thread' = [thread EXCEPT !["caller"] = [Idle EXCEPT !.at = "issuing", !.slot = i]]
      BY <2>1 DEF ReserveRead, CanReserve, CallerFree
  <2>3. \A t \in Threads, j \in Slots : SettledBy(t, j)' => SettledBy(t, j)
      BY <1>0, <2>2 DEF SettledBy, Idle
  <2>4. /\ ~WaitsIn(completionQueue, i)
        /\ \A t \in Threads : ~SettledBy(t, i)
        /\ \A j \in Slots : ~SlotInHand(j)'
      BY <1>0, <2>1, <2>2 DEF Held, SlotInHand
  <2>5. \A j \in Slots : /\ inFlight'[j] => inFlight[j] \/ j = i
                         /\ slots[j].in_use => slots'[j].in_use
      BY <1>0, <2>1, <2>2
  <2> QED
      BY <1>0, <2>1, <2>2, <2>3, <2>4, <2>5 DEF Held
<1>2. CASE SubmitRefused
  <2>1. UNCHANGED <<inFlight, thread, cancelRequested, completionQueue>>
      BY <1>2 DEF SubmitRefused, nativeVars, StartSlot, Recycle
  <2>2. \A j \in Slots : slots[j].in_use => slots'[j].in_use
    <3>1. CASE StartSlot(FALSE)
      <4>1. cursor \in Slots
          BY <1>0, <3>1 DEF StartSlot, EngineTypeOK
      <4>2. slots' = [Checkout(slots, cursor) EXCEPT ![cursor].sequence = nextSequence]
          BY <3>1 DEF StartSlot, SubmitSlot
      <4> QED
          BY <1>0, <4>1, <4>2 DEF Checkout, EngineTypeOK, RawFrameSlot
    <3>2. CASE Recycle(FALSE)
      <4> DEFINE i == current.slot
      <4>1. i \in Slots
          BY <1>0, <3>2, BufferPoolAssumption DEF Recycle, EngineTypeOK, RawFrameResult
      <4>2. slots' = [Checkout(Release(slots, i), i) EXCEPT ![i].sequence = nextSequence]
          BY <3>2 DEF Recycle, SubmitSlot
      <4> HIDE DEF i
      <4> QED
          BY <1>0, <4>1, <4>2 DEF Checkout, Release, FreeSlot, EngineTypeOK, RawFrameSlot
    <3> QED
        BY <1>2, <3>1, <3>2 DEF SubmitRefused
  <2>3. /\ DistinctSlots(completionQueue')
        /\ \A j \in Slots : SlotInHand(j)' => SlotInHand(j)
        /\ \A t \in Threads, j \in Slots : SettledBy(t, j)' <=> SettledBy(t, j)
      BY <1>0, <1>2, <2>1 DEF Held, SlotInHand, SettledBy, SubmitRefused, StartSlot, Recycle
  <2> QED
      BY <1>0, <2>1, <2>2, <2>3, HeldFrame
<1> QED
    BY <1>1, <1>2

\* _settle_slot takes the slot from the driver to the thread, and the thread gives it to
\* the completion queue or, after cancel_all(), drops it.
LEMMA HeldSettle ==
    ASSUME NativeInv, NEW t \in Threads, SettleStep(t)
    PROVE  Held'
<1> DEFINE i == thread[t].slot
<1>0. /\ Held /\ thread \in [Threads -> ThreadState] /\ inFlight \in [Slots -> BOOLEAN]
      /\ completionQueue \in Seq(RawFrameResult)
    BY DEF NativeInv, NativeStreamTypeOK, NativeTypeOK, EngineTypeOK
<1>1. CASE Claims(t)
  <2>1. /\ thread[t].at = "settling"
        /\ inFlight' = [inFlight EXCEPT ![i] = FALSE]
        /\ UNCHANGED <<completionQueue, current, slots, cancelRequested>>
        /\ \/ inFlight[i] /\ thread' = [thread EXCEPT ![t] = [@ EXCEPT !.at = "claimed"]]
           \/ thread' = [thread EXCEPT ![t] = Idle]
      BY <1>1 DEF Claims, Claim, engineVars, poolVars, callerVars, flagVars
  <2>2. i \in Slots
      BY <2>1, SettlingThread DEF InBackend
  <2>3. \A j \in Slots : inFlight'[j] => inFlight[j] /\ j # i
      BY <1>0, <2>1, <2>2
  <2>4. CASE thread' = [thread EXCEPT ![t] = Idle]
    <3>1. \A u \in Threads, j \in Slots : SettledBy(u, j)' => SettledBy(u, j)
        BY <1>0, <2>4 DEF SettledBy, Idle
    <3> QED
        BY <1>0, <2>1, <2>3, <3>1, HeldStill
  <2>5. CASE inFlight[i] /\ thread' = [thread EXCEPT ![t] = [@ EXCEPT !.at = "claimed"]]
    <3>1. \A u \in Threads, j \in Slots :
              SettledBy(u, j)' => SettledBy(u, j) \/ (u = t /\ j = i)
        BY <1>0, <2>5 DEF SettledBy, ThreadState
    <3>2. /\ slots[i].in_use /\ ~WaitsIn(completionQueue, i) /\ ~SlotInHand(i)
          /\ \A u \in Threads : ~SettledBy(u, i)
        BY <1>0, <2>2, <2>5 DEF Held
    <3>3. /\ \A j \in Slots : SlotInHand(j)' <=> SlotInHand(j)
          /\ DistinctSlots(completionQueue')
        BY <1>0, <2>1 DEF SlotInHand, Held
    <3> HIDE DEF i
    <3> QED
        BY <1>0, <2>1, <2>3, <3>1, <3>2, <3>3 DEF Held
  <2> QED
      BY <2>1, <2>4, <2>5
<1>2. CASE GoesOn(t) \/ Copies(t) \/ Returns(t)
  <2>1. /\ UNCHANGED <<inFlight, completionQueue, current, slots, cancelRequested>>
        /\ \/ thread' = [thread EXCEPT ![t] = Idle]
           \/ /\ thread[t].at \in {"claimed", "copying"}
              /\ \E at \in Points : thread' = [thread EXCEPT ![t] = [@ EXCEPT !.at = at]]
    <3>1. CASE GoesOn(t)
        BY <3>1 DEF GoesOn, CheckCancelled, engineVars, poolVars, callerVars, flagVars, Points
    <3>2. CASE Copies(t)
        BY <3>2 DEF Copies, EndCompletion, poolVars, callerVars, flagVars, Points
    <3>3. CASE Returns(t)
        BY <3>3 DEF Returns, ReturnFromSettle, CountCompleted, poolVars, callerVars, flagVars
    <3> QED
        BY <1>2, <3>1, <3>2, <3>3
  <2>2. \A u \in Threads, j \in Slots : SettledBy(u, j)' => SettledBy(u, j)
      BY <1>0, <2>1 DEF SettledBy, Idle, ThreadState
  <2> QED
      BY <1>0, <2>1, <2>2, HeldStill
<1>3. CASE Posts(t)
  <2>1. PICK r \in RawFrameResult :
           /\ r.slot = i /\ completionQueue' = Append(completionQueue, r)
      BY <1>3, CallbackPosts
  <2>2. /\ i \in Slots /\ thread[t].at = "posting"
        /\ thread' = [thread EXCEPT ![t].at = "returning"]
        /\ UNCHANGED <<slots, current, inFlight, cancelRequested>>
      BY <1>3, CallbackPosts
  <2>3. SettledBy(t, i)
      BY <2>2 DEF SettledBy
  <2>4. /\ \A u \in Threads, j \in Slots : SettledBy(u, j)' => SettledBy(u, j) /\ u # t
        /\ \A j \in Slots : SlotInHand(j)' <=> SlotInHand(j)
      BY <1>0, <2>2 DEF SettledBy, ThreadState, SlotInHand
  <2>5. ~WaitsIn(completionQueue, i) /\ DistinctSlots(completionQueue)
      BY <1>0, <2>2, <2>3 DEF Held
  <2>6. /\ DistinctSlots(completionQueue')
        /\ \A j : WaitsIn(completionQueue', j) <=> WaitsIn(completionQueue, j) \/ j = i
      BY <1>0, <2>1, <2>5, WaitingAfterPost
  <2> HIDE DEF i
  <2> QED
      BY <1>0, <2>2, <2>3, <2>4, <2>6 DEF Held
<1> QED
    BY <1>1, <1>2, <1>3 DEF SettleStep

\* Every step keeps each slot in at most one hand.
LEMMA HeldNext ==
    ASSUME NativeInv, [NativeStreamNext]_nativeStreamVars
    PROVE  Held'
<1>0. /\ Held /\ Stopped /\ thread \in [Threads -> ThreadState]
      /\ inFlight \in [Slots -> BOOLEAN] /\ "caller" \in Threads /\ "pump" \in Threads
    BY DEF NativeInv, NativeStreamTypeOK, NativeTypeOK, Threads
<1>1. CASE StopReleases \/ StopReleaseRaises
  <2>1. /\ UNCHANGED <<completionQueue, current, inFlight>> /\ cancelRequested'
        /\ ~AnyInFlight
        /\ \/ thread' = thread
           \/ thread' = [thread EXCEPT !["caller"].at = "joining"]
      BY <1>0, <1>1 DEF StopReleases, StopReleaseRaises, StopRelease, BeginRelease,
                        ReleaseAgain, BeginReleaseRaises, nativeVars, Stopped
  <2>2. \A t \in Threads, i \in Slots : SettledBy(t, i)' => SettledBy(t, i)
      BY <1>0, <2>1 DEF SettledBy, ThreadState
  <2>3. /\ \A i \in Slots : ~inFlight'[i] /\ (SlotInHand(i)' <=> SlotInHand(i))
        /\ DistinctSlots(completionQueue')
      BY <1>0, <2>1 DEF AnyInFlight, SlotInHand, Held
  <2> QED
      BY <1>0, <2>1, <2>2, <2>3 DEF Held
<1>2. CASE \/ StopCancels \/ StopDrains \/ StopCancelRaises \/ StopDrainTimesOut
           \/ DeviceFinishes \/ UNCHANGED nativeStreamVars
  <2>1. /\ UNCHANGED <<slots, completionQueue, current, inFlight, thread>>
        /\ cancelRequested => cancelRequested'
      BY <1>2 DEF StopCancels, StopDrains, StopCancelRaises, StopDrainTimesOut, StopStep,
                  CancelNative, CancelNativeRaises, nativeVars, poolVars, DeviceFinishes,
                  ReadFinishes, engineVars, callerVars, flagVars, nativeStreamVars
  <2> QED
      BY <1>0, <2>1, HeldStill DEF SettledBy
<1>3. CASE IssueRead \/ StopJoins \/ PumpAlone
  <2>1. /\ UNCHANGED <<slots, completionQueue, current, inFlight, cancelRequested>>
        /\ \/ thread' = thread
           \/ \E t \in Threads : thread' = [thread EXCEPT ![t] = Idle]
           \/ \E outcome \in Outcomes :
                 thread' = [thread EXCEPT !["caller"].at = "settling",
                                          !["caller"].outcome = outcome]
           \/ \E i \in Slots, outcome \in Outcomes :
                 thread' = [thread EXCEPT !["pump"] = [at |-> "settling", slot |-> i,
                                                       outcome |-> outcome]]
           \/ thread' = [thread EXCEPT !["pump"].at = "exited"]
    <3>1. CASE IssueRead
        BY <1>0, <3>1 DEF IssueRead, IssuePending, IssueAtOnce, engineVars, poolVars,
                          callerVars, flagVars
    <3>2. CASE StopJoins
        BY <1>0, <3>2 DEF StopJoins, JoinPump, ReleaseOverlappedRaises, engineVars, poolVars,
                          callerVars, flagVars
    <3>3. CASE PumpAlone
      <4>1. polls \subseteq Slots
          BY DEF NativeInv, NativeStreamTypeOK, NativeTypeOK
      <4> QED
          BY <3>3, <4>1, ReportsOutcomes DEF PumpAlone, BeginRound, Poll, PumpExits, engineVars, poolVars,
                            callerVars, flagVars
    <3> QED
        BY <1>3, <3>1, <3>2, <3>3
  <2>2. \A t \in Threads, i \in Slots : SettledBy(t, i)' => SettledBy(t, i)
      BY <1>0, <2>1 DEF SettledBy, ThreadState, Idle
  <2> QED
      BY <1>0, <2>1, <2>2, HeldStill
<1> QED
    BY <1>1, <1>2, <1>3, HeldCaller, HeldSubmit, HeldSettle
       DEF NativeStreamNext, CallerThread, PumpThread, ShutdownFails, Threads

\* The invariant behind the theorems of this module: types, where the threads are, who
\* has each slot and what a shutdown has reached.
THEOREM NativeInvariant == NativeStreamSpec => []NativeInv
<1>1. NativeInv /\ [NativeStreamNext]_nativeStreamVars => NativeInv'
    BY NativeTypeNext, PlacesNext, HeldNext, StoppedNext DEF NativeInv
<1> QED
    BY NativeInitially, <1>1, PTL DEF NativeStreamSpec

\* Every variable has its type, however the driver answers: in particular the sequence
\* number a read is issued with is one that _submit_slot gave its slot.
THEOREM NativeTypes == NativeStreamSpec => []NativeStreamTypeOK
<1>1. NativeInv => NativeStreamTypeOK
    BY DEF NativeInv
<1> QED
    BY <1>1, NativeInvariant, PTL

\* However the driver answers, each submission is settled by one thread and yields one
\* result at most, and the callback finds room for it.
THEOREM ReadsYieldOneResult == NativeStreamSpec => []OneResultPerRead
<1>1. ASSUME NativeInv
      PROVE  OneResultPerRead
  <2>1. \A t \in Threads : thread[t].at = "posting" => Len(completionQueue) < RawSlots
      BY <1>1, NativeRoom
  <2>2. \A i \in Slots : Settling(i) = {t \in Threads : SettledBy(t, i)}
      BY DEF Settling, SettledBy
  <2>3. \A i \in Slots : (SlotQueued(i) <=> WaitsIn(completionQueue, i))
      BY DEF SlotQueued, WaitsIn
  <2>4. ASSUME NEW i \in Slots
        PROVE  Cardinality(Settling(i)) <= 1
    <3>1. CASE Settling(i) = {}
        BY <3>1, FS_EmptySet
    <3>2. ASSUME NEW t \in Settling(i)
          PROVE  Cardinality(Settling(i)) <= 1
      <4>1. Settling(i) = {t}
          BY <1>1, <2>2, <3>2 DEF NativeInv, Held
      <4> QED
          BY <4>1, FS_Singleton
    <3> QED
        BY <3>1, <3>2
  <2>5. \A i \in Slots : SlotQueued(i) \/ SlotInHand(i) => ~inFlight[i] /\ Settling(i) = {}
      BY <1>1, <2>2, <2>3 DEF NativeInv, Held
  <2> QED
      BY <2>1, <2>4, <2>5 DEF OneResultPerRead
<1> QED
    BY <1>1, NativeInvariant, PTL

\* However often a shutdown fails half way, the engine holds the raw slot of every read
\* in flight.
THEOREM ReadsInFlightAreHeld == NativeStreamSpec => []InFlightIsHeld
<1>1. NativeInv => InFlightIsHeld
    BY DEF NativeInv, Held, InFlightIsHeld
<1> QED
    BY <1>1, NativeInvariant, PTL

--------------------------------------------------------------------------------
(* The handle                                                               *)

\* Once the backend is released no read waits at the device, and once the handle is
\* closed the pump has ended.
Closing ==
    /\ nativeReleased => pipe = <<>>
    /\ handleClosed => thread["pump"].at = "exited"

\* A step that leaves the handle alone, after which the device has no read it had not
\* before, and in which a pump that ended stays so.
LEMMA ClosingFrame ==
    ASSUME Closing, UNCHANGED <<nativeReleased, handleClosed>>,
           pipe = <<>> => pipe' = <<>>,
           thread["pump"].at = "exited" => thread'["pump"].at = "exited"
    PROVE  Closing'
BY DEF Closing

\* When the calls of release() succeed, every step keeps that.
LEMMA ClosingNext ==
    ASSUME ~NativeCallsFail, NativeInv, Closing, [NativeStreamNext]_nativeStreamVars
    PROVE  Closing'
<1>0. /\ thread \in [Threads -> ThreadState] /\ "caller" \in Threads /\ "pump" \in Threads
      /\ \A t \in Threads : t = "caller" \/ t = "pump"
    BY DEF NativeInv, NativeStreamTypeOK, NativeTypeOK, Threads
<1>1. CASE EngineAlone \/ SubmitRefused \/ StopDrains \/ UNCHANGED nativeStreamVars
  <2>1. UNCHANGED <<nativeReleased, handleClosed, pipe, thread>>
      BY <1>1 DEF EngineAlone, SubmitRefused, StopDrains, nativeStreamVars, nativeVars
  <2> QED
      BY <2>1, ClosingFrame
<1>2. CASE SubmitReserved \/ ResubmitReserved
  <2>1. PICK i \in Slots : ReserveRead(i)
      BY <1>2, SubmittedSequence
  <2>2. /\ UNCHANGED <<nativeReleased, handleClosed, pipe>>
        /\ thread' = [thread EXCEPT !["caller"] = [Idle EXCEPT !.at = "issuing", !.slot = i]]
      BY <2>1 DEF ReserveRead, flagVars
  <2>3. thread'["pump"] = thread["pump"]
      BY <1>0, <2>2
  <2> QED
      BY <2>2, <2>3, ClosingFrame
<1>3. CASE IssueRead
  <2>1. /\ thread["caller"].at = "issuing" /\ UNCHANGED <<nativeReleased, handleClosed>>
        /\ thread'["pump"] = thread["pump"]
      BY <1>0, <1>3 DEF IssueRead, IssuePending, IssueAtOnce, flagVars
  <2>2. ~nativeReleased
      BY <2>1 DEF NativeInv, Stopped
  <2> QED
      BY <2>1, <2>2 DEF Closing
<1>4. ASSUME NEW t \in Threads, SettleStep(t)
      PROVE  Closing'
  <2>1. /\ UNCHANGED <<nativeReleased, handleClosed>>
        /\ pipe' = <<>> \/ pipe' = pipe
        /\ thread[t].at # "exited"
        /\ \A u \in Threads \ {t} : thread'[u] = thread[u]
    <3>1. CASE Claims(t)
        BY <1>0, <3>1 DEF Claims, Claim, flagVars
    <3>2. CASE Copies(t)
        BY <1>0, <3>2 DEF Copies, EndCompletion, Abort, flagVars
    <3>3. CASE Posts(t)
        BY <1>0, <3>3 DEF Posts, PostCompletion, flagVars
    <3>4. CASE Returns(t)
        BY <1>0, <3>4 DEF Returns, ReturnFromSettle, flagVars
    <3>5. CASE GoesOn(t)
        BY <1>0, <3>5 DEF GoesOn, CheckCancelled, flagVars
    <3> QED
        BY <1>4, <3>1, <3>2, <3>3, <3>4, <3>5 DEF SettleStep
  <2>2. thread["pump"].at = "exited" => thread'["pump"].at = "exited"
      BY <1>0, <2>1
  <2> QED
      BY <2>1, <2>2, ClosingFrame
<1>5. CASE StopCancels \/ ShutdownFails
  <2>1. UNCHANGED <<nativeReleased, handleClosed, thread>> /\ pipe' = <<>>
      BY <1>5 DEF StopCancels, CancelNative, Abort, ShutdownFails, StopCancelRaises,
                  CancelNativeRaises, StopDrainTimesOut, NativeDrainTimesOut,
                  StopReleaseRaises, BeginReleaseRaises
  <2> QED
      BY <2>1, ClosingFrame
<1>6. CASE StopReleases
  <2>1. CASE BeginRelease
    <3>1. /\ pipe' = <<>> /\ handleClosed' = handleClosed
          /\ thread' = [thread EXCEPT !["caller"].at = "joining"]
        BY <2>1 DEF BeginRelease, Abort
    <3>2. thread'["pump"] = thread["pump"]
        BY <1>0, <3>1
    <3> QED
        BY <3>1, <3>2 DEF Closing
  <2>2. CASE ReleaseAgain
      BY <2>2, ClosingFrame DEF ReleaseAgain, nativeVars
  <2> QED
      BY <1>6, <2>1, <2>2 DEF StopReleases
<1>7. CASE StopJoins
  <2>1. /\ thread["pump"].at = "exited" /\ UNCHANGED <<pipe, nativeReleased>>
        /\ thread' = [thread EXCEPT !["caller"] = Idle]
      BY <1>7 DEF StopJoins, JoinPump, ReleaseOverlappedRaises
  <2>2. thread'["pump"] = thread["pump"]
      BY <1>0, <2>1
  <2> QED
      BY <2>1, <2>2 DEF Closing
<1>8. CASE PumpAlone
  <2>1. /\ UNCHANGED <<nativeReleased, handleClosed, pipe>>
        /\ thread["pump"].at = "free" \/ thread' = thread
      BY <1>8 DEF PumpAlone, BeginRound, Poll, PumpExits, flagVars
  <2> QED
      BY <2>1, ClosingFrame
<1>9. CASE DeviceFinishes
  <2>1. UNCHANGED <<nativeReleased, handleClosed, thread>> /\ pipe # <<>>
      BY <1>9 DEF DeviceFinishes, ReadFinishes, flagVars
  <2> QED
      BY <2>1, ClosingFrame
<1> QED
    BY <1>0, <1>1, <1>2, <1>3, <1>4, <1>5, <1>6, <1>7, <1>8, <1>9
       DEF NativeStreamNext, CallerThread, PumpThread

\* When the calls of release() succeed, the handle is closed only after the pump has
\* ended, no thread is in the backend and no read is pending at the device.
THEOREM HandleClosedAfterPump ==
    ASSUME ~NativeCallsFail
    PROVE  NativeStreamSpec => []ClosedAfterPump
<1>1. NativeStreamInit => Closing
    BY DEF NativeStreamInit, NativeInit, Closing
<1>2. NativeInv /\ Closing /\ [NativeStreamNext]_nativeStreamVars => Closing'
    BY ClosingNext
<1>3. NativeInv /\ Closing => ClosedAfterPump
    BY DEF NativeInv, Stopped, Closing, ClosedAfterPump
<1> QED
    BY NativeInvariant, <1>1, <1>2, <1>3, PTL DEF NativeStreamSpec

--------------------------------------------------------------------------------
(* The bytes, however the driver answers                                    *)

Older(bytes, sequence) == bytes # None => bytes <= sequence

OlderFrames == {frame \in Frame : Older(frame.data, frame.sequence)}

\* Every number that is somewhere was given out, a slot in use has one, and bytes that
\* belong to a numbered slot, a result or a frame are of no later read.
BytesInv ==
    /\ \A i \in Slots :
          /\ slots[i].in_use => slots[i].sequence \in Nat
          /\ slots[i].sequence \in Nat =>
                /\ slots[i].sequence < nextSequence
                /\ Older(nativeBytes[i], slots[i].sequence)
                /\ Older(buffer[i], slots[i].sequence)
          /\ nativeBytes[i] # None => nativeBytes[i] < nextSequence
          /\ buffer[i] # None => buffer[i] < nextSequence
    /\ \A read \in Range(pipe) :
          /\ read.sequence < nextSequence
          /\ slots[read.slot].sequence \in Nat => read.sequence <= slots[read.slot].sequence
    /\ \A r \in Range(completionQueue) : Older(buffer[r.slot], r.sequence)
    /\ pc = "decoding" => Older(buffer[current.slot], current.sequence)
    /\ outputQueue \in Seq(OlderFrames)

\* Until the stream is cancelled.
Streams == NativeInv /\ BytesInv /\ ~cancelRequested

\* Initially there are no bytes, numbers or results.
LEMMA BytesInitially == NativeStreamInit => BytesInv
<1> SUFFICES ASSUME NativeStreamInit PROVE BytesInv
    OBVIOUS
<1>1. Range(<<>>) = {}
    BY DEF Range
<1>2. \A i \in Slots : /\ slots[i] = FreeSlot /\ nativeBytes[i] = None /\ buffer[i] = None
                       /\ ~slots[i].in_use /\ slots[i].sequence \notin Nat
    BY BufferPoolAssumption
       DEF NativeStreamInit, NativeInit, EngineInit, EmptyPool, FreeSlot
<1>3. /\ pipe = <<>> /\ completionQueue = <<>> /\ outputQueue = <<>> /\ pc = "idle"
      /\ outputQueue \in Seq(OlderFrames)
    BY DEF NativeStreamInit, NativeInit, EngineInit
<1> QED
    BY <1>1, <1>2, <1>3 DEF BytesInv

\* The types of what the bytes are compared with.
LEMMA BytesTypes ==
    ASSUME NativeInv
    PROVE  /\ slots \in [Slots -> RawFrameSlot] /\ nextSequence \in Nat
           /\ buffer \in [Slots -> Nat \cup {None}]
           /\ nativeBytes \in [Slots -> Nat \cup {None}]
           /\ pipe \in Seq([slot : Slots, sequence : Nat])
           /\ completionQueue \in Seq(RawFrameResult)
           /\ \A read \in Range(pipe) : read.slot \in Slots /\ read.sequence \in Nat
           /\ \A r \in Range(completionQueue) : r.slot \in Slots /\ r.sequence \in Nat
           /\ current # None => current.slot \in Slots /\ current.sequence \in Nat
           /\ pc \in {"decoding", "recycling"} <=> current # None
           /\ None \notin Nat
<1>1. EngineTypeOK /\ NativeTypeOK
    BY DEF NativeInv, NativeStreamTypeOK
<1>2. \A read \in Range(pipe) : read.slot \in Slots /\ read.sequence \in Nat
  <2>1. \A read \in Range(pipe) : read \in [slot : Slots, sequence : Nat]
      BY <1>1, RangeOfSeq DEF NativeTypeOK
  <2> QED
      BY <2>1
<1>3. \A r \in Range(completionQueue) : r.slot \in Slots /\ r.sequence \in Nat
  <2>1. \A r \in Range(completionQueue) : r \in RawFrameResult
      BY <1>1, RangeOfSeq DEF EngineTypeOK
  <2> QED
      BY <2>1 DEF RawFrameResult
<1> QED
    BY <1>1, <1>2, <1>3, BufferPoolAssumption DEF EngineTypeOK, NativeTypeOK, RawFrameResult

\* A step that moves reads and results on, and touches no bytes and no numbers.
LEMMA BytesFrame ==
    ASSUME BytesInv, UNCHANGED <<slots, nextSequence, nativeBytes, buffer>>,
           \A read \in Range(pipe') : read \in Range(pipe),
           \A r \in Range(completionQueue') : r \in Range(completionQueue),
           pc' = "decoding" => \/ pc = "decoding" /\ current' = current
                               \/ current' \in Range(completionQueue),
           outputQueue' \in Seq(OlderFrames)
    PROVE  BytesInv'
BY DEF BytesInv

\* Taking the oldest element leaves the others.
LEMMA Remaining ==
    ASSUME NEW S, NEW q \in Seq(S), q # <<>>
    PROVE  Head(q) \in Range(q) /\ \A e \in Range(Tail(q)) : e \in Range(q)
BY TakenSlots DEF Range

\* The caller takes results, turns them into frames and gives slots back.
LEMMA BytesCaller ==
    ASSUME Streams, EngineAlone
    PROVE  BytesInv'
<1>0. /\ NativeInv /\ BytesInv /\ EngineTypeOK /\ CallerStep /\ UNCHANGED <<pipe, nativeBytes>>
      /\ completionQueue \in Seq(RawFrameResult) /\ outputQueue \in Seq(OlderFrames)
    BY DEF Streams, NativeInv, NativeStreamTypeOK, EngineAlone, nativeVars, EngineTypeOK,
           BytesInv
<1>1. CASE TakeResult
  <2>1. /\ completionQueue # <<>> /\ current' = Head(completionQueue)
        /\ completionQueue' = Tail(completionQueue)
        /\ UNCHANGED <<slots, nextSequence, buffer, outputQueue>>
      BY <1>1 DEF TakeResult, poolVars
  <2>2. /\ current' \in Range(completionQueue)
        /\ \A r \in Range(completionQueue') : r \in Range(completionQueue)
      BY <1>0, <2>1, Remaining
  <2> QED
      BY <1>0, <2>1, <2>2, BytesFrame
<1>2. CASE DecodeFrame
  <2> DEFINE frame == [sequence |-> current.sequence, data |-> buffer[current.slot]]
  <2>1. /\ pc = "decoding" /\ pc' = "recycling"
        /\ outputQueue' = PutFrame(outputQueue, frame)
        /\ UNCHANGED <<slots, nextSequence, buffer, completionQueue>>
      BY <1>2 DEF DecodeFrame, InHand, poolVars
  <2>2. frame \in OlderFrames
      BY <1>0, <2>1, BytesTypes DEF BytesInv, OlderFrames, Frame
  <2> HIDE DEF frame
  <2>3. outputQueue' \in Seq(OlderFrames)
      BY <1>0, <2>1, <2>2, PutFrameType
  <2> QED
      BY <1>0, <2>1, <2>3, BytesFrame
<1>3. CASE RecycleStopped
  <2>1. /\ current.slot \in Slots /\ pc' = "idle"
        /\ slots' = [slots EXCEPT ![current.slot] = FreeSlot]
        /\ UNCHANGED <<nextSequence, buffer, completionQueue, outputQueue>>
      BY <1>0, <1>3, BytesTypes DEF RecycleStopped, Release
  <2>2. \A i \in Slots : slots'[i] = slots[i] \/ slots'[i] = FreeSlot
      BY <1>0, <2>1, BytesTypes
  <2>3. ~FreeSlot.in_use /\ FreeSlot.sequence \notin Nat
      BY <1>0, BytesTypes DEF FreeSlot
  <2> QED
      BY <1>0, <2>1, <2>2, <2>3, BytesTypes DEF BytesInv
<1>4. CASE TakeFrame
  <2>1. /\ outputQueue # <<>> /\ outputQueue' = Tail(outputQueue)
        /\ UNCHANGED <<slots, nextSequence, buffer, completionQueue, pc, current>>
      BY <1>4 DEF TakeFrame, poolVars, callerVars
  <2>2. outputQueue' \in Seq(OlderFrames)
      BY <1>0, <2>1, HeadTailProperties
  <2> QED
      BY <1>0, <2>1, <2>2, BytesFrame
<1>5. CASE ~TakeResult /\ ~DecodeFrame /\ ~RecycleStopped /\ ~TakeFrame
  <2>1. /\ UNCHANGED <<slots, nextSequence, buffer, completionQueue, outputQueue, current>>
        /\ pc' = pc \/ pc' # "decoding"
      BY <1>0, <1>5
         DEF CallerStep, Start, StartSlotInUse, CountSubmitted, UsbError, ShortRead,
             DecodeFails, DecoderRaises, Discard, Stop, StartAgain, StopAgain, engineVars,
             poolVars, callerVars
  <2> QED
      BY <1>0, <2>1, BytesFrame
<1> QED
    BY <1>1, <1>2, <1>3, <1>4, <1>5

\* A slot that is submitted, or whose submission is refused, gets a number above all
\* that its bytes and its old reads can have.
LEMMA BytesSubmit ==
    ASSUME Streams, SubmitReserved \/ ResubmitReserved \/ SubmitRefused
    PROVE  BytesInv'
<1>0. NativeInv /\ BytesInv
    BY DEF Streams
<1>1. \E accepted \in BOOLEAN : StartSlot(accepted) \/ Recycle(accepted)
    BY DEF SubmitReserved, ResubmitReserved, SubmitRefused
<1>2. PICK i \in Slots :
              /\ slots'[i].sequence = nextSequence
              /\ \A j \in Slots \ {i} : slots'[j] = slots[j]
  <2>1. CASE \E accepted \in BOOLEAN : StartSlot(accepted)
    <3>1. /\ cursor \in Slots
          /\ slots' = [Checkout(slots, cursor) EXCEPT ![cursor].sequence = nextSequence]
        BY <1>0, <2>1
           DEF NativeInv, NativeStreamTypeOK, EngineTypeOK, StartSlot, SubmitSlot
    <3> QED
        BY <1>0, <3>1, BytesTypes DEF Checkout, RawFrameSlot
  <2>2. CASE \E accepted \in BOOLEAN : Recycle(accepted)
    <3> DEFINE j == current.slot
    <3>1. /\ j \in Slots
          /\ slots' = [Checkout(Release(slots, j), j) EXCEPT ![j].sequence = nextSequence]
        BY <1>0, <2>2, BytesTypes DEF Recycle, SubmitSlot
    <3> HIDE DEF j
    <3> QED
        BY <1>0, <3>1, BytesTypes DEF Checkout, Release, FreeSlot, RawFrameSlot
  <2> QED
      BY <1>1, <2>1, <2>2
<1>3. /\ nextSequence' = nextSequence + 1 /\ pc' # "decoding"
      /\ UNCHANGED <<completionQueue, outputQueue, buffer, pipe, nativeBytes>>
  <2>1. /\ nextSequence' = nextSequence + 1 /\ pc' # "decoding"
        /\ UNCHANGED <<completionQueue, outputQueue, buffer>>
      BY <1>1 DEF StartSlot, Recycle, SubmitSlot
  <2>2. UNCHANGED <<pipe, nativeBytes>>
      BY DEF SubmitReserved, ResubmitReserved, SubmitRefused, ReserveRead, nativeVars
  <2> QED
      BY <2>1, <2>2
<1>4. \A j \in Slots :
          /\ slots'[j].in_use => slots'[j].sequence \in Nat
          /\ slots'[j].sequence \in Nat =>
                /\ slots'[j].sequence < nextSequence'
                /\ Older(nativeBytes'[j], slots'[j].sequence)
                /\ Older(buffer'[j], slots'[j].sequence)
          /\ nativeBytes'[j] # None => nativeBytes'[j] < nextSequence'
          /\ buffer'[j] # None => buffer'[j] < nextSequence'
  <2> SUFFICES ASSUME NEW j \in Slots
               PROVE  /\ slots'[j].in_use => slots'[j].sequence \in Nat
                      /\ slots'[j].sequence \in Nat =>
                            /\ slots'[j].sequence < nextSequence'
                            /\ Older(nativeBytes'[j], slots'[j].sequence)
                            /\ Older(buffer'[j], slots'[j].sequence)
                      /\ nativeBytes'[j] # None => nativeBytes'[j] < nextSequence'
                      /\ buffer'[j] # None => buffer'[j] < nextSequence'
      OBVIOUS
  <2>1. /\ nextSequence \in Nat
        /\ nativeBytes[j] \in Nat \cup {None} /\ buffer[j] \in Nat \cup {None}
      BY <1>0, BytesTypes
  <2>2. /\ slots[j].in_use => slots[j].sequence \in Nat
        /\ slots[j].sequence \in Nat =>
              /\ slots[j].sequence < nextSequence
              /\ Older(nativeBytes[j], slots[j].sequence)
              /\ Older(buffer[j], slots[j].sequence)
        /\ nativeBytes[j] # None => nativeBytes[j] < nextSequence
        /\ buffer[j] # None => buffer[j] < nextSequence
      BY <1>0 DEF BytesInv
  <2>3. CASE j = i
      BY <1>2, <1>3, <2>1, <2>2, <2>3 DEF Older
  <2>4. CASE j # i
      BY <1>2, <1>3, <2>1, <2>2, <2>4
  <2> QED
      BY <2>3, <2>4
<1>5. \A read \in Range(pipe) :
          /\ read.sequence < nextSequence'
          /\ slots'[read.slot].sequence \in Nat => read.sequence <= slots'[read.slot].sequence
  <2> SUFFICES ASSUME NEW read \in Range(pipe)
               PROVE  /\ read.sequence < nextSequence'
                      /\ slots'[read.slot].sequence \in Nat =>
                            read.sequence <= slots'[read.slot].sequence
      OBVIOUS
  <2>1. /\ read.slot \in Slots /\ read.sequence \in Nat /\ nextSequence \in Nat
        /\ read.sequence < nextSequence
        /\ slots[read.slot].sequence \in Nat => read.sequence <= slots[read.slot].sequence
      BY <1>0, BytesTypes DEF BytesInv
  <2>2. CASE read.slot = i
      BY <1>2, <1>3, <2>1, <2>2
  <2>3. CASE read.slot # i
      BY <1>2, <1>3, <2>1, <2>3
  <2> QED
      BY <2>2, <2>3
<1> QED
    BY <1>0, <1>3, <1>4, <1>5 DEF BytesInv

\* A read is issued with the number of its slot, and its bytes with it if it ends at once.
LEMMA BytesIssue ==
    ASSUME Streams, IssueRead
    PROVE  BytesInv'
<1> DEFINE i == thread["caller"].slot
           read == [slot |-> i, sequence |-> slots[i].sequence]
<1>0. /\ NativeInv /\ BytesInv /\ thread["caller"].at = "issuing"
      /\ UNCHANGED <<slots, nextSequence, buffer, completionQueue, outputQueue, pc, current>>
    BY DEF Streams, IssueRead, IssuePending, IssueAtOnce, engineVars, poolVars, callerVars
<1>1. i \in Slots /\ slots[i].sequence \in Nat
    BY <1>0 DEF NativeInv, Places, InBackend, Threads
<1>2. CASE IssuePending(slots[i].sequence)
  <2>1. pipe' = Append(pipe, read) /\ nativeBytes' = nativeBytes
      BY <1>2 DEF IssuePending
  <2>2. /\ read \in [slot : Slots, sequence : Nat]
        /\ read.slot = i /\ read.sequence = slots[i].sequence
      BY <1>1
  <2> HIDE DEF read, i
  <2>3. \A e \in Range(pipe') : e \in Range(pipe) \/ e = read
    <3> DEFINE Reads == [slot : Slots, sequence : Nat]
    <3>1. pipe \in Seq(Reads) /\ read \in Reads
        BY <1>0, <2>2, BytesTypes
    <3> HIDE DEF Reads
    <3>2. \A e : e \in Range(Append(pipe, read)) <=> e \in Range(pipe) \/ e = read
        BY ONLY <3>1, ElementsAfterPost
    <3> QED
        BY <2>1, <3>2
  <2> QED
      BY <1>0, <1>1, <2>1, <2>2, <2>3, BytesTypes DEF BytesInv
<1>3. ASSUME NEW outcome \in Outcomes, IssueAtOnce(slots[i].sequence, outcome)
      PROVE  BytesInv'
  <2>1. pipe' = pipe /\ Received(i, outcome, slots[i].sequence)
      BY <1>3 DEF IssueAtOnce
  <2> HIDE DEF i
  <2>2. \A j \in Slots : \/ nativeBytes'[j] = nativeBytes[j]
                         \/ j = i /\ nativeBytes'[j] = slots[i].sequence
      BY <1>0, <1>1, <2>1, BytesTypes DEF Received
  <2>3. \A j \in Slots :
            /\ nativeBytes'[j] # None => nativeBytes'[j] < nextSequence
            /\ slots[j].sequence \in Nat => Older(nativeBytes'[j], slots[j].sequence)
    <3> SUFFICES ASSUME NEW j \in Slots
                 PROVE  /\ nativeBytes'[j] # None => nativeBytes'[j] < nextSequence
                        /\ slots[j].sequence \in Nat =>
                              Older(nativeBytes'[j], slots[j].sequence)
        OBVIOUS
    <3>1. slots[i].sequence < nextSequence
        BY <1>0, <1>1 DEF BytesInv
    <3>2. CASE nativeBytes'[j] = nativeBytes[j]
        BY <1>0, <3>2 DEF BytesInv
    <3>3. CASE j = i /\ nativeBytes'[j] = slots[i].sequence
        BY <1>1, <3>1, <3>3 DEF Older
    <3> QED
        BY <2>2, <3>2, <3>3
  <2> QED
      BY <1>0, <2>1, <2>3 DEF BytesInv
<1> QED
    BY <1>2, <1>3 DEF IssueRead

\* A read that ends at the device brings bytes that are no newer than its slot's number.
LEMMA BytesDevice ==
    ASSUME Streams, DeviceFinishes
    PROVE  BytesInv'
<1> DEFINE h == Head(pipe)
<1>0. /\ NativeInv /\ BytesInv /\ pipe # <<>> /\ pipe' = Tail(pipe)
      /\ UNCHANGED <<slots, nextSequence, buffer, completionQueue, outputQueue, pc, current>>
      /\ \E outcome \in Outcomes : Received(h.slot, outcome, h.sequence)
    BY DEF Streams, DeviceFinishes, ReadFinishes, engineVars, poolVars, callerVars
<1>1. h \in Range(pipe) /\ \A read \in Range(pipe') : read \in Range(pipe)
    BY <1>0, BytesTypes, Remaining
<1>2. h.slot \in Slots /\ h.sequence \in Nat
    BY <1>0, <1>1, BytesTypes
<1> HIDE DEF h
<1>3. \A j \in Slots : \/ nativeBytes'[j] = nativeBytes[j]
                       \/ j = h.slot /\ nativeBytes'[j] = h.sequence
    BY <1>0, <1>2, BytesTypes DEF Received
<1> QED
    BY <1>0, <1>1, <1>2, <1>3, BytesTypes DEF BytesInv, Older

\* A thread copies the bytes of a slot that is neither queued nor in hand, and posts a
\* result under the number of a slot that is in use.
LEMMA BytesSettle ==
    ASSUME Streams, NEW t \in Threads, SettleStep(t)
    PROVE  BytesInv'
<1> DEFINE i == thread[t].slot
<1>0. /\ NativeInv /\ Held /\ BytesInv /\ ~cancelRequested
      /\ outputQueue \in Seq(OlderFrames)
    BY DEF Streams, NativeInv, BytesInv
<1>1. CASE Claims(t) \/ GoesOn(t) \/ Returns(t)
  <2>1. UNCHANGED <<slots, nextSequence, nativeBytes, buffer, pipe, completionQueue,
                    outputQueue, pc, current>>
    <3>1. CASE Claims(t)
        BY <3>1 DEF Claims, Claim, engineVars, poolVars, callerVars
    <3>2. CASE GoesOn(t)
        BY <3>2 DEF GoesOn, CheckCancelled, engineVars, poolVars, callerVars
    <3>3. CASE Returns(t)
        BY <3>3 DEF Returns, ReturnFromSettle, CountCompleted, poolVars, callerVars
    <3> QED
        BY <1>1, <3>1, <3>2, <3>3
  <2> QED
      BY <1>0, <2>1, BytesFrame
<1>2. CASE Copies(t)
  <2>1. /\ thread[t].at = "copying" /\ nativeBytes' = nativeBytes
        /\ pipe' = pipe \/ pipe' = <<>>
        /\ buffer' = buffer \/ buffer' = [buffer EXCEPT ![i] = nativeBytes[i]]
        /\ UNCHANGED <<slots, nextSequence, completionQueue, outputQueue, pc, current>>
      BY <1>2 DEF Copies, EndCompletion, Abort, poolVars, callerVars
  <2>2. i \in Slots /\ SettledBy(t, i)
      BY <1>0, <2>1 DEF NativeInv, Places, InBackend, SettledBy
  <2> HIDE DEF i
  <2>3. ~WaitsIn(completionQueue, i) /\ ~SlotInHand(i)
      BY <1>0, <2>2 DEF Held
  <2>4. \A r \in Range(completionQueue) : r.slot # i
      BY <2>3 DEF WaitsIn, Range
  <2>5. pc = "decoding" => current.slot # i
      BY <1>0, <2>3, BytesTypes DEF SlotInHand
  <2>6. \A read \in Range(pipe') : read \in Range(pipe)
      BY <2>1 DEF Range
  <2>7. \A j \in Slots : /\ buffer'[j] = buffer[j] \/ buffer'[j] = nativeBytes[j]
                         /\ j # i => buffer'[j] = buffer[j]
      BY <1>0, <2>1, <2>2, BytesTypes
  <2> QED
      BY <1>0, <2>1, <2>4, <2>5, <2>6, <2>7, BytesTypes DEF BytesInv
<1>3. CASE Posts(t)
  <2>1. PICK r \in RawFrameResult :
           /\ r.slot = i
           /\ slots[i].sequence \in Nat => r.sequence = slots[i].sequence
           /\ completionQueue' = Append(completionQueue, r)
      BY <1>0, <1>3, CallbackPosts
  <2>2. /\ i \in Slots /\ thread[t].at = "posting"
        /\ UNCHANGED <<slots, nextSequence, nativeBytes, buffer, pipe, outputQueue, pc, current>>
      BY <1>0, <1>3, CallbackPosts
  <2>3. SettledBy(t, i)
      BY <2>2 DEF SettledBy
  <2> HIDE DEF i
  <2>4. slots[i].in_use
      BY <1>0, <2>2, <2>3 DEF Held
  <2>5. Older(buffer[r.slot], r.sequence)
      BY <1>0, <2>1, <2>2, <2>4 DEF BytesInv
  <2>6. \A e \in Range(completionQueue') : e \in Range(completionQueue) \/ e = r
      BY <1>0, <2>1, BytesTypes, ElementsAfterPost
  <2> QED
      BY <1>0, <2>2, <2>5, <2>6 DEF BytesInv
<1> QED
    BY <1>1, <1>2, <1>3 DEF SettleStep

\* The cancellation of a stream is final.
LEMMA CancelStays ==
    ASSUME [NativeStreamNext]_nativeStreamVars, cancelRequested
    PROVE  cancelRequested'
<1>1. ASSUME NEW t \in Threads, SettleStep(t)
      PROVE  cancelRequested'
    BY <1>1 DEF SettleStep, Claims, Claim, GoesOn, CheckCancelled, Copies, EndCompletion,
                Posts, PostCompletion, Returns, ReturnFromSettle, flagVars
<1>2. CASE EngineAlone \/ SubmitReserved \/ ResubmitReserved \/ SubmitRefused \/ IssueRead
    BY <1>2 DEF EngineAlone, SubmitReserved, ResubmitReserved, SubmitRefused, IssueRead,
                ReserveRead, IssuePending, IssueAtOnce, nativeVars, flagVars
<1>3. CASE StopCancels \/ StopDrains \/ StopReleases \/ StopJoins \/ ShutdownFails
    BY <1>3 DEF StopCancels, StopDrains, StopReleases, StopJoins, ShutdownFails,
                CancelNative, StopCancelRaises, CancelNativeRaises, StopDrainTimesOut,
                StopReleaseRaises, BeginReleaseRaises, BeginRelease, ReleaseAgain, JoinPump,
                ReleaseOverlappedRaises, nativeVars, flagVars
<1>4. CASE PumpAlone
    BY <1>4 DEF PumpAlone, BeginRound, Poll, PumpExits, flagVars
<1>5. CASE DeviceFinishes \/ UNCHANGED nativeStreamVars
    BY <1>5 DEF DeviceFinishes, ReadFinishes, flagVars, nativeStreamVars, nativeVars
<1> QED
    BY <1>1, <1>2, <1>3, <1>4, <1>5
       DEF NativeStreamNext, CallerThread, PumpThread, Threads

\* Every step until the stream is cancelled keeps the bytes no newer than their numbers;
\* stop() cancels first, so what release() frees comes after.
LEMMA BytesNext ==
    ASSUME Streams, [NativeStreamNext]_nativeStreamVars, ~cancelRequested'
    PROVE  BytesInv'
<1>0. /\ NativeInv /\ BytesInv /\ ~cancelRequested /\ Places /\ Stopped
      /\ outputQueue \in Seq(OlderFrames)
    BY DEF Streams, NativeInv, BytesInv
<1>1. CASE PumpAlone \/ UNCHANGED nativeStreamVars
  <2>1. UNCHANGED <<slots, nextSequence, nativeBytes, buffer, pipe, completionQueue,
                    outputQueue, pc, current>>
      BY <1>1 DEF PumpAlone, BeginRound, Poll, PumpExits, nativeStreamVars, nativeVars,
                  engineVars, poolVars, callerVars
  <2> QED
      BY <1>0, <2>1, BytesFrame
<1>2. ~(StopCancels \/ StopDrains \/ StopReleases \/ StopJoins \/ ShutdownFails)
  <2>1. pc \notin {"drain", "release"} /\ thread["caller"].at # "joining"
      BY <1>0 DEF Stopped, Places
  <2>2. ~StopCancels /\ ~StopCancelRaises
      BY DEF StopCancels, StopCancelRaises, CancelNative, CancelNativeRaises
  <2>3. ~StopDrains /\ ~StopDrainTimesOut /\ ~StopReleases /\ ~StopReleaseRaises
      BY <2>1 DEF StopDrains, StopDrainTimesOut, StopReleases, StopReleaseRaises, StopStep,
                  StopRelease
  <2>4. ~StopJoins
      BY <2>1 DEF StopJoins, JoinPump, ReleaseOverlappedRaises
  <2> QED
      BY <2>2, <2>3, <2>4 DEF ShutdownFails
<1> QED
    BY <1>1, <1>2, BytesCaller, BytesSubmit, BytesIssue, BytesDevice, BytesSettle
       DEF NativeStreamNext, CallerThread, PumpThread, Threads

\* However the driver answers, also at once and with results of old reads, a frame
\* decoded before the stream is cancelled shows no bytes of a read submitted after its
\* own.
THEOREM FramesShowNoNewerBytes == NativeStreamSpec => []NoNewerBytes
<1> DEFINE Bytes == ~cancelRequested => BytesInv
<1>1. NativeStreamInit => Bytes
    BY BytesInitially
<1>2. NativeInv /\ Bytes /\ [NativeStreamNext]_nativeStreamVars => Bytes'
  <2> SUFFICES ASSUME NativeInv, Bytes, [NativeStreamNext]_nativeStreamVars, ~cancelRequested'
               PROVE  BytesInv'
      OBVIOUS
  <2>1. ~cancelRequested
      BY CancelStays
  <2>2. Streams
      BY <2>1 DEF Streams
  <2> QED
      BY <2>2, BytesNext
<1>3. Bytes => NoNewerBytes
  <2> SUFFICES ASSUME BytesInv, NEW k \in DOMAIN outputQueue
               PROVE  Older(outputQueue[k].data, outputQueue[k].sequence)
      BY DEF NoNewerBytes, Older
  <2>1. outputQueue[k] \in OlderFrames
      BY ElementOfSeq, LenProperties DEF BytesInv
  <2> QED
      BY <2>1 DEF OlderFrames
<1> QED
    BY NativeInvariant, <1>1, <1>2, <1>3, PTL DEF NativeStreamSpec

================================================================================
