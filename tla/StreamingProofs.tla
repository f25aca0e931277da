---------------------------- MODULE StreamingProofs ----------------------------
(***************************************************************************)
(* Theorems about StreamingSystem, for every number of slots, capacity,    *)
(* drop policy and bound.                                                  *)
(***************************************************************************)
EXTENDS StreamingSystem, EngineProofs

--------------------------------------------------------------------------------
(* Types                                                                    *)

\* Initially every variable has its type.
LEMMA TypeInit == Init => TypeOK
<1> SUFFICES ASSUME Init PROVE TypeOK
    OBVIOUS
<1>1. BackendTypeOK
    BY DEF Init, BackendInit, BackendTypeOK
<1> QED
    BY <1>1, EngineInitTypes DEF Init, TypeOK

\* A read that ends, kept or abandoned, leaves its bytes in the slot.
LEMMA TypeRead ==
    ASSUME TypeOK, NEW i \in Slots, ReadSettles(i) \/ ReadAbandoned(i)
    PROVE  TypeOK'
<1> USE DEF TypeOK
<1>1. BackendTypeOK'
    BY DEF ReadSettles, ReadAbandoned, Settle, Abandon, BackendTypeOK
<1>2. PICK outcome \in Outcomes : buffer' = Written(i, outcome) /\ BufferOnly
    BY DEF ReadSettles, ReadAbandoned
<1>3. slots[i].sequence \in Nat \cup {None}
    BY DEF EngineTypeOK, RawFrameSlot
<1>4. buffer' \in [Slots -> Nat \cup {None}]
    BY <1>2, <1>3 DEF EngineTypeOK, Written
<1>5. EngineTypeOK'
    BY <1>2, <1>4 DEF EngineTypeOK, BufferOnly, poolVars, countVars, callerVars
<1> QED
    BY <1>1, <1>5

\* Every step of the system preserves the types.
LEMMA TypeNext == TypeOK /\ [Next]_vars => TypeOK'
<1> SUFFICES ASSUME TypeOK, [Next]_vars
             PROVE  TypeOK'
    OBVIOUS
<1>1. CASE CallerAlone
    BY <1>1, TypeCallerStep DEF CallerAlone, TypeOK, BackendTypeOK, backendVars
<1>2. CASE SubmitFirst \/ SubmitFirstRefused \/ Resubmit \/ ResubmitRefused
    <2>1. EngineTypeOK'
        BY <1>2, TypeSubmit
           DEF SubmitFirst, SubmitFirstRefused, Resubmit, ResubmitRefused, TypeOK
    <2>2. BackendTypeOK'
        BY <1>2 DEF SubmitFirst, SubmitFirstRefused, Resubmit, ResubmitRefused,
                    TypeOK, BackendTypeOK, SubmitRead, backendVars
    <2> QED
        BY <2>1, <2>2 DEF TypeOK
<1>3. CASE CancelTransfers \/ DrainTransfers \/ DrainRaises \/ FinishStop \/ ReleaseRaises
    <2>1. EngineTypeOK'
        BY <1>3, TypeStopStep
           DEF CancelTransfers, DrainTransfers, DrainRaises, FinishStop, ReleaseRaises, TypeOK, Steps
    <2>2. BackendTypeOK'
        BY <1>3 DEF CancelTransfers, DrainTransfers, DrainRaises, FinishStop, ReleaseRaises,
                    TypeOK, BackendTypeOK, CancelAll, ReleaseBackend, backendVars
    <2> QED
        BY <2>1, <2>2 DEF TypeOK
<1>4. ASSUME NEW i \in Slots, Transfer(i)
      PROVE  TypeOK'
    <2>1. CASE ReadSettles(i) \/ ReadAbandoned(i)
        BY <2>1, TypeRead
    <2>2. CASE Complete(i)
        <3>1. EngineTypeOK'
            BY <2>2, TypeCallback DEF Complete, Callback, TypeOK
        <3>2. BackendTypeOK'
            BY <2>2 DEF Complete, Callback, TypeOK, BackendTypeOK
        <3> QED
            BY <3>1, <3>2 DEF TypeOK
    <2> QED
        BY <1>4, <2>1, <2>2 DEF Transfer
<1>5. CASE CompletionCounted
    BY <1>5, TypeCallback DEF CompletionCounted, TypeOK, BackendTypeOK, backendVars
<1>6. CASE UNCHANGED vars
    BY <1>6 DEF vars, engineVars, backendVars, poolVars, countVars, callerVars,
                TypeOK, EngineTypeOK, BackendTypeOK
<1> QED
    BY <1>1, <1>2, <1>3, <1>4, <1>5, <1>6 DEF Next, Caller

\* Every variable has its type in every reachable state: in particular the caller's
\* thread has a result in hand exactly while it processes one, and start() never
\* reaches past the last slot.
THEOREM TypeInvariant == Spec => []TypeOK
BY TypeInit, TypeNext, PTL DEF Spec

--------------------------------------------------------------------------------
(* Ownership of the slots                                                   *)

\* A step that moves no slot keeps the ownership, as long as it declares nothing
\* quiet that is not.
LEMMA OwnershipFrame ==
    ASSUME OwnershipInv,
           UNCHANGED <<slots, transfer, completionQueue, current, released>>,
           cancelling => cancelling',
           AllQuiet => posted' = 0,
           pc' = "release" => AllQuiet,
           pc' \in {"drain", "release"} => cancelling'
    PROVE  OwnershipInv'
BY DEF OwnershipInv, SlotOwnership, ClosedWhenQuiet, AllQuiet, InFlight, Queued, InHandSlot

\* Every slot is free before the first start().
LEMMA OwnershipInit == Init => OwnershipInv
BY DEF Init, EngineInit, BackendInit, EmptyPool, FreeSlot, OwnershipInv, SlotOwnership,
       ClosedWhenQuiet, AllQuiet, InFlight, Queued, InHandSlot

\* The caller's own steps.
LEMMA OwnershipCaller ==
    ASSUME TypeOK, OwnershipInv, CallerAlone
    PROVE  OwnershipInv'
<1> USE DEF backendVars, poolVars, countVars, callerVars
<1>1. UNCHANGED <<transfer, cancelling, released>>
    BY DEF CallerAlone
<1>2. CASE Start \/ StartSlotInUse \/ CountSubmitted \/ TakeFrame \/ Stop
    BY <1>1, <1>2, OwnershipFrame
       DEF Start, StartSlotInUse, CountSubmitted, TakeFrame, Stop, OwnershipInv, AllQuiet
<1>3. CASE UsbError \/ ShortRead \/ DecodeFrame \/ DecodeFails \/ DecoderRaises
    BY <1>1, <1>3, OwnershipFrame
       DEF UsbError, ShortRead, DecodeFrame, DecodeFails, DecoderRaises, Discard, AllQuiet
<1>4. CASE StartAgain \/ StopAgain
    BY <1>1, <1>4, OwnershipFrame DEF StartAgain, StopAgain, engineVars, AllQuiet, OwnershipInv
<1>5. CASE TakeResult
    <2>1. /\ completionQueue \in Seq(RawFrameResult)
          /\ current = None /\ None \notin RawFrameResult
        BY <1>5, BufferPoolAssumption DEF TakeResult, TypeOK, EngineTypeOK
    <2>2. current' = completionQueue[1] /\ 1 \in DOMAIN completionQueue
        BY <1>5, <2>1, TakenSlots DEF TakeResult
    <2>3. \A i \in Slots : Queued(i)' => Queued(i) /\ completionQueue[1].slot # i
        <3> SUFFICES ASSUME NEW i \in Slots, NEW k \in DOMAIN completionQueue',
                            completionQueue'[k].slot = i
                     PROVE  Queued(i) /\ completionQueue[1].slot # i
            BY DEF Queued
        <3>1. /\ completionQueue[k + 1].slot = i
              /\ k + 1 \in DOMAIN completionQueue
              /\ k + 1 # 1
            BY <1>5, <2>1, TakenSlots DEF TakeResult
        <3> QED
            BY <3>1, <2>2 DEF Queued, OwnershipInv, SlotOwnership
    <2>4. \A i \in Slots : InHandSlot(i)' => Queued(i) /\ completionQueue[1].slot = i
        BY <2>2 DEF InHandSlot, Queued
    <2>5. \A i \in Slots : Queued(i) => Queued(i)' \/ InHandSlot(i)'
        <3> SUFFICES ASSUME NEW i \in Slots, NEW k \in DOMAIN completionQueue,
                            completionQueue[k].slot = i
                     PROVE  Queued(i)' \/ InHandSlot(i)'
            BY DEF Queued
        <3>1. CASE k = 1
            <4>1. completionQueue[1] \in RawFrameResult
                BY <2>1, <2>2, <1>5, ElementOfSeq, TakenSlots DEF TakeResult
            <4> QED
                BY <3>1, <4>1, <2>1, <2>2 DEF InHandSlot
        <3>2. CASE k # 1
            <4>1. k - 1 \in DOMAIN completionQueue' /\ (k - 1) + 1 = k
                BY <1>5, <2>1, <3>2, TakenSlots DEF TakeResult
            <4>2. completionQueue'[k - 1] = completionQueue[k]
                BY <1>5, <2>1, <4>1, TakenSlots DEF TakeResult
            <4> QED
                BY <4>1, <4>2 DEF Queued
        <3> QED
            BY <3>1, <3>2
    <2>6. \A j, k \in DOMAIN completionQueue' :
              completionQueue'[j].slot = completionQueue'[k].slot => j = k
        <3> SUFFICES ASSUME NEW j \in DOMAIN completionQueue',
                            NEW k \in DOMAIN completionQueue',
                            completionQueue'[j].slot = completionQueue'[k].slot
                     PROVE  j = k
            OBVIOUS
        <3>1. /\ completionQueue[j + 1].slot = completionQueue[k + 1].slot
              /\ j + 1 \in DOMAIN completionQueue
              /\ k + 1 \in DOMAIN completionQueue
              /\ j \in Int /\ k \in Int
            BY <1>5, <2>1, TakenSlots DEF TakeResult
        <3> QED
            BY <3>1 DEF OwnershipInv, SlotOwnership
    <2>7. UNCHANGED <<slots, posted>> /\ pc' = "decoding"
        BY <1>5 DEF TakeResult
    <2>8. \A i \in Slots :
              (InFlight(i)' <=> InFlight(i)) /\ slots'[i].in_use = slots[i].in_use
        BY <1>1, <2>7 DEF InFlight
    <2>9. \A i \in Slots : ~InHandSlot(i)
        BY <2>1 DEF InHandSlot
    <2> QED
        BY <1>1, <2>3, <2>4, <2>5, <2>6, <2>7, <2>8, <2>9
           DEF OwnershipInv, SlotOwnership, ClosedWhenQuiet, AllQuiet
<1>6. CASE RecycleStopped
    <2>1. current \in RawFrameResult /\ current' = None /\ current.slot \in Slots
        BY <1>6 DEF RecycleStopped, TypeOK, EngineTypeOK, RawFrameResult
    <2>2. /\ slots' = [slots EXCEPT ![current.slot] = FreeSlot]
          /\ slots \in [Slots -> RawFrameSlot]
          /\ UNCHANGED <<completionQueue, posted>>
          /\ pc' = "idle"
        BY <1>6 DEF RecycleStopped, Release, TypeOK, EngineTypeOK
    <2>3. current # None
        BY <2>1, BufferPoolAssumption
    <2>4. \A i \in Slots :
              /\ InFlight(i)' <=> InFlight(i)
              /\ Queued(i)' <=> Queued(i)
              /\ ~InHandSlot(i)'
              /\ InHandSlot(i) <=> i = current.slot
              /\ slots'[i].in_use <=> slots[i].in_use /\ i # current.slot
        BY <1>1, <2>1, <2>2, <2>3 DEF InFlight, Queued, InHandSlot, FreeSlot
    <2> QED
        BY <1>1, <2>1, <2>2, <2>4
           DEF OwnershipInv, SlotOwnership, ClosedWhenQuiet, AllQuiet
<1> QED
    BY <1>2, <1>3, <1>4, <1>5, <1>6 DEF CallerAlone, CallerStep

\* Submitting a slot: checked out by start(), or given back and checked out again by
\* process_completed; refused once the stream is cancelling.
LEMMA OwnershipSubmit ==
    ASSUME TypeOK, OwnershipInv,
           SubmitFirst \/ SubmitFirstRefused \/ Resubmit \/ ResubmitRefused
    PROVE  OwnershipInv'
<1> DEFINE mine == IF pc = "starting" THEN cursor ELSE current.slot
<1>1. /\ mine \in Slots
      /\ pc = "starting" => current = None /\ ~slots[mine].in_use
      /\ pc # "starting" => pc = "recycling" /\ current \in RawFrameResult /\ current # None
    BY BufferPoolAssumption
       DEF SubmitFirst, SubmitFirstRefused, Resubmit, ResubmitRefused, StartSlot, Recycle,
           TypeOK, EngineTypeOK, RawFrameResult
<1>2. /\ slots \in [Slots -> RawFrameSlot]
      /\ transfer \in [Slots -> {"idle", "pending"} \cup Outcomes]
    BY DEF TypeOK, EngineTypeOK, BackendTypeOK
<1>3. /\ UNCHANGED <<completionQueue, posted, cancelling, released>>
      /\ current' = None
      /\ pc' \in {"submitted", "idle"}
    BY <1>1 DEF SubmitFirst, SubmitFirstRefused, Resubmit, ResubmitRefused, StartSlot,
                Recycle, SubmitSlot, SubmitRead, backendVars, countVars
<1>4. \A i \in Slots : slots'[i].in_use <=> (i = mine \/ slots[i].in_use)
    BY <1>1, <1>2 DEF SubmitFirst, SubmitFirstRefused, Resubmit, ResubmitRefused, StartSlot,
                Recycle, SubmitSlot, Checkout, Release, FreeSlot, RawFrameSlot
<1>5. \/ /\ ~cancelling /\ ~released
         /\ transfer' = [transfer EXCEPT ![mine] = "pending"]
      \/ /\ cancelling \/ released
         /\ transfer' = transfer
    BY <1>1 DEF SubmitFirst, SubmitFirstRefused, Resubmit, ResubmitRefused, StartSlot,
                Recycle, SubmitRead, Accepting, backendVars
<1>6. \A i \in Slots : /\ Queued(i)' <=> Queued(i)
                       /\ ~InHandSlot(i)'
                       /\ InHandSlot(i) => i = mine
                       /\ InFlight(i)' => InFlight(i) \/ (i = mine /\ ~cancelling)
                       /\ InFlight(i) => InFlight(i)'
                       /\ i = mine /\ ~cancelling /\ ~released => InFlight(i)'
    BY <1>1, <1>2, <1>3, <1>5 DEF Queued, InHandSlot, InFlight
<1>7. ~cancelling => ~Queued(mine)
    BY <1>1 DEF OwnershipInv, SlotOwnership, InHandSlot
<1>8. released' => AllQuiet'
    BY <1>3, <1>5 DEF OwnershipInv, ClosedWhenQuiet, AllQuiet, InFlight
<1> QED
    BY <1>1, <1>3, <1>4, <1>6, <1>7, <1>8
       DEF OwnershipInv, SlotOwnership, ClosedWhenQuiet

\* The steps of stop() that call the backend.
LEMMA OwnershipStop ==
    ASSUME TypeOK, OwnershipInv,
           CancelTransfers \/ DrainTransfers \/ DrainRaises \/ FinishStop \/ ReleaseRaises
    PROVE  OwnershipInv'
<1> USE DEF StopStep, poolVars, countVars
<1>1. CASE CancelTransfers
    BY <1>1, OwnershipFrame DEF CancelTransfers, CancelAll, AllQuiet
<1>2. CASE DrainTransfers
    BY <1>2, OwnershipFrame
       DEF DrainTransfers, Drained, Quiet, AllQuiet, InFlight, backendVars, OwnershipInv
<1>3. CASE DrainRaises
    BY <1>3, OwnershipFrame DEF DrainRaises, AllQuiet, backendVars
<1>4. CASE FinishStop \/ ReleaseRaises
    <2>1. AllQuiet
        BY <1>4 DEF FinishStop, ReleaseRaises, StopRelease, OwnershipInv
    <2>2. /\ UNCHANGED <<transfer, completionQueue, current, posted>>
          /\ cancelling' /\ pc' = "idle"
        BY <1>4 DEF FinishStop, ReleaseRaises, StopRelease, ReleaseBackend, backendVars,
                    OwnershipInv
    <2>3. AllQuiet' /\ \A i \in Slots : ~InFlight(i)'
        BY <2>1, <2>2 DEF AllQuiet, InFlight
    <2>4. \A i \in Slots : (Queued(i)' <=> Queued(i)) /\ (InHandSlot(i)' <=> InHandSlot(i))
        BY <2>2 DEF Queued, InHandSlot
    <2> QED
        BY <2>2, <2>3, <2>4 DEF OwnershipInv, SlotOwnership, ClosedWhenQuiet
<1> QED
    BY <1>1, <1>2, <1>3, <1>4

\* A read that ends: it stays in flight if its callback is to come, and leaves the
\* slot with the pool only when the stream is cancelling.
LEMMA OwnershipRead ==
    ASSUME TypeOK, OwnershipInv, NEW i \in Slots, ReadSettles(i) \/ ReadAbandoned(i)
    PROVE  OwnershipInv'
<1>1. /\ UNCHANGED <<slots, completionQueue, current, posted, pc, cancelling, released>>
      /\ InFlight(i)
    BY DEF ReadSettles, ReadAbandoned, Settle, Abandon, BufferOnly, poolVars, countVars,
           callerVars, InFlight
<1>2. \A j \in Slots : /\ InFlight(j)' => InFlight(j)
                       /\ ~cancelling => (InFlight(j)' <=> InFlight(j))
    BY DEF ReadSettles, ReadAbandoned, Settle, Abandon, InFlight, Outcomes,
           TypeOK, BackendTypeOK
<1>3. \A j \in Slots : (Queued(j)' <=> Queued(j)) /\ (InHandSlot(j)' <=> InHandSlot(j))
    BY <1>1 DEF Queued, InHandSlot
<1>4. ~AllQuiet
    BY <1>1 DEF AllQuiet
<1> QED
    BY <1>1, <1>2, <1>3, <1>4 DEF OwnershipInv, SlotOwnership, ClosedWhenQuiet

\* A callback hands its slot from the backend to the completion queue.
LEMMA OwnershipComplete ==
    ASSUME TypeOK, OwnershipInv, NEW i \in Slots, Complete(i)
    PROVE  OwnershipInv'
<1>1. /\ InFlight(i) /\ transfer[i] \in Outcomes
      /\ transfer' = [transfer EXCEPT ![i] = "idle"]
      /\ PostResult(i, transfer[i])
      /\ UNCHANGED <<current, pc, cancelling, released>>
    BY DEF Complete, Callback, PostResult, callerVars, InFlight, Outcomes
<1>2. /\ slots \in [Slots -> RawFrameSlot]
      /\ completionQueue \in Seq(RawFrameResult)
      /\ transfer \in [Slots -> {"idle", "pending"} \cup Outcomes]
    BY DEF TypeOK, EngineTypeOK, BackendTypeOK
<1>3. \A j \in Slots : InFlight(j)' <=> (InFlight(j) /\ j # i)
    BY <1>1, <1>2 DEF InFlight
<1>4. \A j \in Slots : InHandSlot(j)' <=> InHandSlot(j)
    BY <1>1 DEF InHandSlot
<1>5. ~AllQuiet
    BY <1>1 DEF AllQuiet
<1>6. slots[i].in_use /\ ~Queued(i) /\ ~InHandSlot(i)
    BY <1>1 DEF OwnershipInv, SlotOwnership
<1>7. CASE Len(completionQueue) >= RawSlots
    <2>1. completionQueue' = completionQueue /\ slots' = [slots EXCEPT ![i] = FreeSlot]
        BY <1>1, <1>7 DEF PostResult, Release
    <2>2. \A j \in Slots : /\ Queued(j)' <=> Queued(j)
                           /\ slots'[j].in_use <=> (slots[j].in_use /\ j # i)
        BY <2>1, <1>2 DEF Queued, FreeSlot
    <2> QED
        BY <1>1, <1>3, <1>4, <1>5, <1>6, <2>1, <2>2
           DEF OwnershipInv, SlotOwnership, ClosedWhenQuiet
<1>8. CASE ~(Len(completionQueue) >= RawSlots)
    <2> DEFINE sequence == IF slots[i].sequence = None THEN 0 ELSE slots[i].sequence
               result == [slot |-> i, outcome |-> transfer[i], sequence |-> sequence]
    <2>1. completionQueue' = Append(completionQueue, result) /\ slots' = slots
        BY <1>1, <1>8 DEF PostResult
    <2>2. result \in RawFrameResult /\ result.slot = i
        BY <1>1, <1>2 DEF RawFrameResult, RawFrameSlot
    <2> HIDE DEF result
    <2>3. /\ DOMAIN completionQueue = 1 .. Len(completionQueue)
          /\ DOMAIN completionQueue' = 1 .. Len(completionQueue) + 1
          /\ \A k \in DOMAIN completionQueue : completionQueue'[k] = completionQueue[k]
          /\ completionQueue'[Len(completionQueue) + 1] = result
          /\ Len(completionQueue) \in Nat
        BY <1>2, <2>1, <2>2, AppendedSlots
    <2>4. \A j \in Slots : Queued(j)' <=> (Queued(j) \/ j = i)
        <3>1. \A k \in DOMAIN completionQueue' :
                  k \in DOMAIN completionQueue \/ k = Len(completionQueue) + 1
            BY <2>3
        <3>2. Len(completionQueue) + 1 \in DOMAIN completionQueue'
            BY <2>3
        <3>3. \A k \in DOMAIN completionQueue : k \in DOMAIN completionQueue'
            BY <2>3
        <3> QED
            BY <2>2, <2>3, <3>1, <3>2, <3>3 DEF Queued
    <2>5. \A j, k \in DOMAIN completionQueue' :
              completionQueue'[j].slot = completionQueue'[k].slot => j = k
        <3> SUFFICES ASSUME NEW j \in DOMAIN completionQueue',
                            NEW k \in DOMAIN completionQueue',
                            completionQueue'[j].slot = completionQueue'[k].slot
                     PROVE  j = k
            OBVIOUS
        <3>1. \A l \in DOMAIN completionQueue' :
                  \/ /\ l \in DOMAIN completionQueue
                     /\ completionQueue'[l].slot = completionQueue[l].slot
                     /\ completionQueue'[l].slot # i
                  \/ l = Len(completionQueue) + 1 /\ completionQueue'[l].slot = i
            BY <1>6, <2>2, <2>3 DEF Queued
        <3> QED
            BY <3>1 DEF OwnershipInv, SlotOwnership
    <2> QED
        BY <1>1, <1>3, <1>4, <1>5, <1>6, <2>1, <2>4, <2>5
           DEF OwnershipInv, SlotOwnership, ClosedWhenQuiet
<1> QED
    BY <1>7, <1>8

\* Every step preserves the ownership of the slots.
LEMMA OwnershipNext == TypeOK /\ OwnershipInv /\ [Next]_vars => OwnershipInv'
<1> SUFFICES ASSUME TypeOK, OwnershipInv, [Next]_vars
             PROVE  OwnershipInv'
    OBVIOUS
<1>1. CASE CompletionCounted
    BY <1>1, OwnershipFrame
       DEF CompletionCounted, CountCompleted, backendVars, poolVars, callerVars,
           OwnershipInv, AllQuiet
<1>2. CASE UNCHANGED vars
    BY <1>2, OwnershipFrame
       DEF vars, engineVars, backendVars, poolVars, countVars, callerVars, OwnershipInv, AllQuiet
<1> QED
    BY <1>1, <1>2, OwnershipCaller, OwnershipSubmit, OwnershipStop, OwnershipRead,
       OwnershipComplete
       DEF Next, Caller, Transfer

\* A raw slot belongs to one party at a time and, until the first stop(), none is
\* lost: no interleaving of the caller with backend threads submits a slot twice,
\* writes into one that is free, or leaves one checked out with nobody.
THEOREM SlotsAreOwned == Spec => []SlotOwnership
<1>1. TypeOK /\ OwnershipInv /\ [Next]_vars => (TypeOK /\ OwnershipInv)'
    BY TypeNext, OwnershipNext
<1>2. TypeOK /\ OwnershipInv => SlotOwnership
    BY DEF OwnershipInv
<1> QED
    BY TypeInit, OwnershipInit, <1>1, <1>2, PTL DEF Spec

\* The handle is closed only after every transfer has ended and every callback has
\* returned, and no transfer starts on a closed one.
THEOREM HandleClosedWhenQuiet == Spec => []ClosedWhenQuiet
<1>1. TypeOK /\ OwnershipInv /\ [Next]_vars => (TypeOK /\ OwnershipInv)'
    BY TypeNext, OwnershipNext
<1>2. TypeOK /\ OwnershipInv => ClosedWhenQuiet
    BY DEF OwnershipInv
<1> QED
    BY TypeInit, OwnershipInit, <1>1, <1>2, PTL DEF Spec

\* The slot of a transfer about to complete is not among those that wait, so the
\* completion queue has a place for it.
LEMMA RoomForOneMore ==
    ASSUME TypeOK, SlotOwnership, NEW i \in Slots, InFlight(i)
    PROVE  Len(completionQueue) < RawSlots
<1>1. DistinctSlots(completionQueue) /\ ~WaitsIn(completionQueue, i)
    BY DEF SlotOwnership, Queued, DistinctSlots, WaitsIn
<1> QED
    BY <1>1, RoomForAnother DEF TypeOK, EngineTypeOK

\* The queue.Full branch of _on_transfer_complete is dead code.
THEOREM CallbackFindsRoom == Spec => []QueueHasRoom
<1>1. TypeOK /\ OwnershipInv /\ [Next]_vars => (TypeOK /\ OwnershipInv)'
    BY TypeNext, OwnershipNext
<1>2. TypeOK /\ OwnershipInv => QueueHasRoom
    BY RoomForOneMore DEF OwnershipInv, QueueHasRoom, InFlight, Outcomes
<1> QED
    BY TypeInit, OwnershipInit, <1>1, <1>2, PTL DEF Spec

--------------------------------------------------------------------------------
(* The bytes of the slots                                                   *)

\* A step that touches no slot, transfer, buffer or queue and takes up no result.
LEMMA BytesFrame ==
    ASSUME BytesInv,
           UNCHANGED <<slots, transfer, buffer, completionQueue, outputQueue, current>>,
           pc' # "decoding" \/ pc' = pc
    PROVE  BytesInv'
BY DEF BytesInv, FrameIntegrity, InFlight, InHand

\* No result and no frame exists before the first start().
LEMMA BytesInit == Init => BytesInv
BY DEF Init, EngineInit, BackendInit, BytesInv, FrameIntegrity, InFlight, InHand, Slots

\* The caller's steps between calls of the backend preserve whose bytes are where.
LEMMA BytesCaller ==
    ASSUME TypeOK, OwnershipInv, BytesInv, CallerAlone
    PROVE  BytesInv'
<1> USE DEF backendVars, poolVars, countVars, callerVars
<1>1. UNCHANGED <<transfer, cancelling, released>>
    BY DEF CallerAlone
<1>2. CASE Start \/ StartSlotInUse \/ CountSubmitted \/ Stop
    BY <1>1, <1>2, BytesFrame DEF Start, StartSlotInUse, CountSubmitted, Stop
<1>3. CASE UsbError \/ ShortRead \/ DecodeFails \/ DecoderRaises
    BY <1>1, <1>3, BytesFrame DEF UsbError, ShortRead, DecodeFails, DecoderRaises, Discard
<1>4. CASE StartAgain \/ StopAgain
    BY <1>1, <1>4, BytesFrame DEF StartAgain, StopAgain, engineVars
<1>5. CASE TakeResult
    <2>1. completionQueue \in Seq(RawFrameResult) /\ completionQueue # <<>>
        BY <1>5 DEF TakeResult, TypeOK, EngineTypeOK
    <2>2. /\ UNCHANGED <<slots, buffer, outputQueue>>
          /\ current' = completionQueue[1] /\ 1 \in DOMAIN completionQueue
          /\ completionQueue' = Tail(completionQueue)
        BY <1>5, <2>1, TakenSlots DEF TakeResult
    <2>3. \A k \in DOMAIN completionQueue' :
              /\ completionQueue'[k] = completionQueue[k + 1]
              /\ k + 1 \in DOMAIN completionQueue
        BY <2>1, <2>2, TakenSlots
    <2> QED
        BY <1>1, <2>2, <2>3 DEF BytesInv, FrameIntegrity, InFlight, InHand
<1>6. CASE DecodeFrame
    <2> DEFINE frame == [sequence |-> current.sequence, data |-> buffer[current.slot]]
    <2>1. InHand("full") /\ outputQueue' = PutFrame(outputQueue, frame)
        BY <1>6 DEF DecodeFrame
    <2>2. current \in RawFrameResult
        BY <2>1 DEF InHand, TypeOK, EngineTypeOK
    <2>3. /\ frame \in Frame /\ frame.data = frame.sequence
          /\ outputQueue \in Seq(Frame) /\ Genuine(outputQueue)
        BY <2>1, <2>2 DEF Frame, RawFrameResult, TypeOK, EngineTypeOK, BytesInv,
                          FrameIntegrity, Genuine
    <2>4. FrameIntegrity'
        BY <2>1, <2>3, PutFrameGenuine DEF FrameIntegrity, Genuine
    <2>5. UNCHANGED <<slots, buffer, completionQueue, current>> /\ pc' = "recycling"
        BY <1>6 DEF DecodeFrame
    <2> QED
        BY <1>1, <2>4, <2>5 DEF BytesInv, InFlight, InHand
<1>7. CASE RecycleStopped
    <2>1. current \in RawFrameResult /\ current.slot \in Slots /\ current # None
        BY <1>7, BufferPoolAssumption DEF RecycleStopped, TypeOK, EngineTypeOK, RawFrameResult
    <2>2. ~InFlight(current.slot)
        BY <2>1 DEF OwnershipInv, SlotOwnership, InHandSlot
    <2>3. \A i \in Slots : i # current.slot => slots'[i] = slots[i]
        BY <1>7, <2>1 DEF RecycleStopped, Release, TypeOK, EngineTypeOK
    <2>4. UNCHANGED <<buffer, completionQueue, outputQueue>> /\ pc' = "idle"
        BY <1>7 DEF RecycleStopped
    <2> QED
        BY <1>1, <2>2, <2>3, <2>4 DEF BytesInv, FrameIntegrity, InFlight, InHand
<1>8. CASE TakeFrame
    <2>1. /\ UNCHANGED <<slots, buffer, completionQueue, current, pc>>
          /\ outputQueue # <<>> /\ outputQueue \in Seq(Frame)
          /\ outputQueue' = Tail(outputQueue)
        BY <1>8 DEF TakeFrame, TypeOK, EngineTypeOK
    <2>2. outputQueue' \in Seq(Frame) /\ Len(outputQueue') = Len(outputQueue) - 1
        BY <2>1, HeadTailProperties
    <2>3. /\ DOMAIN outputQueue = 1 .. Len(outputQueue)
          /\ DOMAIN outputQueue' = 1 .. Len(outputQueue) - 1
          /\ Len(outputQueue) \in Nat
        BY <2>1, <2>2, LenProperties
    <2>4. \A k \in DOMAIN outputQueue' :
              outputQueue'[k] = outputQueue[k + 1] /\ k + 1 \in DOMAIN outputQueue
        BY <2>1, <2>2, <2>3, HeadTailProperties
    <2> QED
        BY <1>1, <2>1, <2>4 DEF BytesInv, FrameIntegrity, InFlight, InHand
<1> QED
    BY <1>2, <1>3, <1>4, <1>5, <1>6, <1>7, <1>8 DEF CallerAlone, CallerStep

\* So does a submission, refused or not.
LEMMA BytesSubmit ==
    ASSUME TypeOK, OwnershipInv, BytesInv,
           SubmitFirst \/ SubmitFirstRefused \/ Resubmit \/ ResubmitRefused
    PROVE  BytesInv'
<1> DEFINE mine == IF pc = "starting" THEN cursor ELSE current.slot
<1>1. /\ mine \in Slots
      /\ pc = "starting" => current = None /\ ~slots[mine].in_use
      /\ pc # "starting" => pc = "recycling" /\ current \in RawFrameResult /\ current # None
    BY BufferPoolAssumption
       DEF SubmitFirst, SubmitFirstRefused, Resubmit, ResubmitRefused, StartSlot, Recycle,
           TypeOK, EngineTypeOK, RawFrameResult
<1>2. /\ slots \in [Slots -> RawFrameSlot]
      /\ transfer \in [Slots -> {"idle", "pending"} \cup Outcomes]
      /\ nextSequence \in Nat /\ None \notin Nat
    BY BufferPoolAssumption DEF TypeOK, EngineTypeOK, BackendTypeOK
<1>3. ~InFlight(mine)
    BY <1>1 DEF OwnershipInv, SlotOwnership, InHandSlot
<1>4. /\ UNCHANGED <<buffer, completionQueue, outputQueue>>
      /\ pc' \in {"submitted", "idle"}
    BY <1>1 DEF SubmitFirst, SubmitFirstRefused, Resubmit, ResubmitRefused, StartSlot,
                Recycle, SubmitSlot
<1>5. /\ slots'[mine].sequence = nextSequence
      /\ \A i \in Slots : i # mine => slots'[i] = slots[i]
    <2>1. PICK pool, accepted : /\ SubmitSlot(pool, mine, accepted)
                               /\ \/ pool = Checkout(slots, mine)
                                  \/ pool = Checkout(Release(slots, mine), mine)
        BY <1>1 DEF SubmitFirst, SubmitFirstRefused, Resubmit, ResubmitRefused, StartSlot,
                    Recycle
    <2> HIDE DEF mine
    <2>2. pool \in [Slots -> RawFrameSlot]
        <3>1. Release(slots, mine) \in [Slots -> RawFrameSlot]
            BY <1>1, <1>2, 0 \in Nat, PoolTypes
        <3>2. Checkout(slots, mine) \in [Slots -> RawFrameSlot]
            BY <1>1, <1>2, 0 \in Nat, PoolTypes
        <3>3. Checkout(Release(slots, mine), mine) \in [Slots -> RawFrameSlot]
            BY <1>1, <3>1, 0 \in Nat, PoolTypes
        <3> QED
            BY <2>1, <3>2, <3>3
    <2>3. \A i \in Slots : i # mine => pool[i] = slots[i]
        BY <1>1, <1>2, <2>1 DEF Checkout, Release
    <2>4. slots' = [pool EXCEPT ![mine].sequence = nextSequence]
        BY <2>1 DEF SubmitSlot
    <2> QED
        BY <1>1, <2>2, <2>3, <2>4 DEF RawFrameSlot
<1>6. transfer' = [transfer EXCEPT ![mine] = "pending"] \/ transfer' = transfer
    BY <1>1 DEF SubmitFirst, SubmitFirstRefused, Resubmit, ResubmitRefused, StartSlot,
                Recycle, SubmitRead, backendVars
<1>7. \A i \in Slots : i = mine \/ (slots'[i] = slots[i] /\ transfer'[i] = transfer[i])
    BY <1>1, <1>2, <1>5, <1>6
<1>8. transfer'[mine] \in {"idle", "pending"}
    BY <1>1, <1>2, <1>3, <1>6 DEF InFlight
<1> QED
    BY <1>1, <1>2, <1>4, <1>5, <1>7, <1>8 DEF BytesInv, FrameIntegrity, InFlight, InHand

\* So do the steps of stop().
LEMMA BytesStop ==
    ASSUME TypeOK, OwnershipInv, BytesInv,
           CancelTransfers \/ DrainTransfers \/ DrainRaises \/ FinishStop \/ ReleaseRaises
    PROVE  BytesInv'
<1> USE DEF StopStep, poolVars, countVars, backendVars
<1>1. CASE CancelTransfers \/ DrainTransfers \/ DrainRaises
    BY <1>1, BytesFrame DEF CancelTransfers, DrainTransfers, DrainRaises, CancelAll
<1>2. CASE FinishStop \/ ReleaseRaises
    <2>1. \A i \in Slots : transfer[i] = "idle"
        BY <1>2 DEF FinishStop, ReleaseRaises, StopRelease, OwnershipInv, AllQuiet, InFlight
    <2>2. /\ UNCHANGED <<transfer, buffer, completionQueue, outputQueue>>
          /\ pc' = "idle"
        BY <1>2 DEF FinishStop, ReleaseRaises, StopRelease, ReleaseBackend
    <2> QED
        BY <2>1, <2>2 DEF BytesInv, FrameIntegrity, InFlight, InHand
<1> QED
    BY <1>1, <1>2

\* A read writes into the slot it was submitted for, which holds no other result.
LEMMA BytesRead ==
    ASSUME TypeOK, OwnershipInv, BytesInv, NEW i \in Slots,
           ReadSettles(i) \/ ReadAbandoned(i)
    PROVE  BytesInv'
<1>1. PICK outcome \in Outcomes :
          /\ buffer' = Written(i, outcome) /\ BufferOnly
          /\ transfer[i] = "pending"
          /\ \/ transfer' = [transfer EXCEPT ![i] = outcome]
             \/ transfer' = [transfer EXCEPT ![i] = "idle"]
    BY DEF ReadSettles, ReadAbandoned, Settle, Abandon
<1>2. UNCHANGED <<slots, completionQueue, outputQueue, current, pc>>
    BY <1>1 DEF BufferOnly, poolVars, callerVars
<1>3. /\ transfer \in [Slots -> {"idle", "pending"} \cup Outcomes]
      /\ buffer \in [Slots -> Nat \cup {None}]
      /\ completionQueue \in Seq(RawFrameResult)
    BY DEF TypeOK, EngineTypeOK, BackendTypeOK
<1>4. InFlight(i) /\ ~Queued(i) /\ ~InHandSlot(i)
    BY <1>1 DEF InFlight, OwnershipInv, SlotOwnership
<1>5. /\ \A j \in Slots : j # i => buffer'[j] = buffer[j] /\ transfer'[j] = transfer[j]
      /\ transfer'[i] \in {"full", "short"} => buffer'[i] = slots[i].sequence
    BY <1>1, <1>3 DEF Written, Outcomes
<1>6. \A j \in Slots : InFlight(j)' => InFlight(j)
    BY <1>4, <1>5 DEF InFlight
<1>7. \A k \in DOMAIN completionQueue :
          completionQueue[k].slot # i /\ completionQueue[k].slot \in Slots
    <2> SUFFICES ASSUME NEW k \in DOMAIN completionQueue
                 PROVE  completionQueue[k].slot # i /\ completionQueue[k].slot \in Slots
        OBVIOUS
    <2>1. completionQueue[k] \in RawFrameResult
        BY <1>3, LenProperties, ElementOfSeq
    <2> QED
        BY <1>4, <2>1 DEF Queued, RawFrameResult
<1>8. InHand("full") => current.slot # i /\ current.slot \in Slots
    BY <1>4, BufferPoolAssumption
       DEF InHand, InHandSlot, TypeOK, EngineTypeOK, RawFrameResult
<1> QED
    BY <1>2, <1>5, <1>6, <1>7, <1>8 DEF BytesInv, FrameIntegrity, InHand

\* The result a callback posts shows the sequence number the slot had when its bytes
\* were written.
LEMMA BytesComplete ==
    ASSUME TypeOK, OwnershipInv, BytesInv, NEW i \in Slots, Complete(i)
    PROVE  BytesInv'
<1> DEFINE result == [slot |-> i, outcome |-> transfer[i], sequence |-> slots[i].sequence]
<1>1. /\ InFlight(i) /\ transfer[i] \in Outcomes
      /\ transfer' = [transfer EXCEPT ![i] = "idle"]
      /\ PostResult(i, transfer[i])
    BY DEF Complete, Callback, InFlight, Outcomes
<1>2. Len(completionQueue) < RawSlots /\ Len(completionQueue) \in Nat
    BY <1>1, RoomForOneMore, LenProperties DEF OwnershipInv, TypeOK, EngineTypeOK
<1>3. slots[i].sequence # None /\ slots[i].sequence \in Nat
    BY <1>1 DEF BytesInv, TypeOK, EngineTypeOK, RawFrameSlot
<1>4. ~(Len(completionQueue) >= RawSlots)
    BY <1>2, BufferPoolAssumption
<1>5. /\ completionQueue' = Append(completionQueue, result)
      /\ UNCHANGED <<slots, buffer, outputQueue, current, pc>>
    BY <1>1, <1>3, <1>4 DEF PostResult, callerVars
<1>6. result \in RawFrameResult
    BY <1>1, <1>3 DEF RawFrameResult
<1>7. /\ \A k \in DOMAIN completionQueue' :
             k \in DOMAIN completionQueue \/ completionQueue'[k] = result
      /\ \A k \in DOMAIN completionQueue : completionQueue'[k] = completionQueue[k]
    <2>1. completionQueue \in Seq(RawFrameResult)
        BY DEF TypeOK, EngineTypeOK
    <2> QED
        BY <1>5, <1>6, <2>1, AppendedSlots
<1>8. /\ result.slot = i /\ result.outcome = transfer[i]
      /\ result.sequence = slots[i].sequence
    OBVIOUS
<1>9. transfer[i] = "full" => buffer[i] = slots[i].sequence
    BY DEF BytesInv
<1>10. \A j \in Slots : j = i \/ transfer'[j] = transfer[j]
    BY <1>1 DEF TypeOK, BackendTypeOK
<1>11. transfer'[i] = "idle"
    BY <1>1 DEF TypeOK, BackendTypeOK
<1> HIDE DEF result
<1> QED
    BY <1>5, <1>7, <1>8, <1>9, <1>10, <1>11 DEF BytesInv, FrameIntegrity, InFlight, InHand

\* Every step preserves whose bytes are where.
LEMMA BytesNext == TypeOK /\ OwnershipInv /\ BytesInv /\ [Next]_vars => BytesInv'
<1> SUFFICES ASSUME TypeOK, OwnershipInv, BytesInv, [Next]_vars
             PROVE  BytesInv'
    OBVIOUS
<1>1. CASE CompletionCounted
    BY <1>1, BytesFrame
       DEF CompletionCounted, CountCompleted, backendVars, poolVars, callerVars
<1>2. CASE UNCHANGED vars
    BY <1>2, BytesFrame
       DEF vars, engineVars, backendVars, poolVars, countVars, callerVars
<1> QED
    BY <1>1, <1>2, BytesCaller, BytesSubmit, BytesStop, BytesRead, BytesComplete
       DEF Next, Caller, Transfer

\* The inductive invariant holds in every reachable state.
THEOREM InductiveInvariant == Spec => []IndInv
<1>1. Init => IndInv
    BY TypeInit, OwnershipInit, BytesInit DEF IndInv
<1>2. IndInv /\ [Next]_vars => IndInv'
    BY TypeNext, OwnershipNext, BytesNext DEF IndInv
<1> QED
    BY <1>1, <1>2, PTL DEF Spec

\* A frame never shows another read's bytes, however slots are reused and callbacks
\* and the caller interleave.
THEOREM FramesAreGenuine == Spec => []FrameIntegrity
<1>1. IndInv => FrameIntegrity
    BY DEF IndInv, BytesInv
<1> QED
    BY <1>1, InductiveInvariant, PTL

--------------------------------------------------------------------------------
(* The decoded queue                                                        *)

\* Under both dropping policies the queue of decoded frames never outgrows its
\* capacity.  Under "block" put_blocking appends to a full queue too.
THEOREM OutputStaysBounded ==
    ASSUME DropPolicy # "block"
    PROVE  Spec => []OutputBounded
<1>1. Init => OutputBounded
    BY FrameQueueAssumption DEF Init, EngineInit, OutputBounded
<1>2. TypeOK /\ OutputBounded /\ [Next]_vars => OutputBounded'
    <2> SUFFICES ASSUME TypeOK, OutputBounded, [Next]_vars
                 PROVE  OutputBounded'
        OBVIOUS
    <2>1. outputQueue \in Seq(Frame)
        BY DEF TypeOK, EngineTypeOK
    <2>2. ASSUME UNCHANGED outputQueue
          PROVE  OutputBounded'
        BY <2>2 DEF OutputBounded
    <2>3. CASE DecodeFrame
        <3> DEFINE frame == [sequence |-> current.sequence, data |-> buffer[current.slot]]
        <3>1. outputQueue' = PutFrame(outputQueue, frame) /\ InHand("full")
            BY <2>3 DEF DecodeFrame
        <3>2. frame \in Frame
            BY <3>1 DEF InHand, TypeOK, EngineTypeOK, RawFrameResult, Frame
        <3> QED
            BY <2>1, <3>1, <3>2, PutFrameBounded DEF OutputBounded
    <2>4. CASE TakeFrame
        <3>1. outputQueue # <<>> /\ outputQueue' = Tail(outputQueue)
            BY <2>4 DEF TakeFrame
        <3>2. Len(outputQueue') = Len(outputQueue) - 1 /\ Len(outputQueue) \in Nat
            BY <2>1, <3>1, HeadTailProperties, LenProperties
        <3> QED
            BY <3>2, FrameQueueAssumption DEF OutputBounded
    <2>5. CASE CallerAlone /\ ~DecodeFrame /\ ~TakeFrame
        BY <2>2, <2>5 DEF CallerAlone, CallerStep, Start, StartSlotInUse, CountSubmitted,
            TakeResult, UsbError, ShortRead, DecodeFails, DecoderRaises, Discard,
            RecycleStopped, Stop, StartAgain, StopAgain, engineVars
    <2>6. CASE SubmitFirst \/ SubmitFirstRefused \/ Resubmit \/ ResubmitRefused
        BY <2>2, <2>6 DEF SubmitFirst, SubmitFirstRefused, Resubmit, ResubmitRefused,
            StartSlot, Recycle
    <2>7. CASE CancelTransfers \/ DrainTransfers \/ DrainRaises \/ FinishStop \/ ReleaseRaises
        BY <2>2, <2>7 DEF CancelTransfers, DrainTransfers, DrainRaises, FinishStop, ReleaseRaises,
            StopStep, StopRelease
    <2>8. CASE CompletionCounted \/ \E i \in Slots : Transfer(i)
        BY <2>2, <2>8 DEF CompletionCounted, CountCompleted, Transfer, ReadSettles,
            ReadAbandoned, Complete, PostResult, BufferOnly
    <2>9. CASE UNCHANGED vars
        BY <2>2, <2>9 DEF vars, engineVars
    <2> QED
        BY <2>3, <2>4, <2>5, <2>6, <2>7, <2>8, <2>9 DEF Next, Caller, CallerAlone
<1> QED
    BY TypeInit, TypeNext, <1>1, <1>2, PTL DEF Spec

================================================================================
