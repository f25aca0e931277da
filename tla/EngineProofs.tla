------------------------------ MODULE EngineProofs ------------------------------
(***************************************************************************)
(* Lemmas about the engine's own steps and about the two queues, whatever  *)
(* backend the engine is composed with.  The slots stay abstract here: a   *)
(* step of the backend is one of PostResult and CountCompleted, or leaves  *)
(* the engine alone.                                                       *)
(***************************************************************************)
EXTENDS StreamingEngine, FiniteSetTheorems, SequenceTheorems, TLAPS

--------------------------------------------------------------------------------
(* Types                                                                    *)

\* Initially every variable of the engine has its type.
LEMMA EngineInitTypes == EngineInit => EngineTypeOK
<1> SUFFICES ASSUME EngineInit PROVE EngineTypeOK
    OBVIOUS
<1> USE BufferPoolAssumption DEF EngineInit, Slots
<1>1. slots \in [Slots -> RawFrameSlot]
    BY DEF EmptyPool, FreeSlot, RawFrameSlot
<1>2. stats \in Counters
    BY DEF Counters
<1> QED
    BY <1>1, <1>2 DEF EngineTypeOK, Steps

\* What the pool's operators return.
LEMMA PoolTypes ==
    ASSUME NEW pool \in [Slots -> RawFrameSlot], NEW i \in Slots, NEW n \in Nat
    PROVE  /\ Release(pool, i) \in [Slots -> RawFrameSlot]
           /\ Checkout(pool, i) \in [Slots -> RawFrameSlot]
           /\ [pool EXCEPT ![i].sequence = n] \in [Slots -> RawFrameSlot]
           /\ InUseCount(pool) \in Nat
<1>1. FreeSlot \in RawFrameSlot
    BY DEF FreeSlot, RawFrameSlot
<1>2. IsFiniteSet(Slots)
    BY FS_Interval, BufferPoolAssumption DEF Slots
<1>3. InUseCount(pool) \in Nat
    BY <1>2, FS_Subset, FS_CardinalityType DEF InUseCount, InUse
<1> QED
    BY <1>1, <1>3 DEF Release, Checkout, RawFrameSlot

\* put_frame_with_policy keeps a sequence of frames.
LEMMA PutFrameType ==
    ASSUME NEW S, NEW q \in Seq(S), NEW frame \in S
    PROVE  PutFrame(q, frame) \in Seq(S)
<1>1. Full(q) => q # <<>>
    BY FrameQueueAssumption DEF Full
<1>2. Append(q, frame) \in Seq(S)
    BY AppendProperties
<1>3. q # <<>> => Tail(q) \in Seq(S)
    BY HeadTailProperties
<1>4. q # <<>> => Append(Tail(q), frame) \in Seq(S)
    BY <1>3, AppendProperties
<1> QED
    BY <1>1, <1>2, <1>4 DEF PutFrame

\* Counting one or more events keeps the counters natural numbers.
LEMMA CounterTypes ==
    ASSUME NEW c \in Counters, NEW n \in Nat
    PROVE  /\ [c EXCEPT !.submitted = @ + n] \in Counters
           /\ [c EXCEPT !.completed = @ + n] \in Counters
           /\ [c EXCEPT !.dropped_raw = @ + n] \in Counters
           /\ [c EXCEPT !.usb_errors = @ + n] \in Counters
           /\ [c EXCEPT !.decode_errors = @ + n] \in Counters
           /\ [c EXCEPT !.cancelled = @ + n] \in Counters
BY DEF Counters

\* The counters of a decoded frame, kept or lost.
LEMMA DecodedCounterTypes ==
    ASSUME NEW c \in Counters, NEW kept \in Nat, NEW lost \in Nat
    PROVE  [c EXCEPT !.decoded = @ + 1, !.delivered = @ + kept,
                     !.dropped_decoded = @ + lost] \in Counters
<1> DEFINE c1 == [c EXCEPT !.decoded = @ + 1]
           c2 == [c1 EXCEPT !.delivered = @ + kept]
           c3 == [c2 EXCEPT !.dropped_decoded = @ + lost]
<1>1. c1 \in Counters
    BY DEF Counters
<1> HIDE DEF c1
<1>2. c2 \in Counters
    BY <1>1 DEF Counters
<1> HIDE DEF c2
<1>3. c3 \in Counters
    BY <1>2 DEF Counters
<1> QED
    BY <1>3 DEF c1, c2

\* A step of the caller's thread that does not call the backend.
LEMMA TypeCallerStep == EngineTypeOK /\ CallerStep => EngineTypeOK'
<1> SUFFICES ASSUME EngineTypeOK, CallerStep
             PROVE  EngineTypeOK'
    OBVIOUS
<1> USE BufferPoolAssumption
        DEF EngineTypeOK, Steps, poolVars, countVars, callerVars
<1>1. CASE Start
    BY <1>1 DEF Start, Slots
<1>2. CASE StartSlotInUse
    BY <1>2 DEF StartSlotInUse
<1>3. CASE CountSubmitted
    <2>1. stats' \in Counters
        BY <1>3, CounterTypes DEF CountSubmitted
    <2> QED
        BY <1>3, <2>1 DEF CountSubmitted, Slots
<1>4. CASE TakeResult
    <2>1. current' \in RawFrameResult /\ completionQueue' \in Seq(RawFrameResult)
        BY <1>4, HeadTailProperties DEF TakeResult
    <2>2. current' # None
        BY <2>1
    <2> QED
        BY <1>4, <2>1, <2>2 DEF TakeResult
<1>5. CASE UsbError \/ ShortRead \/ DecodeFails \/ DecoderRaises
    <2>0. escaped' \in Nat
        BY <1>5 DEF UsbError, ShortRead, DecodeFails, DecoderRaises
    <2>1. stats' \in Counters
        <3>1. \/ stats' = [stats EXCEPT !.usb_errors = @ + 1]
              \/ stats' = [stats EXCEPT !.dropped_raw = @ + 1]
              \/ stats' = [stats EXCEPT !.decode_errors = @ + 1]
              \/ stats' = stats
            BY ONLY <1>5 DEF UsbError, ShortRead, DecodeFails, DecoderRaises, Discard
        <3>2. stats \in Counters
            OBVIOUS
        <3> QED
            BY ONLY <3>1, <3>2, CounterTypes
    <2>2. /\ pc = "decoding" /\ pc' = "recycling"
          /\ UNCHANGED <<running, slots, nextSequence, buffer, completionQueue,
                         outputQueue, posted, taken, cursor, current>>
        BY <1>5 DEF UsbError, ShortRead, DecodeFails, DecoderRaises, Discard, InHand
    <2> QED
        BY <2>0, <2>1, <2>2
<1>6. CASE DecodeFrame
    <2> DEFINE frame == [sequence |-> current.sequence, data |-> buffer[current.slot]]
    <2>1. current \in RawFrameResult
        BY <1>6 DEF DecodeFrame, InHand
    <2>2. frame \in Frame
        BY <2>1 DEF Frame, RawFrameResult
    <2>3. outputQueue' \in Seq(Frame)
        BY <1>6, <2>2, PutFrameType DEF DecodeFrame
    <2>4. stats' \in Counters
        BY <1>6, DecodedCounterTypes DEF DecodeFrame
    <2> QED
        BY <1>6, <2>3, <2>4 DEF DecodeFrame, InHand
<1>7. CASE RecycleStopped
    <2>1. current.slot \in Slots
        BY <1>7 DEF RecycleStopped, RawFrameResult
    <2>2. slots' \in [Slots -> RawFrameSlot]
        BY <1>7, <2>1, PoolTypes DEF RecycleStopped
    <2> QED
        BY <1>7, <2>2 DEF RecycleStopped
<1>8. CASE TakeFrame
    BY <1>8, HeadTailProperties DEF TakeFrame
<1>9. CASE Stop
    <2>1. stats' \in Counters
        <3>1. InUseCount(slots) \in Nat
            BY PoolTypes, 0 \in Slots DEF Slots
        <3> QED
            BY <1>9, <3>1, CounterTypes DEF Stop
    <2> QED
        BY <1>9, <2>1 DEF Stop
<1>10. CASE StartAgain \/ StopAgain
    BY <1>10 DEF StartAgain, StopAgain, engineVars
<1> QED
    BY <1>1, <1>2, <1>3, <1>4, <1>5, <1>6, <1>7, <1>8, <1>9, <1>10 DEF CallerStep

\* A step in which the caller's thread submits a slot, accepted or not.
LEMMA TypeSubmit ==
    ASSUME EngineTypeOK,
           NEW accepted \in BOOLEAN,
           StartSlot(accepted) \/ Recycle(accepted)
    PROVE  EngineTypeOK'
<1> USE BufferPoolAssumption
        DEF EngineTypeOK, Steps, poolVars, countVars, callerVars
<1>1. CASE StartSlot(accepted)
    <2>1. cursor \in Slots
        BY <1>1 DEF StartSlot
    <2>2. slots' \in [Slots -> RawFrameSlot]
        BY <1>1, <2>1, PoolTypes DEF StartSlot, SubmitSlot
    <2>3. cursor + 1 \in 0 .. RawSlots
        BY <2>1 DEF Slots
    <2> QED
        BY <1>1, <2>2, <2>3 DEF StartSlot, SubmitSlot
<1>2. CASE Recycle(accepted)
    <2>1. current.slot \in Slots
        BY <1>2 DEF Recycle, RawFrameResult
    <2>2. slots' \in [Slots -> RawFrameSlot]
        BY <1>2, <2>1, PoolTypes DEF Recycle, SubmitSlot
    <2> QED
        BY <1>2, <2>2 DEF Recycle, SubmitSlot
<1> QED
    BY <1>1, <1>2

\* A step of stop() and the last one, which releases every slot.
LEMMA TypeStopStep ==
    ASSUME EngineTypeOK,
           \/ \E from \in Steps, to \in {"idle", "drain", "release"} :
                 from \in {"cancel", "drain"} /\ StopStep(from, to)
           \/ StopRelease
    PROVE  EngineTypeOK'
<1> USE DEF EngineTypeOK, Steps, poolVars, countVars, callerVars
<1>1. CASE StopRelease
    <2>1. slots' \in [Slots -> RawFrameSlot]
        BY <1>1 DEF StopRelease, FreeSlot, RawFrameSlot
    <2> QED
        BY <1>1, <2>1 DEF StopRelease
<1>2. CASE \E from \in Steps, to \in {"idle", "drain", "release"} :
              from \in {"cancel", "drain"} /\ StopStep(from, to)
    BY <1>2 DEF StopStep
<1> QED
    BY <1>1, <1>2

\* A step of a callback.
LEMMA TypeCallback ==
    ASSUME EngineTypeOK,
           \/ CountCompleted
           \/ \E i \in Slots, outcome \in Outcomes : PostResult(i, outcome)
    PROVE  EngineTypeOK'
<1> USE BufferPoolAssumption
        DEF EngineTypeOK, Steps, poolVars, countVars, callerVars
<1>1. CASE CountCompleted
    <2>1. stats' \in Counters
        BY <1>1, CounterTypes DEF CountCompleted
    <2> QED
        BY <1>1, <2>1 DEF CountCompleted
<1>2. ASSUME NEW i \in Slots, NEW outcome \in Outcomes, PostResult(i, outcome)
      PROVE  EngineTypeOK'
    <2> DEFINE sequence == IF slots[i].sequence = None THEN 0 ELSE slots[i].sequence
               result == [slot |-> i, outcome |-> outcome, sequence |-> sequence]
    <2>1. sequence \in Nat
        BY DEF RawFrameSlot
    <2>2. result \in RawFrameResult
        BY <2>1 DEF RawFrameResult
    <2>3. completionQueue' \in Seq(RawFrameResult)
        BY <1>2, <2>2, AppendProperties DEF PostResult
    <2>4. slots' \in [Slots -> RawFrameSlot]
        BY <1>2, PoolTypes DEF PostResult
    <2>5. stats' \in Counters
        BY <1>2, CounterTypes DEF PostResult
    <2> QED
        BY <1>2, <2>3, <2>4, <2>5 DEF PostResult
<1> QED
    BY <1>1, <1>2

--------------------------------------------------------------------------------
(* The completion queue                                                     *)

\* A posted result adds its slot to the ones waiting, at the end of the queue.
LEMMA AppendedSlots ==
    ASSUME NEW S, NEW q \in Seq(S), NEW r \in S
    PROVE  LET p == Append(q, r) IN
           /\ DOMAIN q = 1 .. Len(q)
           /\ DOMAIN p = 1 .. Len(q) + 1
           /\ \A k \in DOMAIN q : p[k] = q[k]
           /\ p[Len(q) + 1] = r
           /\ Len(q) \in Nat
<1>1. Append(q, r) \in Seq(S) /\ Len(Append(q, r)) = Len(q) + 1
    BY AppendProperties
<1> QED
    BY <1>1, AppendProperties, LenProperties

\* Taking the oldest result moves the others up by one place.
LEMMA TakenSlots ==
    ASSUME NEW S, NEW q \in Seq(S), q # <<>>
    PROVE  /\ 1 \in DOMAIN q
           /\ Head(q) = q[1]
           /\ DOMAIN q = 1 .. Len(q)
           /\ Len(q) \in Nat
           /\ DOMAIN Tail(q) = 1 .. Len(q) - 1
           /\ \A k \in DOMAIN Tail(q) : Tail(q)[k] = q[k + 1] /\ k + 1 \in DOMAIN q
<1>1. Tail(q) \in Seq(S) /\ Len(Tail(q)) = Len(q) - 1
    BY HeadTailProperties
<1>2. Len(q) \in Nat \ {0}
    BY EmptySeq
<1>3. DOMAIN q = 1 .. Len(q) /\ DOMAIN Tail(q) = 1 .. Len(q) - 1
    BY <1>1, LenProperties
<1> QED
    BY <1>1, <1>2, <1>3, HeadTailProperties

WaitsIn(q, i) == \E k \in DOMAIN q : q[k].slot = i
DistinctSlots(q) == \A j, k \in DOMAIN q : q[j].slot = q[k].slot => j = k

\* The queue with one result more, for a slot that did not wait in it.
LEMMA WaitingAfterPost ==
    ASSUME NEW S, NEW q \in Seq(S), NEW r \in S,
           DistinctSlots(q), ~WaitsIn(q, r.slot)
    PROVE  /\ DistinctSlots(Append(q, r))
           /\ \A i : WaitsIn(Append(q, r), i) <=> WaitsIn(q, i) \/ i = r.slot
<1> DEFINE p == Append(q, r)
           n == Len(q) + 1
<1>1. /\ DOMAIN q = 1 .. Len(q)
      /\ DOMAIN p = 1 .. Len(q) + 1
      /\ \A k \in DOMAIN q : p[k] = q[k]
      /\ p[n] = r
      /\ Len(q) \in Nat
    BY AppendedSlots
<1>2. /\ n \in DOMAIN p /\ n \notin DOMAIN q
      /\ \A k \in DOMAIN q : k \in DOMAIN p
      /\ \A k \in DOMAIN p : k \in DOMAIN q \/ k = n
    BY <1>1
<1> HIDE DEF p, n
<1>3. DistinctSlots(p)
    <2> SUFFICES ASSUME NEW j \in DOMAIN p, NEW k \in DOMAIN p, p[j].slot = p[k].slot
                 PROVE  j = k
        BY DEF DistinctSlots
    <2>1. \A l \in DOMAIN q : p[l].slot # r.slot
        BY <1>1 DEF WaitsIn
    <2> QED
        BY <1>1, <1>2, <2>1 DEF DistinctSlots
<1>4. ASSUME NEW i
      PROVE  WaitsIn(p, i) <=> WaitsIn(q, i) \/ i = r.slot
    BY <1>1, <1>2 DEF WaitsIn
<1> QED
    BY <1>3, <1>4 DEF p

\* The queue without its oldest result: the slot of that one waits no more.
LEMMA WaitingAfterTake ==
    ASSUME NEW S, NEW q \in Seq(S), q # <<>>, DistinctSlots(q)
    PROVE  /\ Head(q) \in S /\ WaitsIn(q, Head(q).slot)
           /\ DistinctSlots(Tail(q))
           /\ \A i : WaitsIn(Tail(q), i) <=> WaitsIn(q, i) /\ i # Head(q).slot
<1> DEFINE p == Tail(q)
<1>1. /\ 1 \in DOMAIN q
      /\ Head(q) = q[1]
      /\ DOMAIN q = 1 .. Len(q)
      /\ Len(q) \in Nat
      /\ DOMAIN p = 1 .. Len(q) - 1
      /\ \A k \in DOMAIN p : p[k] = q[k + 1] /\ k + 1 \in DOMAIN q
    BY TakenSlots
<1>2. /\ \A k \in DOMAIN p : k + 1 # 1
      /\ \A j, k \in DOMAIN p : j + 1 = k + 1 => j = k
      /\ \A k \in DOMAIN q : k # 1 => k - 1 \in DOMAIN p /\ (k - 1) + 1 = k
    BY <1>1
<1>3. Head(q) \in S /\ WaitsIn(q, Head(q).slot)
    BY <1>1, ElementOfSeq DEF WaitsIn
<1> HIDE DEF p
<1>4. DistinctSlots(p)
    BY <1>1, <1>2 DEF DistinctSlots
<1>5. ASSUME NEW i
      PROVE  WaitsIn(p, i) <=> WaitsIn(q, i) /\ i # q[1].slot
    <2>1. ASSUME NEW k \in DOMAIN p, p[k].slot = i
          PROVE  WaitsIn(q, i) /\ i # q[1].slot
        BY <1>1, <1>2, <2>1 DEF WaitsIn, DistinctSlots
    <2>2. ASSUME NEW k \in DOMAIN q, q[k].slot = i, i # q[1].slot
          PROVE  WaitsIn(p, i)
      <3>1. k - 1 \in DOMAIN p /\ p[k - 1] = q[k]
          BY <1>1, <1>2, <2>2
      <3> QED
          BY <2>2, <3>1 DEF WaitsIn
    <2> QED
        BY <2>1, <2>2 DEF WaitsIn
<1> QED
    BY <1>1, <1>3, <1>4, <1>5 DEF p

\* What one more element adds to a sequence.
LEMMA ElementsAfterPost ==
    ASSUME NEW S, NEW q \in Seq(S), NEW r \in S
    PROVE  \A e : e \in Range(Append(q, r)) <=> e \in Range(q) \/ e = r
<1> DEFINE p == Append(q, r)
           n == Len(q) + 1
<1>1. /\ DOMAIN q = 1 .. Len(q)
      /\ DOMAIN p = 1 .. Len(q) + 1
      /\ \A k \in DOMAIN q : p[k] = q[k]
      /\ p[n] = r
      /\ Len(q) \in Nat
    BY AppendedSlots
<1>2. /\ n \in DOMAIN p
      /\ \A k \in DOMAIN q : k \in DOMAIN p
      /\ \A k \in DOMAIN p : k \in DOMAIN q \/ k = n
    BY <1>1
<1> HIDE DEF p, n
<1>3. \A e : e \in Range(p) <=> e \in Range(q) \/ e = r
    BY <1>1, <1>2 DEF Range
<1> QED
    BY <1>3 DEF p

\* What is left of a sequence with one element for a slot at most, without the first.
LEMMA ElementsAfterTake ==
    ASSUME NEW S, NEW q \in Seq(S), q # <<>>, DistinctSlots(q)
    PROVE  /\ Head(q) \in Range(q)
           /\ \A e \in Range(Tail(q)) : e \in Range(q) /\ e.slot # Head(q).slot
<1> DEFINE p == Tail(q)
<1>1. /\ 1 \in DOMAIN q
      /\ Head(q) = q[1]
      /\ DOMAIN p = 1 .. Len(q) - 1
      /\ Len(q) \in Nat
      /\ \A k \in DOMAIN p : p[k] = q[k + 1] /\ k + 1 \in DOMAIN q
    BY TakenSlots
<1>2. \A k \in DOMAIN p : k + 1 # 1
    BY <1>1
<1> HIDE DEF p
<1>3. Head(q) \in Range(q)
    BY <1>1 DEF Range
<1>4. ASSUME NEW e \in Range(p)
      PROVE  e \in Range(q) /\ e.slot # q[1].slot
  <2>1. PICK k \in DOMAIN p : e = p[k]
      BY DEF Range
  <2>2. k + 1 \in DOMAIN q /\ e = q[k + 1] /\ k + 1 # 1
      BY <1>1, <1>2, <2>1
  <2> QED
      BY <1>1, <2>2 DEF Range, DistinctSlots
<1> QED
    BY <1>1, <1>3, <1>4 DEF p

\* Distinct slots wait in the queue, so that one more slot, which is not among them,
\* finds a place at least.
LEMMA RoomForAnother ==
    ASSUME NEW q \in Seq(RawFrameResult), DistinctSlots(q), NEW i \in Slots, ~WaitsIn(q, i)
    PROVE  Len(q) < RawSlots
<1> DEFINE places == 1 .. Len(q)
           others == Slots \ {i}
           slotAt == [k \in places |-> q[k].slot]
<1>1. DOMAIN q = places /\ Len(q) \in Nat
    BY LenProperties
<1>2. \A k \in places : q[k].slot \in others
    <2> SUFFICES ASSUME NEW k \in places
                 PROVE  q[k].slot \in others
        OBVIOUS
    <2>1. q[k] \in RawFrameResult
        BY <1>1, ElementOfSeq
    <2> QED
        BY <1>1, <2>1 DEF WaitsIn, RawFrameResult
<1>3. slotAt \in Injection(places, others)
    BY <1>1, <1>2 DEF Injection, IsInjective, DistinctSlots
<1>4. IsFiniteSet(Slots) /\ Cardinality(Slots) = RawSlots
  <2>1. RawSlots - 1 \in Int /\ 0 <= RawSlots - 1 /\ (RawSlots - 1) - 0 + 1 = RawSlots
      BY BufferPoolAssumption
  <2> QED
      BY <2>1, FS_Interval DEF Slots
<1>5. IsFiniteSet(others) /\ Cardinality(others) = RawSlots - 1
    BY <1>4, FS_RemoveElement
<1>6. Cardinality(places) <= Cardinality(others)
    BY <1>3, <1>5, FS_Injection
<1>7. Cardinality(places) = Len(q)
    BY <1>1, FS_Interval
<1> QED
    BY <1>1, <1>5, <1>6, <1>7, BufferPoolAssumption

--------------------------------------------------------------------------------
(* The decoded queue                                                        *)

Genuine(q) == \A k \in DOMAIN q : q[k].data = q[k].sequence

\* Delivering a genuine frame, whatever the policy drops for it, leaves a queue of
\* genuine frames.
LEMMA PutFrameGenuine ==
    ASSUME NEW q \in Seq(Frame), NEW frame \in Frame,
           Genuine(q), frame.data = frame.sequence
    PROVE  Genuine(PutFrame(q, frame))
<1>1. ASSUME NEW p \in Seq(Frame), Genuine(p)
      PROVE  Genuine(Append(p, frame))
    <2>1. Append(p, frame) \in Seq(Frame) /\ Len(Append(p, frame)) = Len(p) + 1
        BY AppendProperties
    <2>2. DOMAIN p = 1 .. Len(p) /\ DOMAIN Append(p, frame) = 1 .. Len(p) + 1 /\ Len(p) \in Nat
        BY <2>1, LenProperties
    <2> QED
        BY <1>1, <2>2, AppendProperties DEF Genuine
<1>2. Full(q) => q # <<>>
    BY FrameQueueAssumption DEF Full
<1>3. q # <<>> => Tail(q) \in Seq(Frame) /\ Genuine(Tail(q))
    <2> SUFFICES ASSUME q # <<>>
                 PROVE  Tail(q) \in Seq(Frame) /\ Genuine(Tail(q))
        OBVIOUS
    <2>1. Tail(q) \in Seq(Frame) /\ Len(Tail(q)) = Len(q) - 1
        BY HeadTailProperties
    <2>2. DOMAIN q = 1 .. Len(q) /\ DOMAIN Tail(q) = 1 .. Len(q) - 1 /\ Len(q) \in Nat
        BY <2>1, LenProperties
    <2> QED
        BY <2>1, <2>2, HeadTailProperties DEF Genuine
<1> QED
    BY <1>1, <1>2, <1>3 DEF PutFrame

\* Putting a frame never takes a queue past its capacity, unless it blocks.
LEMMA PutFrameBounded ==
    ASSUME DropPolicy # "block", NEW q \in Seq(Frame), NEW frame \in Frame,
           Len(q) <= OutputQueueSize
    PROVE  Len(PutFrame(q, frame)) <= OutputQueueSize
<1>1. Len(q) \in Nat /\ OutputQueueSize \in Nat \ {0}
    BY LenProperties, FrameQueueAssumption
<1>2. Len(Append(q, frame)) = Len(q) + 1
    BY AppendProperties
<1>3. q # <<>> => Len(Append(Tail(q), frame)) = Len(q)
    <2> SUFFICES ASSUME q # <<>> PROVE Len(Append(Tail(q), frame)) = Len(q)
        OBVIOUS
    <2>1. Tail(q) \in Seq(Frame) /\ Len(Tail(q)) = Len(q) - 1
        BY HeadTailProperties
    <2> QED
        BY <1>1, <2>1, AppendProperties
<1>4. Full(q) => q # <<>>
    BY <1>1 DEF Full
<1> QED
    BY <1>1, <1>2, <1>3, <1>4, FrameQueueAssumption DEF PutFrame, Retains, Full, Policies

================================================================================
