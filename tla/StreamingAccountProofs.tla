------------------------ MODULE StreamingAccountProofs ------------------------
(***************************************************************************)
(* More theorems about StreamingSystem, which rest on the invariant of     *)
(* StreamingProofs: its counters account for every read, no read is found  *)
(* twice, a stop() that does nothing has nothing to do, and the steps of   *)
(* the engine are steps of FrameStream.                                    *)
(***************************************************************************)
EXTENDS StreamingProofs, StreamingRefinement

--------------------------------------------------------------------------------
(* The counters                                                             *)

Whether(condition) == IF condition THEN 1 ELSE 0

Flights == {i \in Slots : InFlight(i)}

\* The completed reads that did not become a frame.
Discarded == stats.usb_errors + stats.dropped_raw + stats.decode_errors + escaped

\* The parts of StatsConservation.
Issued ==
    ~cancelling =>
        /\ nextSequence = stats.submitted + Whether(pc = "submitted")
        /\ nextSequence = stats.completed + posted + Cardinality(Flights)
Fates ==
    stats.completed + posted =
        Len(completionQueue) + Whether(pc = "decoding") + Discarded + stats.decoded
Frames == stats.decoded = Len(outputQueue) + taken + stats.dropped_decoded
Deliveries ==
    stats.decoded = stats.delivered
        + (IF DropPolicy = "drop_newest" THEN stats.dropped_decoded ELSE 0)

Accounts == Issued /\ Fates /\ Frames /\ Deliveries

\* They are all of it.
LEMMA AccountsAreConservation == TypeOK /\ Accounts => StatsConservation
<1> SUFFICES ASSUME TypeOK, Accounts PROVE StatsConservation
    OBVIOUS
<1>1. stats.dropped_decoded \in Nat
    BY DEF TypeOK, EngineTypeOK, Counters
<1>4. stats.completed + posted =
          Len(completionQueue) + Whether(pc = "decoding") + stats.usb_errors
            + stats.dropped_raw + stats.decode_errors + escaped + stats.decoded
  <2>1. /\ stats.usb_errors \in Nat /\ stats.dropped_raw \in Nat /\ stats.decoded \in Nat
        /\ stats.decode_errors \in Nat /\ escaped \in Nat
        /\ completionQueue \in Seq(RawFrameResult)
      BY DEF TypeOK, EngineTypeOK, Counters
  <2>2. Len(completionQueue) \in Nat /\ Whether(pc = "decoding") \in Nat
      BY <2>1, LenProperties DEF Whether
  <2>3. stats.completed + posted =
          Len(completionQueue) + Whether(pc = "decoding") + Discarded + stats.decoded
      BY DEF Accounts, Fates
  <2> QED
      BY ONLY <2>1, <2>2, <2>3 DEF Discarded
<1>2. DropPolicy = "drop_newest" => 1 * stats.dropped_decoded = stats.dropped_decoded
    BY <1>1
<1>3. DropPolicy # "drop_newest" => 0 * stats.dropped_decoded = 0
    BY <1>1
<1> QED
    BY <1>1, <1>2, <1>3, <1>4
       DEF StatsConservation, Accounts, Issued, Frames, Deliveries, Whether, Flights

\* The quantities the accounts are about are natural numbers.
LEMMA AccountTypes ==
    ASSUME TypeOK
    PROVE  /\ stats \in Counters
           /\ stats.submitted \in Nat /\ stats.completed \in Nat /\ stats.decoded \in Nat
           /\ stats.delivered \in Nat /\ stats.dropped_raw \in Nat
           /\ stats.dropped_decoded \in Nat /\ stats.usb_errors \in Nat
           /\ stats.decode_errors \in Nat /\ stats.cancelled \in Nat
           /\ nextSequence \in Nat /\ posted \in Nat /\ taken \in Nat /\ escaped \in Nat
           /\ Len(completionQueue) \in Nat /\ Len(outputQueue) \in Nat
           /\ Discarded \in Nat
           /\ IsFiniteSet(Flights) /\ Cardinality(Flights) \in Nat
<1>1. IsFiniteSet(Slots)
    BY FS_Interval, BufferPoolAssumption DEF Slots
<1>2. IsFiniteSet(Flights) /\ Cardinality(Flights) \in Nat
    BY <1>1, FS_Subset, FS_CardinalityType DEF Flights
<1>3. completionQueue \in Seq(RawFrameResult) /\ outputQueue \in Seq(Frame)
    BY DEF TypeOK, EngineTypeOK
<1>4. Len(completionQueue) \in Nat /\ Len(outputQueue) \in Nat
    BY <1>3, LenProperties
<1>5. /\ stats.usb_errors \in Nat /\ stats.dropped_raw \in Nat
      /\ stats.decode_errors \in Nat /\ escaped \in Nat
    BY DEF TypeOK, EngineTypeOK, Counters
<1>6. Discarded \in Nat
    BY ONLY <1>5 DEF Discarded
<1> QED
    BY <1>2, <1>4, <1>6 DEF TypeOK, EngineTypeOK, Counters

\* Counting a submission or a cancellation discards nothing.
LEMMA SameFates ==
    ASSUME TypeOK, Fates, Frames, Deliveries,
           UNCHANGED <<completionQueue, outputQueue, posted, taken, escaped>>,
           \/ UNCHANGED stats
           \/ \E n \in Nat : stats' = [stats EXCEPT !.submitted = @ + n]
           \/ \E n \in Nat : stats' = [stats EXCEPT !.cancelled = @ + n],
           pc = "decoding" <=> pc' = "decoding"
    PROVE  Fates' /\ Frames' /\ Deliveries'
<1>1. /\ stats'.completed = stats.completed /\ stats'.decoded = stats.decoded
      /\ stats'.delivered = stats.delivered /\ stats'.dropped_raw = stats.dropped_raw
      /\ stats'.dropped_decoded = stats.dropped_decoded
      /\ stats'.usb_errors = stats.usb_errors /\ stats'.decode_errors = stats.decode_errors
    BY DEF TypeOK, EngineTypeOK, Counters
<1>2. Discarded' = Discarded
    BY <1>1 DEF Discarded
<1>3. Whether(pc = "decoding")' = Whether(pc = "decoding")
    BY DEF Whether
<1> QED
    BY <1>1, <1>2, <1>3 DEF Fates, Frames, Deliveries

\* Before the first start() every account is empty.
LEMMA AccountsInit == Init => Accounts
<1> SUFFICES ASSUME Init PROVE Accounts
    OBVIOUS
<1>1. Flights = {}
    BY DEF Init, BackendInit, Flights, InFlight
<1>2. Cardinality(Flights) = 0 /\ Len(completionQueue) = 0 /\ Len(outputQueue) = 0
    BY <1>1, FS_EmptySet, EmptySeq DEF Init, EngineInit
<1>3. Discarded = 0
    BY DEF Init, EngineInit, Discarded
<1> QED
    BY <1>2, <1>3 DEF Init, EngineInit, Accounts, Issued, Fates, Frames, Deliveries, Whether

\* What a policy does to the counters it changes is what it does to the queue.
LEMMA PutFrameCounts ==
    ASSUME NEW q \in Seq(Frame), NEW frame \in Frame
    PROVE  LET kept == Whether(Retains(q))
               lost == Whether(Drops(q))
           IN  /\ Len(PutFrame(q, frame)) + lost = Len(q) + 1
               /\ DropPolicy = "drop_newest" => kept + lost = 1
               /\ DropPolicy # "drop_newest" => kept = 1
<1>1. Len(q) \in Nat /\ (Full(q) => q # <<>>)
    BY FrameQueueAssumption, LenProperties DEF Full
<1>2. Len(Append(q, frame)) = Len(q) + 1
    BY AppendProperties
<1>3. q # <<>> => Len(Append(Tail(q), frame)) = Len(q)
  <2> SUFFICES ASSUME q # <<>> PROVE Len(Append(Tail(q), frame)) = Len(q)
      OBVIOUS
  <2>1. Tail(q) \in Seq(Frame) /\ Len(Tail(q)) = Len(q) - 1
      BY HeadTailProperties
  <2> QED
      BY <1>1, <2>1, AppendProperties
<1>4. DropPolicy = "drop_newest" \/ DropPolicy = "drop_oldest" \/ DropPolicy = "block"
    BY FrameQueueAssumption DEF Policies
<1>5. CASE ~Full(q)
    BY <1>2, <1>5 DEF PutFrame, Retains, Drops, Whether
<1>6. CASE Full(q) /\ DropPolicy = "drop_newest"
    BY <1>1, <1>6 DEF PutFrame, Retains, Drops, Whether
<1>7. CASE Full(q) /\ DropPolicy = "drop_oldest"
    BY <1>1, <1>3, <1>7 DEF PutFrame, Retains, Drops, Whether
<1>8. CASE Full(q) /\ DropPolicy = "block"
    BY <1>2, <1>8 DEF PutFrame, Retains, Drops, Whether
<1> QED
    BY <1>4, <1>5, <1>6, <1>7, <1>8

\* The caller's steps between calls of the backend.
LEMMA AccountsCaller ==
    ASSUME TypeOK, Accounts, CallerAlone
    PROVE  Accounts'
<1> USE DEF poolVars, countVars, callerVars
<1>0. /\ stats \in Counters
      /\ stats.submitted \in Nat /\ stats.completed \in Nat /\ stats.decoded \in Nat
      /\ stats.delivered \in Nat /\ stats.dropped_raw \in Nat
      /\ stats.dropped_decoded \in Nat /\ stats.usb_errors \in Nat
      /\ stats.decode_errors \in Nat
      /\ nextSequence \in Nat /\ posted \in Nat /\ taken \in Nat /\ escaped \in Nat
      /\ Len(completionQueue) \in Nat /\ Len(outputQueue) \in Nat
      /\ Discarded \in Nat /\ Cardinality(Flights) \in Nat
    BY AccountTypes
<1>1. transfer' = transfer /\ cancelling' = cancelling
    BY DEF CallerAlone, backendVars
<1>2. Flights' = Flights
    BY <1>0, <1>1 DEF Flights, InFlight
<1>3. CASE Start \/ StartSlotInUse
  <2>1. /\ UNCHANGED <<nextSequence, completionQueue, outputQueue, stats, posted, taken,
                       escaped>>
        /\ pc \notin {"submitted", "decoding"} /\ pc' \notin {"submitted", "decoding"}
      BY <1>3 DEF Start, StartSlotInUse
  <2>2. Fates' /\ Frames' /\ Deliveries'
      BY <2>1, SameFates DEF Accounts
  <2>3. Issued'
      BY <1>1, <1>2, <2>1 DEF Accounts, Issued, Whether
  <2> QED
      BY <2>2, <2>3 DEF Accounts
<1>4. CASE CountSubmitted
  <2>1. /\ stats' = [stats EXCEPT !.submitted = @ + 1]
        /\ pc = "submitted" /\ pc' \in {"starting", "idle"}
        /\ UNCHANGED <<nextSequence, completionQueue, outputQueue, posted, taken, escaped>>
      BY <1>4 DEF CountSubmitted
  <2>2. stats'.submitted = stats.submitted + 1 /\ stats'.completed = stats.completed
      BY <1>0, <2>1 DEF Counters
  <2>3. Issued'
    <3>1. ~cancelling => /\ nextSequence = stats.submitted + 1
                         /\ nextSequence = stats.completed + posted + Cardinality(Flights)
        BY <2>1 DEF Accounts, Issued, Whether
    <3>2. stats.submitted \in Nat /\ stats'.submitted + 0 = stats.submitted + 1
        BY <1>0, <2>2
    <3>3. Whether(pc = "submitted")' = 0
        BY <2>1 DEF Whether
    <3>4. ~cancelling' =>
             /\ nextSequence' = stats'.submitted + Whether(pc = "submitted")'
             /\ nextSequence' = stats'.completed + posted' + Cardinality(Flights')
        BY <1>1, <1>2, <2>1, <2>2, <3>1, <3>2, <3>3
    <3> QED
        BY <3>4 DEF Issued
  <2>4. Fates' /\ Frames' /\ Deliveries'
      BY <2>1, SameFates DEF Accounts
  <2> QED
      BY <2>3, <2>4 DEF Accounts
<1>5. CASE TakeResult
  <2>1. Len(completionQueue') = Len(completionQueue) - 1
      BY <1>0, <1>5, HeadTailProperties DEF TakeResult, TypeOK, EngineTypeOK
  <2>2. /\ UNCHANGED <<nextSequence, outputQueue, stats, posted, taken, escaped>>
        /\ pc = "idle" /\ pc' = "decoding"
      BY <1>5 DEF TakeResult
  <2>3. Issued'
      BY <1>1, <1>2, <2>2 DEF Accounts, Issued, Whether
  <2>4. Fates'
    <3>1. Discarded' = Discarded /\ Whether(pc = "decoding") = 0
          /\ Whether(pc = "decoding")' = 1
        BY <2>2 DEF Discarded, Whether
    <3>2. Len(completionQueue) \in Nat
        BY <1>0
    <3> QED
        BY <2>1, <2>2, <3>1, <3>2 DEF Accounts, Fates
  <2>5. Frames' /\ Deliveries'
      BY <2>2 DEF Accounts, Frames, Deliveries
  <2> QED
      BY <2>3, <2>4, <2>5 DEF Accounts
<1>6. CASE UsbError \/ ShortRead \/ DecodeFails \/ DecoderRaises
  <2>1. /\ pc = "decoding" /\ pc' = "recycling"
        /\ UNCHANGED <<nextSequence, completionQueue, outputQueue, posted, taken>>
      BY <1>6 DEF UsbError, ShortRead, DecodeFails, DecoderRaises, Discard, InHand
  <2>2. /\ stats'.submitted = stats.submitted
        /\ stats'.completed = stats.completed /\ stats'.decoded = stats.decoded
        /\ stats'.delivered = stats.delivered
        /\ stats'.dropped_decoded = stats.dropped_decoded
      BY <1>0, <1>6 DEF UsbError, ShortRead, DecodeFails, DecoderRaises, Discard, Counters
  <2>3. Discarded \in Nat /\ Discarded' = Discarded + 1
    <3>1. /\ stats.usb_errors \in Nat /\ stats.dropped_raw \in Nat
          /\ stats.decode_errors \in Nat /\ escaped \in Nat
        BY <1>0
    <3>2. CASE UsbError
      <4>1. /\ stats'.usb_errors = stats.usb_errors + 1 /\ escaped' = escaped
            /\ stats'.dropped_raw = stats.dropped_raw
            /\ stats'.decode_errors = stats.decode_errors
          BY <1>0, <3>2 DEF UsbError, Discard, Counters
      <4> QED
          BY ONLY <3>1, <4>1 DEF Discarded
    <3>3. CASE ShortRead
      <4>1. /\ stats'.dropped_raw = stats.dropped_raw + 1 /\ escaped' = escaped
            /\ stats'.usb_errors = stats.usb_errors
            /\ stats'.decode_errors = stats.decode_errors
          BY <1>0, <3>3 DEF ShortRead, Discard, Counters
      <4> QED
          BY ONLY <3>1, <4>1 DEF Discarded
    <3>4. CASE DecodeFails
      <4>1. /\ stats'.decode_errors = stats.decode_errors + 1 /\ escaped' = escaped
            /\ stats'.usb_errors = stats.usb_errors
            /\ stats'.dropped_raw = stats.dropped_raw
          BY <1>0, <3>4 DEF DecodeFails, Discard, Counters
      <4> QED
          BY ONLY <3>1, <4>1 DEF Discarded
    <3>5. CASE DecoderRaises
      <4>1. escaped' = escaped + 1 /\ stats' = stats
          BY <3>5 DEF DecoderRaises, Discard
      <4> QED
          BY ONLY <3>1, <4>1 DEF Discarded
    <3> QED
        BY <1>6, <3>2, <3>3, <3>4, <3>5
  <2>4. Issued'
      BY <1>1, <1>2, <2>1, <2>2 DEF Accounts, Issued, Whether
  <2>5. Fates'
    <3>1. Whether(pc = "decoding") = 1 /\ Whether(pc = "decoding")' = 0
        BY <2>1 DEF Whether
    <3>2. /\ stats.completed \in Nat /\ posted \in Nat /\ stats.decoded \in Nat
          /\ Len(completionQueue) \in Nat
        BY <1>0
    <3>3. stats.completed + posted =
              Len(completionQueue) + Whether(pc = "decoding") + Discarded + stats.decoded
        BY DEF Accounts, Fates
    <3>4. stats'.completed + posted' =
              Len(completionQueue') + Whether(pc = "decoding")' + Discarded' + stats'.decoded
        BY ONLY <2>1, <2>2, <2>3, <3>1, <3>2, <3>3
    <3> QED
        BY <3>4 DEF Fates
  <2>6. Frames' /\ Deliveries'
      BY <2>1, <2>2 DEF Accounts, Frames, Deliveries
  <2> QED
      BY <2>4, <2>5, <2>6 DEF Accounts
<1>7. CASE DecodeFrame
  <2> DEFINE frame == [sequence |-> current.sequence, data |-> buffer[current.slot]]
             kept == Whether(Retains(outputQueue))
             lost == Whether(Drops(outputQueue))
  <2>1. /\ pc = "decoding" /\ pc' = "recycling"
        /\ UNCHANGED <<nextSequence, completionQueue, posted, taken, escaped>>
        /\ outputQueue' = PutFrame(outputQueue, frame)
        /\ stats' = [stats EXCEPT !.decoded = @ + 1, !.delivered = @ + kept,
                                  !.dropped_decoded = @ + lost]
      BY <1>0, <1>7 DEF DecodeFrame, InHand, Whether
  <2>2. frame \in Frame /\ outputQueue \in Seq(Frame)
    <3>1. current \in RawFrameResult /\ buffer \in [Slots -> Nat \cup {None}]
        BY <1>0, <2>1 DEF TypeOK, EngineTypeOK
    <3> QED
        BY <1>0, <3>1 DEF Frame, RawFrameResult, TypeOK, EngineTypeOK
  <2>3. kept \in {0, 1} /\ lost \in {0, 1}
      BY DEF Whether
  <2> HIDE DEF frame, kept, lost
  <2>4. /\ stats'.submitted = stats.submitted /\ stats'.completed = stats.completed
        /\ stats'.decoded = stats.decoded + 1 /\ stats'.delivered = stats.delivered + kept
        /\ stats'.dropped_decoded = stats.dropped_decoded + lost
        /\ stats'.dropped_raw = stats.dropped_raw
        /\ stats'.usb_errors = stats.usb_errors /\ stats'.decode_errors = stats.decode_errors
      BY <1>0, <2>1 DEF Counters
  <2>5. /\ Len(outputQueue') + lost = Len(outputQueue) + 1
        /\ DropPolicy = "drop_newest" => kept + lost = 1
        /\ DropPolicy # "drop_newest" => kept = 1
      BY <1>0, <2>1, <2>2, PutFrameCounts DEF kept, lost
  <2>6. Len(outputQueue') \in Nat
      BY <1>0, <2>1, <2>2, PutFrameType, LenProperties
  <2>7. Issued'
      BY <1>1, <1>2, <2>1, <2>4 DEF Accounts, Issued, Whether
  <2>8. Fates'
    <3>1. Whether(pc = "decoding") = 1 /\ Whether(pc = "decoding")' = 0
        BY <2>1 DEF Whether
    <3>2. /\ stats.completed \in Nat /\ posted \in Nat /\ stats.decoded \in Nat
          /\ Len(completionQueue) \in Nat
        BY <1>0
    <3>3. Discarded \in Nat /\ Discarded' = Discarded
      <4>1. Discarded' = Discarded
          BY <2>1, <2>4 DEF Discarded
      <4> QED
          BY <1>0, <4>1
    <3>4. stats.completed + posted =
              Len(completionQueue) + Whether(pc = "decoding") + Discarded + stats.decoded
        BY DEF Accounts, Fates
    <3>5. stats'.completed + posted' =
              Len(completionQueue') + Whether(pc = "decoding")' + Discarded' + stats'.decoded
      <4>1. /\ stats'.completed = stats.completed /\ stats'.decoded = stats.decoded + 1
            /\ completionQueue' = completionQueue /\ posted' = posted
          BY <2>1, <2>4
      <4> QED
          BY ONLY <3>1, <3>2, <3>3, <3>4, <4>1
    <3> QED
        BY <3>5 DEF Fates
  <2>9. Frames'
    <3>1. /\ stats.decoded \in Nat /\ stats.dropped_decoded \in Nat /\ taken \in Nat
          /\ Len(outputQueue) \in Nat
        BY <1>0
    <3>2. stats.decoded = Len(outputQueue) + taken + stats.dropped_decoded
        BY DEF Accounts, Frames
    <3>4. /\ taken' = taken /\ lost \in Nat /\ Len(outputQueue') \in Nat
          /\ stats'.decoded = stats.decoded + 1
          /\ stats'.dropped_decoded = stats.dropped_decoded + lost
          /\ Len(outputQueue') + lost = Len(outputQueue) + 1
        BY <2>1, <2>3, <2>4, <2>5, <2>6
    <3>3. stats'.decoded = Len(outputQueue') + taken' + stats'.dropped_decoded
        BY ONLY <3>1, <3>2, <3>4
    <3> QED
        BY <3>3 DEF Frames
  <2>10. Deliveries'
    <3>1. /\ stats.decoded \in Nat /\ stats.dropped_decoded \in Nat
          /\ stats.delivered \in Nat
        BY <1>0
    <3>2. CASE DropPolicy = "drop_newest"
      <4>1. stats.decoded = stats.delivered + stats.dropped_decoded
          BY <3>2 DEF Accounts, Deliveries
      <4>2. stats'.decoded = stats'.delivered + stats'.dropped_decoded
          BY ONLY <2>3, <2>4, <2>5, <3>1, <3>2, <4>1
      <4> QED
          BY <3>2, <4>2 DEF Deliveries
    <3>3. CASE DropPolicy # "drop_newest"
      <4>1. stats.decoded = stats.delivered
          BY <3>1, <3>3 DEF Accounts, Deliveries
      <4>2. stats'.decoded = stats'.delivered + 0
          BY ONLY <2>4, <2>5, <3>1, <3>3, <4>1
      <4> QED
          BY <3>3, <4>2 DEF Deliveries
    <3> QED
        BY <3>2, <3>3
  <2> QED
      BY <2>7, <2>8, <2>9, <2>10 DEF Accounts
<1>8. CASE TakeFrame
  <2>1. Len(outputQueue') = Len(outputQueue) - 1
      BY <1>0, <1>8, HeadTailProperties DEF TakeFrame, TypeOK, EngineTypeOK
  <2>2. /\ taken' = taken + 1
        /\ UNCHANGED <<nextSequence, completionQueue, stats, posted, escaped, pc>>
      BY <1>8 DEF TakeFrame
  <2>3. Issued'
      BY <1>1, <1>2, <2>2 DEF Accounts, Issued, Whether
  <2>4. Fates' /\ Deliveries'
      BY <2>2 DEF Accounts, Fates, Deliveries, Discarded, Whether
  <2>5. Frames'
    <3>1. taken \in Nat /\ Len(outputQueue) \in Nat /\ stats.dropped_decoded \in Nat
        BY <1>0
    <3>2. stats.decoded = Len(outputQueue) + taken + stats.dropped_decoded
        BY DEF Accounts, Frames
    <3>3. stats'.decoded = Len(outputQueue') + taken' + stats'.dropped_decoded
        BY ONLY <2>1, <2>2, <3>1, <3>2
    <3> QED
        BY <3>3 DEF Frames
  <2> QED
      BY <2>3, <2>4, <2>5 DEF Accounts
<1>9. CASE RecycleStopped \/ StartAgain \/ StopAgain
  <2>1. /\ UNCHANGED <<nextSequence, completionQueue, outputQueue, stats, posted, taken,
                       escaped>>
        /\ pc \notin {"submitted", "decoding"} /\ pc' \notin {"submitted", "decoding"}
      BY <1>9 DEF RecycleStopped, StartAgain, StopAgain, engineVars
  <2>2. Fates' /\ Frames' /\ Deliveries'
      BY <2>1, SameFates DEF Accounts
  <2>3. Issued'
      BY <1>1, <1>2, <2>1 DEF Accounts, Issued, Whether
  <2> QED
      BY <2>2, <2>3 DEF Accounts
<1>10. CASE Stop
  <2>1. /\ pc = "idle" /\ pc' = "cancel"
        /\ stats' = [stats EXCEPT !.cancelled = @ + InUseCount(slots)]
        /\ UNCHANGED <<nextSequence, completionQueue, outputQueue, posted, taken, escaped>>
      BY <1>10 DEF Stop
  <2>2. stats'.submitted = stats.submitted /\ stats'.completed = stats.completed
      BY <1>0, <2>1 DEF Counters
  <2>3. Issued'
      BY <1>1, <1>2, <2>1, <2>2 DEF Accounts, Issued, Whether
  <2>4. InUseCount(slots) \in Nat
    <3>1. 0 \in Slots /\ 0 \in Nat
        BY BufferPoolAssumption DEF Slots
    <3> QED
        BY <3>1, PoolTypes DEF TypeOK, EngineTypeOK
  <2>5. Fates' /\ Frames' /\ Deliveries'
      BY <2>1, <2>4, SameFates DEF Accounts
  <2> QED
      BY <2>3, <2>5 DEF Accounts
<1> QED
    BY <1>3, <1>4, <1>5, <1>6, <1>7, <1>8, <1>9, <1>10 DEF CallerAlone, CallerStep

\* The submissions of start() and of process_completed(), accepted or refused.  One
\* that is accepted puts one more read in flight.
LEMMA AccountsSubmit ==
    ASSUME TypeOK, OwnershipInv, Accounts,
           SubmitFirst \/ SubmitFirstRefused \/ Resubmit \/ ResubmitRefused
    PROVE  Accounts'
<1> USE DEF poolVars, countVars, callerVars
<1>1. /\ UNCHANGED <<stats, completionQueue, outputQueue, posted, taken, escaped, cancelling>>
      /\ pc \notin {"submitted", "decoding"} /\ pc' # "decoding"
      /\ nextSequence' = nextSequence + 1
    BY DEF SubmitFirst, SubmitFirstRefused, Resubmit, ResubmitRefused, StartSlot, Recycle,
           SubmitSlot, SubmitRead, backendVars
<1>2. Fates' /\ Frames' /\ Deliveries'
    BY <1>1, SameFates DEF Accounts
<1>3. ASSUME NEW i \in Slots, ~InFlight(i), SubmitRead(i), pc' = "submitted"
      PROVE  Issued'
  <2>1. Flights' = Flights \cup {i} /\ i \notin Flights
      BY <1>3 DEF Flights, InFlight, SubmitRead, TypeOK, BackendTypeOK
  <2>2. Cardinality(Flights') = Cardinality(Flights) + 1
      BY <2>1, AccountTypes, FS_AddElement
  <2>3. nextSequence \in Nat /\ stats.submitted \in Nat /\ stats.completed \in Nat
        /\ posted \in Nat /\ Cardinality(Flights) \in Nat
      BY AccountTypes
  <2>4. ~cancelling => /\ nextSequence = stats.submitted
                       /\ nextSequence = stats.completed + posted + Cardinality(Flights)
      BY <1>1, <2>3 DEF Accounts, Issued, Whether
  <2>5. ~cancelling' =>
            /\ nextSequence' = stats'.submitted + 1
            /\ nextSequence' = stats'.completed + posted' + Cardinality(Flights')
      BY ONLY <1>1, <2>2, <2>3, <2>4
  <2> QED
      BY <1>3, <2>5 DEF Issued, Whether
<1>4. CASE SubmitFirst
  <2>1. cursor \in Slots /\ ~InFlight(cursor) /\ pc' = "submitted"
      BY <1>4 DEF SubmitFirst, StartSlot, SubmitSlot, TypeOK, EngineTypeOK,
                  OwnershipInv, SlotOwnership
  <2> QED
      BY <1>2, <1>3, <1>4, <2>1 DEF SubmitFirst, Accounts
<1>5. CASE Resubmit
  <2>1. current \in RawFrameResult
      BY <1>5 DEF Resubmit, Recycle, TypeOK, EngineTypeOK
  <2>2. current.slot \in Slots /\ InHandSlot(current.slot) /\ pc' = "submitted"
      BY <1>5, <2>1, BufferPoolAssumption
         DEF Resubmit, Recycle, SubmitSlot, RawFrameResult, InHandSlot
  <2>3. ~InFlight(current.slot)
      BY <2>2 DEF OwnershipInv, SlotOwnership
  <2> QED
      BY <1>2, <1>3, <1>5, <2>2, <2>3 DEF Resubmit, Accounts
<1>6. CASE SubmitFirstRefused \/ ResubmitRefused
  <2>1. cancelling
      BY <1>6 DEF SubmitFirstRefused, ResubmitRefused, Accepting, OwnershipInv
  <2> QED
      BY <1>1, <1>2, <2>1 DEF Accounts, Issued
<1> QED
    BY <1>4, <1>5, <1>6

\* The steps of stop() count nothing.
LEMMA AccountsStop ==
    ASSUME TypeOK, Accounts,
           CancelTransfers \/ DrainTransfers \/ DrainRaises \/ FinishStop \/ ReleaseRaises
    PROVE  Accounts'
<1> USE DEF poolVars, countVars, callerVars
<1>1. /\ UNCHANGED <<nextSequence, stats, completionQueue, outputQueue, posted, taken,
                     escaped, transfer>>
      /\ pc \notin {"submitted", "decoding"} /\ pc' \notin {"submitted", "decoding"}
      /\ cancelling => cancelling'
    BY DEF CancelTransfers, DrainTransfers, DrainRaises, FinishStop, ReleaseRaises,
           StopStep, StopRelease, CancelAll, ReleaseBackend, backendVars
<1>2. Fates' /\ Frames' /\ Deliveries'
    BY <1>1, SameFates DEF Accounts
<1>3. Flights' = Flights
    BY <1>1 DEF Flights, InFlight
<1>4. Issued'
    BY <1>1, <1>3 DEF Accounts, Issued, Whether
<1> QED
    BY <1>2, <1>4 DEF Accounts

\* A read that ends stays in flight until its callback, unless it is cancelled.
LEMMA AccountsRead ==
    ASSUME TypeOK, Accounts, NEW i \in Slots, ReadSettles(i) \/ ReadAbandoned(i)
    PROVE  Accounts'
<1> USE DEF poolVars, countVars, callerVars
<1>1. /\ UNCHANGED <<nextSequence, stats, completionQueue, outputQueue, posted, taken,
                     escaped, pc, cancelling>>
    BY DEF ReadSettles, ReadAbandoned, BufferOnly, Settle, Abandon
<1>2. Fates' /\ Frames' /\ Deliveries'
    BY <1>1, SameFates DEF Accounts
<1>3. CASE ReadSettles(i)
  <2>1. Flights' = Flights
      BY <1>3 DEF ReadSettles, Settle, Flights, InFlight, Outcomes, TypeOK, BackendTypeOK
  <2> QED
      BY <1>1, <1>2, <2>1 DEF Accounts, Issued, Whether
<1>4. CASE ReadAbandoned(i)
    BY <1>1, <1>2, <1>4 DEF ReadAbandoned, Abandon, Accounts, Issued
<1> QED
    BY <1>3, <1>4

\* A callback takes a read out of flight and posts its result; there is room for it.
LEMMA AccountsComplete ==
    ASSUME TypeOK, OwnershipInv, Accounts, NEW i \in Slots, Complete(i)
    PROVE  Accounts'
<1> USE DEF poolVars, countVars, callerVars
<1>1. /\ InFlight(i) /\ transfer[i] \in Outcomes
      /\ transfer' = [transfer EXCEPT ![i] = "idle"]
      /\ PostResult(i, transfer[i])
      /\ UNCHANGED <<cancelling, nextSequence, outputQueue, taken, escaped, pc>>
    BY DEF Complete, Callback, PostResult, InFlight, Outcomes
<1>2. Len(completionQueue) < RawSlots
    BY <1>1, RoomForOneMore DEF OwnershipInv
<1>3. /\ stats' = stats /\ posted' = posted + 1
      /\ Len(completionQueue') = Len(completionQueue) + 1
  <2> DEFINE sequence == IF slots[i].sequence = None THEN 0 ELSE slots[i].sequence
             result == [slot |-> i, outcome |-> transfer[i], sequence |-> sequence]
  <2>1. ~(Len(completionQueue) >= RawSlots)
      BY <1>2, AccountTypes, BufferPoolAssumption
  <2>2. /\ completionQueue' = Append(completionQueue, result)
        /\ stats' = stats /\ posted' = posted + 1
      BY <1>1, <2>1 DEF PostResult
  <2>3. result \in RawFrameResult /\ completionQueue \in Seq(RawFrameResult)
      BY <1>1 DEF RawFrameResult, RawFrameSlot, TypeOK, EngineTypeOK
  <2> HIDE DEF result
  <2> QED
      BY <2>2, <2>3, AppendProperties
<1>4. /\ posted \in Nat /\ Len(completionQueue) \in Nat /\ Cardinality(Flights) \in Nat
      /\ IsFiniteSet(Flights) /\ stats.completed \in Nat /\ nextSequence \in Nat
    BY AccountTypes
<1>5. Cardinality(Flights') = Cardinality(Flights) - 1
  <2>1. Flights' = Flights \ {i} /\ i \in Flights
      BY <1>1 DEF Flights, InFlight, TypeOK, BackendTypeOK
  <2> QED
      BY <1>4, <2>1, FS_RemoveElement
<1>6. Issued'
  <2>1. ~cancelling => nextSequence = stats.completed + posted + Cardinality(Flights)
      BY DEF Accounts, Issued
  <2>2. ~cancelling' => nextSequence' = stats'.completed + posted' + Cardinality(Flights')
    <3>1. /\ cancelling' = cancelling /\ nextSequence' = nextSequence
          /\ stats'.completed = stats.completed /\ posted' = posted + 1
        BY <1>1, <1>3
    <3>2. /\ posted \in Nat /\ Cardinality(Flights) \in Nat /\ stats.completed \in Nat
          /\ Cardinality(Flights') = Cardinality(Flights) - 1
        BY <1>4, <1>5
    <3> QED
        BY ONLY <2>1, <3>1, <3>2
  <2> QED
      BY <1>1, <1>3, <2>2 DEF Accounts, Issued, Whether
<1>7. Fates'
  <2>1. /\ Discarded \in Nat /\ Discarded' = Discarded /\ stats.decoded \in Nat
        /\ Whether(pc = "decoding") \in Nat
        /\ Whether(pc = "decoding")' = Whether(pc = "decoding")
    <3>1. Discarded' = Discarded /\ Whether(pc = "decoding")' = Whether(pc = "decoding")
        BY <1>1, <1>3 DEF Discarded, Whether
    <3>2. Whether(pc = "decoding") \in Nat
        BY DEF Whether
    <3> QED
        BY <3>1, <3>2, AccountTypes
  <2>2. stats.completed + posted =
            Len(completionQueue) + Whether(pc = "decoding") + Discarded + stats.decoded
      BY DEF Accounts, Fates
  <2>3. stats'.completed + posted' =
            Len(completionQueue') + Whether(pc = "decoding")' + Discarded' + stats'.decoded
    <3>1. /\ posted \in Nat /\ Len(completionQueue) \in Nat /\ stats.completed \in Nat
          /\ stats'.completed = stats.completed /\ stats'.decoded = stats.decoded
          /\ posted' = posted + 1 /\ Len(completionQueue') = Len(completionQueue) + 1
        BY <1>3, <1>4
    <3>2. stats'.completed + posted' = (stats.completed + posted) + 1
        BY ONLY <3>1
    <3>3. Len(completionQueue') + Whether(pc = "decoding")' + Discarded' + stats'.decoded
              = (Len(completionQueue) + Whether(pc = "decoding") + Discarded
                    + stats.decoded) + 1
        BY ONLY <2>1, <3>1
    <3> QED
        BY ONLY <2>2, <3>2, <3>3
  <2> QED
      BY <2>3 DEF Fates
<1>8. Frames' /\ Deliveries'
    BY <1>1, <1>3 DEF Accounts, Frames, Deliveries
<1> QED
    BY <1>6, <1>7, <1>8 DEF Accounts

\* The callback that posted a result counts it as completed.
LEMMA AccountsCounted ==
    ASSUME TypeOK, Accounts, CompletionCounted
    PROVE  Accounts'
<1> USE DEF poolVars, countVars, callerVars
<1>1. /\ UNCHANGED <<nextSequence, completionQueue, outputQueue, taken, escaped, pc,
                     transfer, cancelling>>
      /\ posted > 0 /\ posted' = posted - 1
      /\ stats' = [stats EXCEPT !.completed = @ + 1]
    BY DEF CompletionCounted, CountCompleted, backendVars
<1>2. stats \in Counters /\ stats.completed \in Nat /\ posted \in Nat
    BY AccountTypes
<1>3. /\ stats'.submitted = stats.submitted /\ stats'.completed = stats.completed + 1
      /\ stats'.decoded = stats.decoded
      /\ stats'.delivered = stats.delivered /\ stats'.dropped_raw = stats.dropped_raw
      /\ stats'.dropped_decoded = stats.dropped_decoded
      /\ stats'.usb_errors = stats.usb_errors /\ stats'.decode_errors = stats.decode_errors
    BY <1>1, <1>2 DEF Counters
<1>4. stats'.completed + posted' = stats.completed + posted
    BY ONLY <1>1, <1>2, <1>3
<1>5. Flights' = Flights
    BY <1>1 DEF Flights, InFlight
<1>6. Discarded' = Discarded
    BY <1>1, <1>3 DEF Discarded
<1>7. Issued'
    BY <1>1, <1>3, <1>4, <1>5 DEF Accounts, Issued, Whether
<1>8. Fates'
    BY <1>1, <1>3, <1>4, <1>6 DEF Accounts, Fates, Whether
<1>9. Frames' /\ Deliveries'
    BY <1>1, <1>3 DEF Accounts, Frames, Deliveries
<1> QED
    BY <1>7, <1>8, <1>9 DEF Accounts

\* Every step keeps the accounts.
LEMMA AccountsNext == TypeOK /\ OwnershipInv /\ Accounts /\ [Next]_vars => Accounts'
<1> SUFFICES ASSUME TypeOK, OwnershipInv, Accounts, [Next]_vars
             PROVE  Accounts'
    OBVIOUS
<1>1. CASE UNCHANGED vars
  <2>1. /\ UNCHANGED <<nextSequence, stats, completionQueue, outputQueue, posted, taken,
                       escaped, pc, cancelling, transfer>>
      BY <1>1 DEF vars, engineVars, backendVars, poolVars, countVars, callerVars
  <2>2. Flights' = Flights
      BY <2>1 DEF Flights, InFlight
  <2> QED
      BY <2>1, <2>2
         DEF Accounts, Issued, Fates, Frames, Deliveries, Discarded, Whether
<1> QED
    BY <1>1, AccountsCaller, AccountsSubmit, AccountsStop, AccountsRead, AccountsComplete,
       AccountsCounted
       DEF Next, Caller, Transfer

\* The counters account for every read, whatever the interleaving of the caller with
\* the callbacks that count on the backend's threads.
THEOREM CountersAccountForReads == Spec => []StatsConservation
<1>1. IndInv /\ Accounts /\ [Next]_vars => Accounts'
    BY AccountsNext DEF IndInv
<1>2. IndInv /\ Accounts => StatsConservation
    BY AccountsAreConservation DEF IndInv
<1> QED
    BY AccountsInit, InductiveInvariant, <1>1, <1>2, PTL DEF Spec

--------------------------------------------------------------------------------
(* The sequence numbers                                                     *)

\* The numbers of the results or frames of a queue, of the result in hand and of the
\* reads in flight.
Numbers(q) == {q[k].sequence : k \in DOMAIN q}
Distinct(q) == \A j, k \in DOMAIN q : q[j].sequence = q[k].sequence => j = k
Hand == IF pc = "decoding" THEN {current.sequence} ELSE {}
Flying == {slots[i].sequence : i \in Flights}

\* A number at one place of the pipeline is at no other, and has been given out.
NumbersInv ==
    /\ \A n \in Numbers(outputQueue) \cup Numbers(completionQueue) \cup Hand \cup Flying :
          n \in Nat /\ n < nextSequence
    /\ Distinct(outputQueue)
    /\ Distinct(completionQueue)
    /\ \A i, j \in Flights : slots[i].sequence = slots[j].sequence => i = j
    /\ Numbers(outputQueue) \cap Numbers(completionQueue) = {}
    /\ Numbers(outputQueue) \cap Hand = {}
    /\ Numbers(outputQueue) \cap Flying = {}
    /\ Numbers(completionQueue) \cap Hand = {}
    /\ Numbers(completionQueue) \cap Flying = {}
    /\ Hand \cap Flying = {}

\* An element with a number of its own keeps the numbers of a queue distinct.
LEMMA AppendNumbers ==
    ASSUME NEW S, NEW q \in Seq(S), NEW e \in S
    PROVE  /\ Numbers(Append(q, e)) = Numbers(q) \cup {e.sequence}
           /\ Distinct(q) /\ e.sequence \notin Numbers(q) => Distinct(Append(q, e))
<1> DEFINE p == Append(q, e)
<1>1. /\ p \in Seq(S) /\ Len(p) = Len(q) + 1 /\ Len(q) \in Nat
      /\ \A k \in 1 .. Len(q) : p[k] = q[k]
      /\ p[Len(q) + 1] = e
    BY AppendProperties, LenProperties
<1>2. DOMAIN q = 1 .. Len(q) /\ DOMAIN p = 1 .. Len(q) + 1
    BY <1>1, LenProperties
<1> HIDE DEF p
<1>3. \A k \in DOMAIN p : k \in DOMAIN q \/ k = Len(q) + 1
    BY <1>1, <1>2
<1>4. /\ \A k \in DOMAIN q : k \in DOMAIN p /\ p[k] = q[k]
      /\ Len(q) + 1 \in DOMAIN p
    BY <1>1, <1>2
<1>5. Numbers(p) = Numbers(q) \cup {e.sequence}
    BY <1>1, <1>3, <1>4 DEF Numbers
<1>6. Distinct(q) /\ e.sequence \notin Numbers(q) => Distinct(p)
    BY <1>1, <1>3, <1>4 DEF Distinct, Numbers
<1> QED
    BY <1>5, <1>6 DEF p

\* Taking the oldest element of a queue of distinct numbers takes its number.
LEMMA TailNumbers ==
    ASSUME NEW S, NEW q \in Seq(S), q # <<>>
    PROVE  /\ Head(q).sequence \in Numbers(q)
           /\ Numbers(Tail(q)) \subseteq Numbers(q)
           /\ Distinct(q) => /\ Distinct(Tail(q))
                             /\ Head(q).sequence \notin Numbers(Tail(q))
<1>1. /\ Tail(q) \in Seq(S) /\ Len(Tail(q)) = Len(q) - 1 /\ Len(q) \in Nat \ {0}
      /\ Head(q) = q[1]
      /\ \A k \in 1 .. Len(Tail(q)) : Tail(q)[k] = q[k + 1]
    BY HeadTailProperties, EmptySeq
<1>2. DOMAIN q = 1 .. Len(q) /\ DOMAIN Tail(q) = 1 .. Len(q) - 1
    BY <1>1, LenProperties
<1>3. /\ 1 \in DOMAIN q
      /\ \A k \in DOMAIN Tail(q) : /\ k \in Nat /\ k # 0
                                   /\ Tail(q)[k] = q[k + 1] /\ k + 1 \in DOMAIN q
    BY <1>1, <1>2
<1>4. Head(q).sequence \in Numbers(q)
    BY <1>1, <1>3 DEF Numbers
<1>5. Numbers(Tail(q)) \subseteq Numbers(q)
    BY <1>3 DEF Numbers
<1>6. ASSUME Distinct(q) PROVE Distinct(Tail(q))
    <2> SUFFICES ASSUME NEW j \in DOMAIN Tail(q), NEW k \in DOMAIN Tail(q),
                        Tail(q)[j].sequence = Tail(q)[k].sequence
                 PROVE  j = k
        BY DEF Distinct
    <2>1. j + 1 = k + 1
        BY <1>3, <1>6 DEF Distinct
    <2> QED
        BY <1>3, <2>1
<1>7. ASSUME Distinct(q) PROVE Head(q).sequence \notin Numbers(Tail(q))
    <2> SUFFICES ASSUME NEW k \in DOMAIN Tail(q), Tail(q)[k].sequence = q[1].sequence
                 PROVE  FALSE
        BY <1>1 DEF Numbers
    <2>1. k + 1 = 1
        BY <1>3, <1>7 DEF Distinct
    <2> QED
        BY <1>3, <2>1
<1> QED
    BY <1>4, <1>5, <1>6, <1>7

\* Delivering a frame with a number of its own, whatever is dropped for it.
LEMMA PutFrameNumbers ==
    ASSUME NEW q \in Seq(Frame), NEW frame \in Frame, Distinct(q),
           frame.sequence \notin Numbers(q)
    PROVE  /\ Distinct(PutFrame(q, frame))
           /\ Numbers(PutFrame(q, frame)) \subseteq Numbers(q) \cup {frame.sequence}
<1>1. Full(q) => q # <<>>
    BY FrameQueueAssumption DEF Full
<1>2. Distinct(Append(q, frame)) /\ Numbers(Append(q, frame)) = Numbers(q) \cup {frame.sequence}
    BY AppendNumbers
<1>3. ASSUME q # <<>>
      PROVE  /\ Distinct(Append(Tail(q), frame))
             /\ Numbers(Append(Tail(q), frame)) \subseteq Numbers(q) \cup {frame.sequence}
    <2> DEFINE rest == Tail(q)
    <2>1. rest \in Seq(Frame) /\ Distinct(rest) /\ Numbers(rest) \subseteq Numbers(q)
        BY <1>3, HeadTailProperties, TailNumbers
    <2> HIDE DEF rest
    <2>2. frame.sequence \notin Numbers(rest)
        BY <2>1
    <2>3. /\ Distinct(Append(rest, frame))
          /\ Numbers(Append(rest, frame)) = Numbers(rest) \cup {frame.sequence}
        BY <2>1, <2>2, AppendNumbers
    <2> QED
        BY <2>1, <2>3 DEF rest
<1> QED
    BY <1>1, <1>2, <1>3 DEF PutFrame

\* A step that moves no number leaves them as they are.
LEMMA NumbersFrame ==
    ASSUME NumbersInv, UNCHANGED <<completionQueue, outputQueue, nextSequence>>,
           \A i \in Slots : InFlight(i)' => InFlight(i) /\ slots'[i].sequence = slots[i].sequence,
           Hand' \subseteq Hand
    PROVE  NumbersInv'
<1>1. Flying' \subseteq Flying /\ Flights' \subseteq Flights
    BY DEF Flying, Flights
<1>2. \A i \in Flights' : i \in Flights /\ slots'[i].sequence = slots[i].sequence
    BY DEF Flights
<1>3. Numbers(outputQueue') = Numbers(outputQueue)
      /\ Numbers(completionQueue') = Numbers(completionQueue)
      /\ (Distinct(outputQueue) <=> Distinct(outputQueue'))
      /\ (Distinct(completionQueue) <=> Distinct(completionQueue'))
    OBVIOUS
<1> QED
    BY <1>1, <1>2, <1>3 DEF NumbersInv

\* No read is numbered before the first start().
LEMMA NumbersInit == Init => NumbersInv
<1> SUFFICES ASSUME Init PROVE NumbersInv
    OBVIOUS
<1>1. Flights = {} /\ Flying = {} /\ Hand = {}
    BY DEF Init, EngineInit, BackendInit, Flights, Flying, InFlight, Hand
<1>2. /\ Numbers(outputQueue) = {} /\ Numbers(completionQueue) = {}
      /\ Distinct(outputQueue) /\ Distinct(completionQueue)
    BY DEF Init, EngineInit, Numbers, Distinct
<1> QED
    BY <1>1, <1>2 DEF NumbersInv

\* The caller's steps between calls of the backend.
LEMMA NumbersCaller ==
    ASSUME TypeOK, OwnershipInv, NumbersInv, CallerAlone
    PROVE  NumbersInv'
<1> USE DEF backendVars, poolVars, countVars, callerVars
<1>1. UNCHANGED <<transfer, cancelling, released>>
    BY DEF CallerAlone
<1>2. \A i \in Slots : InFlight(i)' <=> InFlight(i)
    BY <1>1 DEF InFlight
<1>3. CASE Start \/ StartSlotInUse \/ CountSubmitted \/ Stop
    <2>1. /\ UNCHANGED <<slots, completionQueue, outputQueue, nextSequence>>
          /\ pc' # "decoding"
        BY <1>3 DEF Start, StartSlotInUse, CountSubmitted, Stop
    <2> QED
        BY <1>2, <2>1, NumbersFrame DEF Hand
<1>4. CASE UsbError \/ ShortRead \/ DecodeFails \/ DecoderRaises
    <2>1. /\ UNCHANGED <<slots, completionQueue, outputQueue, nextSequence>>
          /\ pc' # "decoding"
        BY <1>4 DEF UsbError, ShortRead, DecodeFails, DecoderRaises, Discard
    <2> QED
        BY <1>2, <2>1, NumbersFrame DEF Hand
<1>5. CASE StartAgain \/ StopAgain
    BY <1>2, <1>5, NumbersFrame DEF StartAgain, StopAgain, engineVars, Hand
<1>6. CASE TakeResult
    <2>1. completionQueue \in Seq(RawFrameResult) /\ completionQueue # <<>>
        BY <1>6 DEF TakeResult, TypeOK, EngineTypeOK
    <2>2. /\ UNCHANGED <<slots, outputQueue, nextSequence>>
          /\ pc' = "decoding" /\ current' = Head(completionQueue)
          /\ completionQueue' = Tail(completionQueue)
        BY <1>6 DEF TakeResult
    <2>3. /\ Hand' = {Head(completionQueue).sequence}
          /\ Flights' = Flights /\ Flying' = Flying
        BY <1>2, <2>2 DEF Hand, Flights, Flying
    <2>4. /\ Hand' \subseteq Numbers(completionQueue)
          /\ Numbers(completionQueue') \subseteq Numbers(completionQueue)
          /\ Distinct(completionQueue') /\ Hand' \cap Numbers(completionQueue') = {}
        BY <2>1, <2>2, <2>3, TailNumbers DEF NumbersInv
    <2>5. Numbers(outputQueue') = Numbers(outputQueue) /\ Distinct(outputQueue')
        BY <2>2 DEF NumbersInv
    <2> QED
        BY <2>2, <2>3, <2>4, <2>5 DEF NumbersInv
<1>7. CASE DecodeFrame
    <2> DEFINE frame == [sequence |-> current.sequence, data |-> buffer[current.slot]]
    <2>1. /\ pc = "decoding" /\ pc' = "recycling"
          /\ UNCHANGED <<slots, completionQueue, nextSequence>>
          /\ outputQueue' = PutFrame(outputQueue, frame)
        BY <1>7 DEF DecodeFrame, InHand
    <2>2. frame \in Frame /\ outputQueue \in Seq(Frame)
        <3>1. current \in RawFrameResult /\ buffer \in [Slots -> Nat \cup {None}]
            BY <2>1 DEF TypeOK, EngineTypeOK
        <3> QED
            BY <3>1 DEF Frame, RawFrameResult, TypeOK, EngineTypeOK
    <2>3. Hand = {frame.sequence} /\ Hand' = {} /\ Flights' = Flights /\ Flying' = Flying
        BY <1>2, <2>1 DEF Hand, Flights, Flying
    <2> HIDE DEF frame
    <2>4. frame.sequence \notin Numbers(outputQueue) /\ Distinct(outputQueue)
        BY <2>3 DEF NumbersInv
    <2>5. /\ Distinct(outputQueue')
          /\ Numbers(outputQueue') \subseteq Numbers(outputQueue) \cup Hand
        BY <2>1, <2>2, <2>3, <2>4, PutFrameNumbers
    <2>6. Numbers(completionQueue') = Numbers(completionQueue) /\ Distinct(completionQueue')
        BY <2>1 DEF NumbersInv
    <2> QED
        BY <2>1, <2>3, <2>5, <2>6 DEF NumbersInv
<1>8. CASE RecycleStopped
    <2>1. current \in RawFrameResult /\ current.slot \in Slots /\ current # None
        BY <1>8, BufferPoolAssumption DEF RecycleStopped, TypeOK, EngineTypeOK, RawFrameResult
    <2>2. ~InFlight(current.slot)
        BY <2>1 DEF OwnershipInv, SlotOwnership, InHandSlot
    <2>3. \A i \in Slots : i # current.slot => slots'[i] = slots[i]
        BY <1>8, <2>1 DEF RecycleStopped, Release, TypeOK, EngineTypeOK
    <2>4. UNCHANGED <<completionQueue, outputQueue, nextSequence>> /\ pc' = "idle"
        BY <1>8 DEF RecycleStopped
    <2> QED
        BY <1>2, <2>2, <2>3, <2>4, NumbersFrame DEF Hand
<1>9. CASE TakeFrame
    <2>1. /\ UNCHANGED <<slots, completionQueue, nextSequence, current, pc>>
          /\ outputQueue # <<>> /\ outputQueue \in Seq(Frame)
          /\ outputQueue' = Tail(outputQueue)
        BY <1>9 DEF TakeFrame, TypeOK, EngineTypeOK
    <2>2. Hand' = Hand /\ Flights' = Flights /\ Flying' = Flying
        BY <1>2, <2>1 DEF Hand, Flights, Flying
    <2>3. Distinct(outputQueue') /\ Numbers(outputQueue') \subseteq Numbers(outputQueue)
        BY <2>1, TailNumbers DEF NumbersInv
    <2>4. Numbers(completionQueue') = Numbers(completionQueue) /\ Distinct(completionQueue')
        BY <2>1 DEF NumbersInv
    <2> QED
        BY <2>1, <2>2, <2>3, <2>4 DEF NumbersInv
<1> QED
    BY <1>3, <1>4, <1>5, <1>6, <1>7, <1>8, <1>9 DEF CallerAlone, CallerStep

\* A submission gives its slot the next number, and leaves the other slots.
LEMMA SubmittedSlot ==
    ASSUME TypeOK, SubmitFirst \/ SubmitFirstRefused \/ Resubmit \/ ResubmitRefused
    PROVE  LET mine == IF pc = "starting" THEN cursor ELSE current.slot
           IN  /\ slots'[mine].sequence = nextSequence
               /\ \A i \in Slots : i # mine => slots'[i] = slots[i]
<1> DEFINE mine == IF pc = "starting" THEN cursor ELSE current.slot
<1>1. /\ mine \in Slots
      /\ slots \in [Slots -> RawFrameSlot] /\ nextSequence \in Nat
    BY BufferPoolAssumption
       DEF SubmitFirst, SubmitFirstRefused, Resubmit, ResubmitRefused, StartSlot, Recycle,
           TypeOK, EngineTypeOK, RawFrameResult
<1>2. PICK pool, accepted : /\ SubmitSlot(pool, mine, accepted)
                            /\ \/ pool = Checkout(slots, mine)
                               \/ pool = Checkout(Release(slots, mine), mine)
    BY DEF SubmitFirst, SubmitFirstRefused, Resubmit, ResubmitRefused, StartSlot, Recycle
<1> HIDE DEF mine
<1>3. pool \in [Slots -> RawFrameSlot]
  <2>1. Release(slots, mine) \in [Slots -> RawFrameSlot]
      BY <1>1, 0 \in Nat, PoolTypes
  <2>2. Checkout(slots, mine) \in [Slots -> RawFrameSlot]
      BY <1>1, 0 \in Nat, PoolTypes
  <2>3. Checkout(Release(slots, mine), mine) \in [Slots -> RawFrameSlot]
      BY <1>1, <2>1, 0 \in Nat, PoolTypes
  <2> QED
      BY <1>2, <2>2, <2>3
<1>4. \A i \in Slots : i # mine => pool[i] = slots[i]
    BY <1>1, <1>2 DEF Checkout, Release
<1>5. slots' = [pool EXCEPT ![mine].sequence = nextSequence]
    BY <1>2 DEF SubmitSlot
<1>6. /\ slots'[mine].sequence = nextSequence
      /\ \A i \in Slots : i # mine => slots'[i] = slots[i]
    BY <1>1, <1>3, <1>4, <1>5 DEF RawFrameSlot
<1> QED
    BY <1>6 DEF mine

\* A submission takes the next number, which is at no place yet.
LEMMA NumbersSubmit ==
    ASSUME TypeOK, OwnershipInv, NumbersInv,
           SubmitFirst \/ SubmitFirstRefused \/ Resubmit \/ ResubmitRefused
    PROVE  NumbersInv'
<1> DEFINE mine == IF pc = "starting" THEN cursor ELSE current.slot
<1>1. /\ mine \in Slots
      /\ pc = "starting" => current = None /\ ~slots[mine].in_use
      /\ pc # "starting" => pc = "recycling" /\ current \in RawFrameResult /\ current # None
    BY BufferPoolAssumption
       DEF SubmitFirst, SubmitFirstRefused, Resubmit, ResubmitRefused, StartSlot, Recycle,
           TypeOK, EngineTypeOK, RawFrameResult
<1>2. /\ slots \in [Slots -> RawFrameSlot] /\ nextSequence \in Nat
      /\ transfer \in [Slots -> {"idle", "pending"} \cup Outcomes]
    BY DEF TypeOK, EngineTypeOK, BackendTypeOK
<1>3. ~InFlight(mine)
    BY <1>1 DEF OwnershipInv, SlotOwnership, InHandSlot
<1>4. /\ UNCHANGED <<completionQueue, outputQueue>> /\ nextSequence' = nextSequence + 1
      /\ pc' # "decoding"
    BY <1>1 DEF SubmitFirst, SubmitFirstRefused, Resubmit, ResubmitRefused, StartSlot,
                Recycle, SubmitSlot
<1>5. /\ slots'[mine].sequence = nextSequence
      /\ \A i \in Slots : i # mine => slots'[i] = slots[i]
    BY SubmittedSlot
<1>6. transfer' = [transfer EXCEPT ![mine] = "pending"] \/ transfer' = transfer
    BY <1>1 DEF SubmitFirst, SubmitFirstRefused, Resubmit, ResubmitRefused, StartSlot,
                Recycle, SubmitRead, backendVars
<1> HIDE DEF mine
<1>7. /\ Flights' \subseteq Flights \cup {mine} /\ mine \notin Flights
      /\ \A i \in Flights : slots'[i].sequence = slots[i].sequence
    BY <1>1, <1>2, <1>3, <1>5, <1>6 DEF Flights, InFlight
<1>8. Flying' \subseteq Flying \cup {nextSequence}
    BY <1>5, <1>7 DEF Flying
<1>9. /\ Numbers(outputQueue') = Numbers(outputQueue) /\ Distinct(outputQueue')
      /\ Numbers(completionQueue') = Numbers(completionQueue) /\ Distinct(completionQueue')
      /\ Hand' = {}
    BY <1>4 DEF NumbersInv, Hand
<1>10. nextSequence \notin Numbers(outputQueue) \cup Numbers(completionQueue) \cup Flying
    BY <1>2 DEF NumbersInv
<1>11. \A n \in Numbers(outputQueue) \cup Numbers(completionQueue) \cup Flying :
          n \in Nat /\ n < nextSequence'
    BY <1>2, <1>4 DEF NumbersInv
<1>12. nextSequence \in Nat /\ nextSequence < nextSequence'
    BY <1>2, <1>4
<1>13. \A i, j \in Flights' : slots'[i].sequence = slots'[j].sequence => i = j
    <2>1. \A i \in Flights : slots'[i].sequence \in Flying
        BY <1>7 DEF Flying
    <2>2. \A i \in Flights : slots'[i].sequence # nextSequence
        BY <1>10, <2>1
    <2> QED
        BY <1>5, <1>7, <2>2 DEF NumbersInv
<1> QED
    BY <1>8, <1>9, <1>10, <1>11, <1>12, <1>13 DEF NumbersInv

\* The steps of stop() free only slots that are not in flight.
LEMMA NumbersStop ==
    ASSUME TypeOK, OwnershipInv, NumbersInv,
           CancelTransfers \/ DrainTransfers \/ DrainRaises \/ FinishStop \/ ReleaseRaises
    PROVE  NumbersInv'
<1> USE DEF StopStep, poolVars, countVars, backendVars
<1>1. CASE CancelTransfers \/ DrainTransfers \/ DrainRaises
    <2>1. /\ UNCHANGED <<slots, transfer, completionQueue, outputQueue, nextSequence>>
          /\ pc' # "decoding"
        BY <1>1 DEF CancelTransfers, DrainTransfers, DrainRaises, CancelAll
    <2> QED
        BY <2>1, NumbersFrame DEF InFlight, Hand
<1>2. CASE FinishStop \/ ReleaseRaises
    <2>1. \A i \in Slots : transfer[i] = "idle"
        BY <1>2 DEF FinishStop, ReleaseRaises, StopRelease, OwnershipInv, AllQuiet, InFlight
    <2>2. /\ UNCHANGED <<transfer, completionQueue, outputQueue, nextSequence>>
          /\ pc' = "idle"
        BY <1>2 DEF FinishStop, ReleaseRaises, StopRelease, ReleaseBackend
    <2> QED
        BY <2>1, <2>2, NumbersFrame DEF InFlight, Hand
<1> QED
    BY <1>1, <1>2

\* A read that ends keeps its number.
LEMMA NumbersRead ==
    ASSUME TypeOK, NumbersInv, NEW i \in Slots, ReadSettles(i) \/ ReadAbandoned(i)
    PROVE  NumbersInv'
<1>1. UNCHANGED <<slots, completionQueue, outputQueue, nextSequence, current, pc>>
    BY DEF ReadSettles, ReadAbandoned, BufferOnly, poolVars, callerVars
<1>2. transfer[i] = "pending" /\ \E t : transfer' = [transfer EXCEPT ![i] = t]
    BY DEF ReadSettles, ReadAbandoned, Settle, Abandon
<1>3. \A j \in Slots : InFlight(j)' => InFlight(j)
    BY <1>2 DEF InFlight, TypeOK, BackendTypeOK
<1> QED
    BY <1>1, <1>3, NumbersFrame DEF Hand

\* A callback moves a number from its slot to the result it posts.
LEMMA NumbersComplete ==
    ASSUME TypeOK, OwnershipInv, BytesInv, NumbersInv, NEW i \in Slots, Complete(i)
    PROVE  NumbersInv'
<1> DEFINE result == [slot |-> i, outcome |-> transfer[i], sequence |-> slots[i].sequence]
<1>1. /\ InFlight(i) /\ transfer[i] \in Outcomes
      /\ transfer' = [transfer EXCEPT ![i] = "idle"]
      /\ PostResult(i, transfer[i])
    BY DEF Complete, Callback, InFlight, Outcomes
<1>2. Len(completionQueue) < RawSlots /\ Len(completionQueue) \in Nat
    BY <1>1, RoomForOneMore, LenProperties DEF OwnershipInv, TypeOK, EngineTypeOK
<1>3. slots[i].sequence # None /\ slots[i].sequence \in Nat
    BY <1>1 DEF BytesInv, TypeOK, EngineTypeOK, RawFrameSlot
<1>4. ~(Len(completionQueue) >= RawSlots)
    BY <1>2, BufferPoolAssumption
<1>5. /\ completionQueue' = Append(completionQueue, result)
      /\ UNCHANGED <<slots, outputQueue, nextSequence, current, pc>>
    BY <1>1, <1>3, <1>4 DEF PostResult, poolVars, callerVars
<1>6. result \in RawFrameResult /\ result.sequence = slots[i].sequence
    BY <1>1, <1>3 DEF RawFrameResult
<1>7. completionQueue \in Seq(RawFrameResult)
    BY DEF TypeOK, EngineTypeOK
<1> HIDE DEF result
<1>8. Flights' = Flights \ {i} /\ i \in Flights
    BY <1>1 DEF Flights, InFlight, TypeOK, BackendTypeOK
<1>9. slots[i].sequence \in Flying
    BY <1>8 DEF Flying
<1>10. Flying' \subseteq Flying \ {slots[i].sequence}
    BY <1>5, <1>8 DEF Flying, NumbersInv
<1>11. /\ Numbers(completionQueue') = Numbers(completionQueue) \cup {slots[i].sequence}
       /\ Distinct(completionQueue')
    <2>1. result.sequence \notin Numbers(completionQueue) /\ Distinct(completionQueue)
        BY <1>6, <1>9 DEF NumbersInv
    <2> QED
        BY <1>5, <1>6, <1>7, <2>1, AppendNumbers
<1>12. /\ Numbers(outputQueue') = Numbers(outputQueue) /\ Distinct(outputQueue')
       /\ Hand' = Hand
    BY <1>5 DEF NumbersInv, Hand
<1> QED
    BY <1>5, <1>8, <1>9, <1>10, <1>11, <1>12 DEF NumbersInv

\* Every step keeps a number at one place.
LEMMA NumbersNext ==
    TypeOK /\ OwnershipInv /\ BytesInv /\ NumbersInv /\ [Next]_vars => NumbersInv'
<1> SUFFICES ASSUME TypeOK, OwnershipInv, BytesInv, NumbersInv, [Next]_vars
             PROVE  NumbersInv'
    OBVIOUS
<1>1. CASE CompletionCounted
    BY <1>1, NumbersFrame
       DEF CompletionCounted, CountCompleted, backendVars, poolVars, callerVars, InFlight, Hand
<1>2. CASE UNCHANGED vars
    BY <1>2, NumbersFrame
       DEF vars, engineVars, backendVars, poolVars, countVars, callerVars, InFlight, Hand
<1> QED
    BY <1>1, <1>2, NumbersCaller, NumbersSubmit, NumbersStop, NumbersRead, NumbersComplete
       DEF Next, Caller, Transfer

\* Distinct values in each of two sequences that share none are distinct in both
\* together.
LEMMA ConcatDistinct ==
    ASSUME NEW S, NEW a \in Seq(S), NEW b \in Seq(S),
           \A j, k \in DOMAIN a : a[j] = a[k] => j = k,
           \A j, k \in DOMAIN b : b[j] = b[k] => j = k,
           \A j \in DOMAIN a, k \in DOMAIN b : a[j] # b[k]
    PROVE  /\ a \o b \in Seq(S)
           /\ \A j, k \in DOMAIN (a \o b) : (a \o b)[j] = (a \o b)[k] => j = k
           /\ \A k \in DOMAIN (a \o b) :
                 \/ \E l \in DOMAIN a : (a \o b)[k] = a[l]
                 \/ \E l \in DOMAIN b : (a \o b)[k] = b[l]
<1> DEFINE c == a \o b
<1>1. /\ c \in Seq(S) /\ Len(c) = Len(a) + Len(b)
      /\ \A k \in 1 .. Len(a) + Len(b) : c[k] = IF k <= Len(a) THEN a[k] ELSE b[k - Len(a)]
    BY ConcatProperties
<1>2. /\ Len(a) \in Nat /\ Len(b) \in Nat
      /\ DOMAIN a = 1 .. Len(a) /\ DOMAIN b = 1 .. Len(b)
      /\ DOMAIN c = 1 .. Len(a) + Len(b)
    BY <1>1, LenProperties
<1> HIDE DEF c
<1>3. \A k \in DOMAIN c : /\ k \in Nat
                          /\ \/ k \in DOMAIN a /\ c[k] = a[k]
                             \/ k - Len(a) \in DOMAIN b /\ c[k] = b[k - Len(a)]
    BY <1>1, <1>2
<1>4. \A j, k \in DOMAIN c : c[j] = c[k] => j = k
    <2> SUFFICES ASSUME NEW j \in DOMAIN c, NEW k \in DOMAIN c, c[j] = c[k]
                 PROVE  j = k
        OBVIOUS
    <2>1. j \in Nat /\ k \in Nat
        BY <1>3
    <2>2. j = k \/ j - Len(a) = k - Len(a)
        BY <1>3
    <2> QED
        BY <1>2, <2>1, <2>2
<1> QED
    BY <1>1, <1>3, <1>4 DEF c

\* A read yields at most one frame: no sequence number is at two places.
LEMMA NumbersAreDistinct == TypeOK /\ NumbersInv => NoDuplicateRead
<1> SUFFICES ASSUME TypeOK, NumbersInv PROVE NoDuplicateRead
    OBVIOUS
<1> DEFINE mid == IF pc = "decoding" THEN <<current.sequence>> ELSE <<>>
           trail == Decoded \o mid \o Completed
<1>1. outputQueue \in Seq(Frame) /\ completionQueue \in Seq(RawFrameResult)
    BY DEF TypeOK, EngineTypeOK
<1>2. /\ Decoded \in Seq(Nat) /\ DOMAIN Decoded = DOMAIN outputQueue
      /\ \A k \in DOMAIN Decoded : Decoded[k] = outputQueue[k].sequence
  <2>1. /\ DOMAIN outputQueue = 1 .. Len(outputQueue) /\ Len(outputQueue) \in Nat
        /\ \A k \in DOMAIN outputQueue : outputQueue[k].sequence \in Nat
      BY <1>1, LenProperties, ElementOfSeq DEF NumbersInv, Numbers
  <2>2. Decoded \in [1 .. Len(outputQueue) -> Nat]
      BY <2>1 DEF Decoded
  <2> QED
      BY <2>1, <2>2 DEF Decoded
<1>3. /\ Completed \in Seq(Nat) /\ DOMAIN Completed = DOMAIN completionQueue
      /\ \A k \in DOMAIN Completed : Completed[k] = completionQueue[k].sequence
  <2>1. /\ DOMAIN completionQueue = 1 .. Len(completionQueue) /\ Len(completionQueue) \in Nat
        /\ \A k \in DOMAIN completionQueue : completionQueue[k].sequence \in Nat
      BY <1>1, LenProperties, ElementOfSeq DEF NumbersInv, Numbers
  <2>2. Completed \in [1 .. Len(completionQueue) -> Nat]
      BY <2>1 DEF Completed
  <2> QED
      BY <2>1, <2>2 DEF Completed
<1>4. /\ mid \in Seq(Nat)
      /\ \A k \in DOMAIN mid : mid[k] \in Hand
      /\ \A j, k \in DOMAIN mid : j = k
  <2>1. CASE pc = "decoding"
    <3>1. current.sequence \in Nat /\ Hand = {current.sequence}
        BY <2>1 DEF NumbersInv, Hand
    <3> QED
        BY <2>1, <3>1
  <2>2. CASE pc # "decoding"
      BY <2>2
  <2> QED
      BY <2>1, <2>2
<1> HIDE DEF mid
<1>5. /\ \A k \in DOMAIN Decoded : Decoded[k] \in Numbers(outputQueue)
      /\ \A k \in DOMAIN Completed : Completed[k] \in Numbers(completionQueue)
      /\ \A j, k \in DOMAIN Decoded : Decoded[j] = Decoded[k] => j = k
      /\ \A j, k \in DOMAIN Completed : Completed[j] = Completed[k] => j = k
  <2>1. /\ \A k \in DOMAIN Decoded : Decoded[k] \in Numbers(outputQueue)
        /\ \A j, k \in DOMAIN Decoded : Decoded[j] = Decoded[k] => j = k
      BY <1>2 DEF NumbersInv, Numbers, Distinct
  <2>2. /\ \A k \in DOMAIN Completed : Completed[k] \in Numbers(completionQueue)
        /\ \A j, k \in DOMAIN Completed : Completed[j] = Completed[k] => j = k
      BY <1>3 DEF NumbersInv, Numbers, Distinct
  <2> QED
      BY <2>1, <2>2
<1> DEFINE front == Decoded \o mid
<1>6. /\ front \in Seq(Nat)
      /\ \A j, k \in DOMAIN front : front[j] = front[k] => j = k
      /\ \A k \in DOMAIN front : front[k] \in Numbers(outputQueue) \cup Hand
  <2>1. \A j \in DOMAIN Decoded, k \in DOMAIN mid : Decoded[j] # mid[k]
      BY <1>4, <1>5 DEF NumbersInv
  <2>2. \A j, k \in DOMAIN mid : mid[j] = mid[k] => j = k
      BY <1>4
  <2>3. /\ front \in Seq(Nat)
        /\ \A j, k \in DOMAIN front : front[j] = front[k] => j = k
        /\ \A k \in DOMAIN front : \/ \E l \in DOMAIN Decoded : front[k] = Decoded[l]
                                   \/ \E l \in DOMAIN mid : front[k] = mid[l]
      BY <1>2, <1>4, <1>5, <2>1, <2>2, ConcatDistinct
  <2> QED
      BY <1>4, <1>5, <2>3
<1> HIDE DEF front
<1>7. /\ \A j, k \in DOMAIN (front \o Completed) :
             (front \o Completed)[j] = (front \o Completed)[k] => j = k
      /\ \A k \in DOMAIN (front \o Completed) :
             (front \o Completed)[k]
                 \in Numbers(outputQueue) \cup Hand \cup Numbers(completionQueue)
  <2>1. \A j \in DOMAIN front, k \in DOMAIN Completed : front[j] # Completed[k]
      BY <1>5, <1>6 DEF NumbersInv
  <2>2. /\ \A j, k \in DOMAIN (front \o Completed) :
               (front \o Completed)[j] = (front \o Completed)[k] => j = k
        /\ \A k \in DOMAIN (front \o Completed) :
               \/ \E l \in DOMAIN front : (front \o Completed)[k] = front[l]
               \/ \E l \in DOMAIN Completed : (front \o Completed)[k] = Completed[l]
      BY <1>3, <1>5, <1>6, <2>1, ConcatDistinct
  <2> QED
      BY <1>5, <1>6, <2>2
<1>8. trail = front \o Completed
    BY DEF front
<1> HIDE DEF trail
<1>9. ASSUME NEW i \in Slots, InFlight(i)
      PROVE  /\ \A k \in DOMAIN trail : trail[k] # slots[i].sequence
             /\ \A j \in Slots : Beyond(j, slots[i].sequence) => j = i
  <2>1. i \in Flights /\ slots[i].sequence \in Flying
      BY <1>9 DEF Flights, Flying
  <2>2. slots[i].sequence \notin Numbers(outputQueue) \cup Hand \cup Numbers(completionQueue)
      BY <2>1 DEF NumbersInv
  <2>3. \A j \in Slots : Beyond(j, slots[i].sequence) => j = i
      BY <2>1 DEF NumbersInv, Beyond, Flights
  <2> QED
      BY <1>7, <1>8, <2>2, <2>3
<1>10. \A j, k \in DOMAIN trail : trail[j] = trail[k] => j = k
    BY <1>7, <1>8
<1> QED
    BY <1>9, <1>10 DEF NoDuplicateRead, trail, mid

\* No read is delivered twice: neither the slots that are reused nor the two queues
\* ever show one sequence number at two places.
THEOREM ReadsAreFoundOnce == Spec => []NoDuplicateRead
<1>1. IndInv /\ NumbersInv /\ [Next]_vars => NumbersInv'
    BY NumbersNext DEF IndInv
<1>2. IndInv /\ NumbersInv => NoDuplicateRead
    BY NumbersAreDistinct DEF IndInv
<1> QED
    BY NumbersInit, InductiveInvariant, <1>1, <1>2, PTL DEF Spec

--------------------------------------------------------------------------------
(* stop() of a backend whose shutdown does not raise                        *)

\* A stopped stream is being shut down, or its handle is closed, or none was started.
StopInv ==
    /\ pc \in {"starting", "submitted"} => running
    /\ ~running => pc \in {"cancel", "drain", "release"} \/ released \/ nextSequence = 0

\* Nothing was started and nothing is to be stopped.
LEMMA StopInit == Init => StopInv
BY DEF Init, EngineInit, StopInv

\* Only Stop clears running, and only the release of the backend ends it.
LEMMA StopNext ==
    ASSUME TypeOK, StopInv, [Next]_vars, ShutdownCanFail = FALSE
    PROVE  StopInv'
<1> USE DEF poolVars, countVars, callerVars, backendVars
<1>1. CASE CallerAlone
  <2>1. released' = released /\ nextSequence' = nextSequence
      BY <1>1 DEF CallerAlone, CallerStep, Start, StartSlotInUse, CountSubmitted, TakeResult,
             UsbError, ShortRead, DecodeFrame, DecodeFails, DecoderRaises, Discard,
             RecycleStopped, TakeFrame, Stop, StartAgain, StopAgain, engineVars
  <2>2. CASE Start \/ Stop
      BY <2>1, <2>2 DEF Start, Stop, StopInv
  <2>3. CASE ~(Start \/ Stop)
    <3>1. /\ running' = running
          /\ pc \notin {"cancel", "drain", "release"}
          /\ pc' \in {"starting", "submitted"} => pc = pc' \/ pc = "submitted"
        BY <1>1, <2>3 DEF CallerAlone, CallerStep, StartSlotInUse, CountSubmitted, TakeResult,
             UsbError, ShortRead, DecodeFrame, DecodeFails, DecoderRaises, Discard, InHand,
             RecycleStopped, TakeFrame, StartAgain, StopAgain, engineVars
    <3> QED
        BY <2>1, <3>1 DEF StopInv
  <2> QED
      BY <2>2, <2>3
<1>2. CASE SubmitFirst \/ SubmitFirstRefused \/ Resubmit \/ ResubmitRefused
    BY <1>2 DEF SubmitFirst, SubmitFirstRefused, Resubmit, ResubmitRefused, StartSlot,
                Recycle, SubmitSlot, StopInv
<1>3. CASE CancelTransfers \/ DrainTransfers
    BY <1>3 DEF CancelTransfers, DrainTransfers, StopStep, CancelAll, StopInv
<1>4. CASE DrainRaises \/ ReleaseRaises
    BY <1>4 DEF DrainRaises, ReleaseRaises
<1>5. CASE FinishStop
    BY <1>5 DEF FinishStop, StopRelease, ReleaseBackend, StopInv
<1>6. CASE CompletionCounted \/ UNCHANGED vars
    BY <1>6 DEF CompletionCounted, CountCompleted, vars, engineVars, StopInv
<1>7. ASSUME NEW i \in Slots, Transfer(i)
      PROVE  StopInv'
    BY <1>7 DEF Transfer, ReadSettles, ReadAbandoned, Settle, Abandon, BufferOnly, Complete,
                Callback, PostResult, StopInv
<1> QED
    BY <1>1, <1>2, <1>3, <1>4, <1>5, <1>6, <1>7 DEF Next, Caller

\* With a backend that shuts down without raising, as the worker backend does, a
\* stop() that returns at once has nothing left to do.
THEOREM StopHasNothingToDo ==
    ASSUME ShutdownCanFail = FALSE
    PROVE  Spec => []NoOpStopIsClosed
<1>1. StopInv => NoOpStopIsClosed
    BY DEF StopInv, NoOpStopIsClosed
<1>2. IndInv /\ StopInv /\ [Next]_vars => StopInv'
    BY StopNext DEF IndInv
<1> QED
    BY StopInit, InductiveInvariant, <1>1, <1>2, PTL DEF Spec

--------------------------------------------------------------------------------
(* The promises of FrameStream                                              *)

\* One field of each element of a queue: its numbers, or the bytes of its frames.
Field(q, f) == [k \in DOMAIN q |-> q[k][f]]
HasField(S, f, T) == \A e \in S : e[f] \in T

\* It is a sequence of the same length.
LEMMA FieldSeq ==
    ASSUME NEW S, NEW T, NEW f, HasField(S, f, T), NEW q \in Seq(S)
    PROVE  /\ Field(q, f) \in Seq(T)
           /\ Len(Field(q, f)) = Len(q) /\ Len(q) \in Nat
           /\ \A k \in 1 .. Len(q) : Field(q, f)[k] = q[k][f]
           /\ Field(q, f) = <<>> <=> q = <<>>
<1>1. Len(q) \in Nat /\ DOMAIN q = 1 .. Len(q)
    BY LenProperties
<1>2. \A k \in 1 .. Len(q) : q[k] \in S
    BY ElementOfSeq
<1>3. Field(q, f) \in [1 .. Len(q) -> T]
    BY <1>1, <1>2 DEF Field, HasField
<1>4. Field(q, f) \in Seq(T) /\ DOMAIN Field(q, f) = 1 .. Len(q)
    BY <1>1, <1>3
<1>5. Len(Field(q, f)) = Len(q)
    BY <1>1, <1>4, LenProperties
<1>6. \A k \in 1 .. Len(q) : Field(q, f)[k] = q[k][f]
    BY <1>1 DEF Field
<1>7. (Field(q, f) = <<>> <=> Len(q) = 0) /\ (q = <<>> <=> Len(q) = 0)
    BY <1>4, <1>5, EmptySeq
<1> QED
    BY <1>1, <1>4, <1>5, <1>6, <1>7

\* Appending and taking an element appends and takes its field.
LEMMA FieldAppend ==
    ASSUME NEW S, NEW T, NEW f, HasField(S, f, T), NEW q \in Seq(S), NEW e \in S
    PROVE  Field(Append(q, e), f) = Append(Field(q, f), e[f])
<1> DEFINE p == Append(q, e)
           s == Field(p, f)
           t == Append(Field(q, f), e[f])
<1>1. /\ p \in Seq(S) /\ Len(p) = Len(q) + 1
      /\ \A k \in 1 .. Len(q) : p[k] = q[k]
      /\ p[Len(q) + 1] = e
    BY AppendProperties
<1>2. /\ Field(q, f) \in Seq(T) /\ Len(Field(q, f)) = Len(q) /\ Len(q) \in Nat
      /\ \A k \in 1 .. Len(q) : Field(q, f)[k] = q[k][f]
    BY FieldSeq
<1> HIDE DEF p
<1>3. /\ s \in Seq(T) /\ Len(s) = Len(q) + 1
      /\ \A k \in 1 .. Len(q) + 1 : s[k] = p[k][f]
    BY <1>1, FieldSeq
<1>4. /\ t \in Seq(T) /\ Len(t) = Len(q) + 1
      /\ \A k \in 1 .. Len(q) : t[k] = Field(q, f)[k]
      /\ t[Len(q) + 1] = e[f]
  <2>1. e[f] \in T
      BY DEF HasField
  <2> QED
      BY <1>2, <2>1, AppendProperties
<1> HIDE DEF s, t
<1>5. ASSUME NEW k \in 1 .. Len(s)
      PROVE  s[k] = t[k]
  <2>1. k \in 1 .. Len(q) \/ k = Len(q) + 1
      BY <1>2, <1>3
  <2>2. CASE k \in 1 .. Len(q)
    <3>1. k \in 1 .. Len(q) + 1
        BY <1>3
    <3> QED
        BY <1>1, <1>2, <1>3, <1>4, <2>2, <3>1
  <2>3. CASE k = Len(q) + 1
    <3>1. k \in 1 .. Len(q) + 1
        BY <1>3
    <3> QED
        BY <1>1, <1>3, <1>4, <2>3, <3>1
  <2> QED
      BY <2>1, <2>2, <2>3
<1>6. s = t
    BY <1>3, <1>4, <1>5, SeqEqual
<1> QED
    BY <1>6 DEF s, t, p

LEMMA FieldTail ==
    ASSUME NEW S, NEW T, NEW f, HasField(S, f, T), NEW q \in Seq(S), q # <<>>
    PROVE  /\ Head(Field(q, f)) = Head(q)[f]
           /\ Field(Tail(q), f) = Tail(Field(q, f))
<1> DEFINE p == Tail(q)
           r == Field(q, f)
           s == Field(p, f)
           t == Tail(r)
<1>1. /\ p \in Seq(S) /\ Len(p) = Len(q) - 1 /\ Len(q) \in Nat \ {0}
      /\ \A k \in 1 .. Len(p) : p[k] = q[k + 1]
    BY HeadTailProperties, EmptySeq
<1>2. /\ r \in Seq(T) /\ Len(r) = Len(q) /\ r # <<>>
      /\ \A k \in 1 .. Len(q) : r[k] = q[k][f]
    BY FieldSeq
<1> HIDE DEF p, r
<1>3. s \in Seq(T) /\ Len(s) = Len(p) /\ \A k \in 1 .. Len(p) : s[k] = p[k][f]
    BY <1>1, FieldSeq
<1>4. t \in Seq(T) /\ Len(t) = Len(r) - 1 /\ \A k \in 1 .. Len(t) : t[k] = r[k + 1]
    BY <1>2, HeadTailProperties
<1> HIDE DEF s, t
<1>5. ASSUME NEW k \in 1 .. Len(s)
      PROVE  s[k] = t[k]
  <2>1. k \in 1 .. Len(p) /\ k \in 1 .. Len(t) /\ k + 1 \in 1 .. Len(q)
      BY <1>1, <1>2, <1>3, <1>4
  <2> QED
      BY <1>1, <1>2, <1>3, <1>4, <2>1
<1>6. s = t
    BY <1>1, <1>2, <1>3, <1>4, <1>5, SeqEqual
<1>7. Head(r) = r[1] /\ Head(q) = q[1] /\ 1 \in 1 .. Len(q)
    BY <1>1, <1>2
<1> QED
    BY <1>2, <1>6, <1>7 DEF p, r, s, t

\* The two queues as FrameStream sees them.
Shown(q) == Field(q, "data")
Ended == Field(completionQueue, "sequence")
InDecoding == IF pc = "decoding" THEN <<current.sequence>> ELSE <<>>
Undecoded == InDecoding \o Ended

LEMMA QueueTypes ==
    /\ \A q \in Seq(Frame) : Shown(q) \in Seq(Nat \cup {None}) /\ Len(Shown(q)) = Len(q)
    /\ TypeOK => Ended \in Seq(Nat) /\ Len(Ended) = Len(completionQueue)
<1>1. HasField(Frame, "data", Nat \cup {None})
    BY DEF Frame, HasField
<1>2. HasField(RawFrameResult, "sequence", Nat)
    BY DEF RawFrameResult, HasField
<1>3. ASSUME NEW q \in Seq(Frame)
      PROVE  Shown(q) \in Seq(Nat \cup {None}) /\ Len(Shown(q)) = Len(q)
    BY <1>1, FieldSeq DEF Shown
<1>4. ASSUME TypeOK
      PROVE  Ended \in Seq(Nat) /\ Len(Ended) = Len(completionQueue)
  <2>1. completionQueue \in Seq(RawFrameResult)
      BY <1>4 DEF TypeOK, EngineTypeOK
  <2> QED
      BY <1>2, <2>1, FieldSeq DEF Ended
<1> QED
    BY <1>3, <1>4

\* The policies treat the bytes of the frames as they treat the frames.
LEMMA PutFrameShown ==
    ASSUME NEW q \in Seq(Frame), NEW frame \in Frame
    PROVE  Shown(PutFrame(q, frame)) = PutFrame(Shown(q), frame.data)
<1>1. Len(Shown(q)) = Len(q)
    BY QueueTypes
<1>2. (Full(Shown(q)) <=> Full(q)) /\ (Retains(Shown(q)) <=> Retains(q))
    BY <1>1 DEF Full, Retains
<1>3. HasField(Frame, "data", Nat \cup {None})
    BY DEF Frame, HasField
<1>4. ASSUME NEW p \in Seq(Frame)
      PROVE  Shown(Append(p, frame)) = Append(Shown(p), frame.data)
    BY <1>3, FieldAppend DEF Shown
<1>5. q # <<>> => Tail(q) \in Seq(Frame) /\ Shown(Tail(q)) = Tail(Shown(q))
    BY <1>3, FieldTail, HeadTailProperties DEF Shown
<1>6. Full(q) => q # <<>>
    BY FrameQueueAssumption DEF Full
<1>7. CASE ~Retains(q)
  <2>1. DropPolicy # "drop_oldest"
      BY <1>7 DEF Retains
  <2>2. PutFrame(q, frame) = q
      BY <1>7, <2>1 DEF PutFrame
  <2>3. PutFrame(Shown(q), frame.data) = Shown(q)
      BY <1>2, <1>7, <2>1 DEF PutFrame
  <2> QED
      BY <2>2, <2>3
<1>8. CASE Retains(q) /\ Full(q) /\ DropPolicy = "drop_oldest"
    BY <1>2, <1>4, <1>5, <1>6, <1>8 DEF PutFrame
<1>9. CASE Retains(q) /\ ~(Full(q) /\ DropPolicy = "drop_oldest")
    BY <1>2, <1>4, <1>9 DEF PutFrame
<1> QED
    BY <1>7, <1>8, <1>9

\* A sequence with one element put before it.
LEMMA Prepended ==
    ASSUME NEW S, NEW s \in Seq(S), NEW e \in S
    PROVE  /\ <<e>> \o s \in Seq(S) /\ <<e>> \o s # <<>>
           /\ Head(<<e>> \o s) = e
           /\ Tail(<<e>> \o s) = s
           /\ \A x \in S : Append(<<e>> \o s, x) = <<e>> \o Append(s, x)
<1> DEFINE t == <<e>> \o s
<1>1. <<e>> \in Seq(S) /\ Len(<<e>>) = 1 /\ <<e>>[1] = e
    OBVIOUS
<1>2. /\ t \in Seq(S) /\ Len(t) = 1 + Len(s) /\ Len(s) \in Nat
      /\ \A k \in 1 .. 1 + Len(s) : t[k] = IF k <= 1 THEN <<e>>[k] ELSE s[k - 1]
    BY <1>1, ConcatProperties, LenProperties
<1> HIDE DEF t
<1>3. t # <<>> /\ Head(t) = e
  <2>1. t # <<>>
      BY <1>2, EmptySeq
  <2>2. 1 \in 1 .. 1 + Len(s)
      BY <1>2
  <2>3. t[1] = e
      BY <1>1, <1>2, <2>2
  <2> QED
      BY <1>2, <2>1, <2>3
<1>4. Tail(t) = s
  <2>1. /\ Tail(t) \in Seq(S) /\ Len(Tail(t)) = Len(t) - 1
        /\ \A k \in 1 .. Len(Tail(t)) : Tail(t)[k] = t[k + 1]
      BY <1>2, <1>3, HeadTailProperties
  <2>2. Len(Tail(t)) = Len(s)
      BY <1>2, <2>1
  <2>3. ASSUME NEW k \in 1 .. Len(Tail(t))
        PROVE  Tail(t)[k] = s[k]
    <3>1. k + 1 \in 1 .. 1 + Len(s) /\ ~(k + 1 <= 1) /\ (k + 1) - 1 = k
        BY <1>2, <2>2
    <3> QED
        BY <1>2, <2>1, <3>1
  <2> QED
      BY <2>1, <2>2, <2>3, SeqEqual
<1>5. ASSUME NEW x \in S
      PROVE  Append(t, x) = <<e>> \o Append(s, x)
  <2>1. Append(t, x) = t \o <<x>> /\ Append(s, x) = s \o <<x>> /\ <<x>> \in Seq(S)
      BY <1>2, AppendIsConcat
  <2>2. (<<e>> \o s) \o <<x>> = <<e>> \o (s \o <<x>>)
      BY <1>1, <2>1, ConcatAssociative
  <2> QED
      BY <2>1, <2>2 DEF t
<1> QED
    BY <1>2, <1>3, <1>4, <1>5 DEF t

LEMMA HeadThenTail ==
    ASSUME NEW S, NEW s \in Seq(S), s # <<>>
    PROVE  <<Head(s)>> \o Tail(s) = s
<1> DEFINE r == Tail(s)
           t == <<Head(s)>> \o r
<1>1. /\ r \in Seq(S) /\ Len(r) = Len(s) - 1 /\ Len(s) \in Nat \ {0} /\ Head(s) \in S
      /\ \A k \in 1 .. Len(r) : r[k] = s[k + 1]
    BY HeadTailProperties, EmptySeq
<1> HIDE DEF r
<1>2. t \in Seq(S) /\ t # <<>> /\ Head(t) = Head(s) /\ Tail(t) = r
    BY <1>1, Prepended
<1> HIDE DEF t
<1>3. /\ Len(r) = Len(t) - 1 /\ Len(t) \in Nat \ {0}
      /\ \A k \in 1 .. Len(r) : r[k] = t[k + 1]
    BY <1>2, HeadTailProperties, EmptySeq
<1>4. Len(t) = Len(s)
    BY <1>1, <1>3
<1>5. t[1] = s[1]
    BY <1>2
<1>6. ASSUME NEW k \in 1 .. Len(t)
      PROVE  t[k] = s[k]
  <2>1. k = 1 \/ (k - 1 \in 1 .. Len(r) /\ (k - 1) + 1 = k)
      BY <1>3
  <2> QED
      BY <1>1, <1>3, <1>5, <2>1
<1>7. t = s
    BY <1>2, <1>4, <1>6, SeqEqual
<1> QED
    BY <1>7 DEF t, r

\* What FrameStream sees of a state, and its steps, in terms of the engine.
LEMMA StreamSees ==
    /\ Arrived = Undecoded
    /\ {slots[i].sequence : i \in {j \in Slots : InFlight(j)}} = Flying
    /\ [k \in DOMAIN outputQueue |-> outputQueue[k].data] = Shown(outputQueue)
BY DEF Arrived, Undecoded, InDecoding, Ended, Completed, Field, Flying, Flights, Shown

View == <<nextSequence, Flying, Undecoded, Shown(outputQueue), cancelling>>

LEMMA StreamSteps ==
    /\ Stream!Issue <=>
          /\ ~cancelling /\ Cardinality(Flying) + Len(Undecoded) < RawSlots
          /\ Flying' = Flying \cup {nextSequence} /\ nextSequence' = nextSequence + 1
          /\ UNCHANGED <<Undecoded, Shown(outputQueue), cancelling>>
    /\ Stream!Refuse <=>
          /\ cancelling /\ nextSequence' = nextSequence + 1
          /\ UNCHANGED <<Flying, Undecoded, Shown(outputQueue), cancelling>>
    /\ Stream!Land <=>
          \E s \in Flying :
             /\ Flying' = Flying \ {s}
             /\ \/ Undecoded' = Append(Undecoded, s)
                \/ cancelling /\ UNCHANGED Undecoded
             /\ UNCHANGED <<nextSequence, Shown(outputQueue), cancelling>>
    /\ Stream!Decode <=>
          /\ Undecoded # <<>> /\ Undecoded' = Tail(Undecoded)
          /\ \/ UNCHANGED Shown(outputQueue)
             \/ Shown(outputQueue)' = PutFrame(Shown(outputQueue), Head(Undecoded))
          /\ UNCHANGED <<nextSequence, Flying, cancelling>>
    /\ Stream!Take <=>
          /\ Shown(outputQueue) # <<>> /\ Shown(outputQueue)' = Tail(Shown(outputQueue))
          /\ UNCHANGED <<nextSequence, Flying, Undecoded, cancelling>>
    /\ Stream!Close <=>
          /\ cancelling' = TRUE
          /\ UNCHANGED <<nextSequence, Flying, Undecoded, Shown(outputQueue)>>
    /\ UNCHANGED Stream!streamVars <=> UNCHANGED View
<1>1. \A q, e : Stream!PutFrame(q, e) = PutFrame(q, e)
    BY DEF Stream!PutFrame, PutFrame, Stream!Retains, Retains, Stream!Full, Full
<1>2. /\ Arrived = Undecoded
      /\ {slots[i].sequence : i \in {j \in Slots : InFlight(j)}} = Flying
      /\ [k \in DOMAIN outputQueue |-> outputQueue[k].data] = Shown(outputQueue)
    BY StreamSees
<1>3. (/\ Arrived = Undecoded
       /\ {slots[i].sequence : i \in {j \in Slots : InFlight(j)}} = Flying
       /\ [k \in DOMAIN outputQueue |-> outputQueue[k].data] = Shown(outputQueue))'
    BY StreamSees, PTL
<1> DEFINE out == [k \in DOMAIN outputQueue |-> outputQueue[k].data]
           flying == {slots[i].sequence : i \in {j \in Slots : InFlight(j)}}
<1>11. \A S : Stream!Cardinality(S) = Cardinality(S)
    BY DEF Stream!Cardinality, Cardinality
<1>4. Stream!Issue <=>
         /\ ~cancelling /\ Cardinality(flying) + Len(Arrived) < RawSlots
         /\ flying' = flying \cup {nextSequence} /\ nextSequence' = nextSequence + 1
         /\ UNCHANGED <<Arrived, out, cancelling>>
    BY <1>11 DEF Stream!Issue
<1>5. Stream!Refuse <=>
         /\ cancelling /\ nextSequence' = nextSequence + 1
         /\ UNCHANGED <<flying, Arrived, out, cancelling>>
    BY DEF Stream!Refuse
<1>6. Stream!Land <=>
         \E s \in flying :
            /\ flying' = flying \ {s}
            /\ \/ Arrived' = Append(Arrived, s)
               \/ cancelling /\ UNCHANGED Arrived
            /\ UNCHANGED <<nextSequence, out, cancelling>>
    BY DEF Stream!Land, Stream!Arrive, Stream!Lose
<1>7. Stream!Decode <=>
         /\ Arrived # <<>> /\ Arrived' = Tail(Arrived)
         /\ UNCHANGED out \/ out' = PutFrame(out, Head(Arrived))
         /\ UNCHANGED <<nextSequence, flying, cancelling>>
    BY <1>1 DEF Stream!Decode
<1>8. Stream!Take <=>
         /\ out # <<>> /\ out' = Tail(out)
         /\ UNCHANGED <<nextSequence, flying, Arrived, cancelling>>
    BY DEF Stream!Take
<1>9. Stream!Close <=>
         /\ cancelling' = TRUE
         /\ UNCHANGED <<nextSequence, flying, Arrived, out>>
    BY DEF Stream!Close
<1>10. UNCHANGED Stream!streamVars <=> UNCHANGED <<nextSequence, flying, Arrived, out, cancelling>>
    BY DEF Stream!streamVars
<1> QED
    BY <1>2, <1>3, <1>4, <1>5, <1>6, <1>7, <1>8, <1>9, <1>10 DEF View

\* A slot that is free, or about to be freed, leaves room for its read among the slots.
LEMMA RoomToIssue ==
    ASSUME TypeOK, SlotOwnership, NEW mine \in Slots, ~InFlight(mine), ~Queued(mine),
           pc # "decoding"
    PROVE  Cardinality(Flying) + Len(Undecoded) < RawSlots
<1> DEFINE q == completionQueue
           places == 1 .. Len(q)
           others == Slots \ {mine}
           rest == others \ Flights
           slotAt == [k \in places |-> q[k].slot]
           numberOf == [i \in Flights |-> slots[i].sequence]
<1>1. q \in Seq(RawFrameResult) /\ DOMAIN q = places /\ Len(q) \in Nat
    BY LenProperties DEF TypeOK, EngineTypeOK
<1>2. \A k \in places : q[k].slot \in rest
  <2> SUFFICES ASSUME NEW k \in places
               PROVE  q[k].slot \in rest
      OBVIOUS
  <2>1. q[k] \in RawFrameResult
      BY <1>1, ElementOfSeq
  <2>2. Queued(q[k].slot) /\ q[k].slot \in Slots
      BY <1>1, <2>1 DEF Queued, RawFrameResult
  <2> QED
      BY <2>2 DEF SlotOwnership, Flights
<1>3. slotAt \in Injection(places, rest)
  <2>1. \A j, k \in places : q[j].slot = q[k].slot => j = k
      BY <1>1 DEF SlotOwnership
  <2> QED
      BY <1>2, <2>1 DEF Injection, IsInjective
<1>4. IsFiniteSet(Slots) /\ Cardinality(Slots) = RawSlots
  <2>1. RawSlots - 1 \in Int /\ 0 <= RawSlots - 1 /\ (RawSlots - 1) - 0 + 1 = RawSlots
      BY BufferPoolAssumption
  <2> QED
      BY <2>1, FS_Interval DEF Slots
<1>5. IsFiniteSet(others) /\ Cardinality(others) = RawSlots - 1
    BY <1>4, FS_RemoveElement
<1>6. Flights \in SUBSET others /\ rest \in SUBSET others
    BY DEF Flights
<1>7. IsFiniteSet(Flights) /\ IsFiniteSet(rest)
    BY <1>5, <1>6, FS_Subset
<1>8. Cardinality(Flights) \in Nat /\ Cardinality(rest) \in Nat
    BY <1>7, FS_CardinalityType
<1>9. Cardinality(Flights) + Cardinality(rest) = RawSlots - 1
  <2>1. Flights \cup rest = others /\ Flights \cap rest = {}
      BY <1>6
  <2>2. Cardinality({}) = 0
      BY FS_EmptySet
  <2>3. Cardinality(Flights \cup rest)
            = Cardinality(Flights) + Cardinality(rest) - Cardinality(Flights \cap rest)
      BY <1>7, FS_Union
  <2>4. Cardinality(Flights \cap rest) = 0
      BY <2>1, <2>2
  <2>5. Cardinality(Flights \cup rest) = RawSlots - 1
      BY <1>5, <2>1
  <2> HIDE DEF rest
  <2> QED
      BY <1>8, <2>3, <2>4, <2>5
<1>10. Len(q) <= Cardinality(rest)
  <2>1. Cardinality(places) <= Cardinality(rest)
      BY <1>3, <1>7, FS_Injection
  <2>2. Cardinality(places) = Len(q)
      BY <1>1, FS_Interval
  <2> QED
      BY <2>1, <2>2
<1>11. Cardinality(Flying) <= Cardinality(Flights) /\ Cardinality(Flying) \in Nat
  <2>1. numberOf \in Surjection(Flights, Flying)
      BY DEF Surjection, Flying
  <2>2. IsFiniteSet(Flying) /\ Cardinality(Flying) <= Cardinality(Flights)
      BY <1>7, <2>1, FS_Surjection
  <2> QED
      BY <2>2, FS_CardinalityType
<1>12. Len(Undecoded) = Len(q)
  <2>1. Ended \in Seq(Nat) /\ Len(Ended) = Len(q)
      BY QueueTypes
  <2>2. Undecoded = <<>> \o Ended
      BY DEF Undecoded, InDecoding
  <2> QED
      BY <2>1, <2>2, ConcatEmptySeq
<1> HIDE DEF q, rest
<1> QED
    BY <1>1, <1>8, <1>9, <1>10, <1>11, <1>12, BufferPoolAssumption

\* The undecoded reads, while one is decoded and otherwise.
LEMMA UndecodedIs ==
    ASSUME TypeOK
    PROVE  /\ Ended \in Seq(Nat) /\ Undecoded \in Seq(Nat)
           /\ pc # "decoding" => Undecoded = Ended
           /\ pc = "decoding" =>
                 /\ current.sequence \in Nat
                 /\ Undecoded = <<current.sequence>> \o Ended
<1>1. Ended \in Seq(Nat)
    BY QueueTypes
<1>2. CASE pc = "decoding"
  <2>1. current \in RawFrameResult
      BY <1>2 DEF TypeOK, EngineTypeOK
  <2>2. current.sequence \in Nat
      BY <2>1 DEF RawFrameResult
  <2>3. Undecoded = <<current.sequence>> \o Ended
      BY <1>2 DEF Undecoded, InDecoding
  <2> QED
      BY <1>1, <1>2, <2>2, <2>3, Prepended
<1>3. CASE pc # "decoding"
  <2>1. Undecoded = <<>> \o Ended
      BY <1>3 DEF Undecoded, InDecoding
  <2> QED
      BY <1>1, <1>3, <2>1, ConcatEmptySeq
<1> QED
    BY <1>2, <1>3

Promised == Stream!StreamNext \/ UNCHANGED Stream!streamVars

\* A step that leaves the queues, and of the slots what the reads in flight show.
LEMMA ViewFrame ==
    ASSUME UNCHANGED <<completionQueue, outputQueue>>,
           (pc' # "decoding" /\ pc # "decoding") \/ UNCHANGED <<pc, current>>
    PROVE  UNCHANGED <<Undecoded, Ended, Shown(outputQueue)>>
<1>1. Ended' = Ended /\ Shown(outputQueue)' = Shown(outputQueue)
    BY DEF Ended, Shown, Field
<1>2. InDecoding' = InDecoding
    BY DEF InDecoding
<1> QED
    BY <1>1, <1>2 DEF Undecoded

LEMMA FlyingFrame ==
    ASSUME UNCHANGED transfer,
           \A i \in Slots : InFlight(i) => slots'[i].sequence = slots[i].sequence
    PROVE  Flying' = Flying
<1>1. \A i \in Slots : InFlight(i)' <=> InFlight(i)
    BY DEF InFlight
<1>2. Flights' = Flights
    BY <1>1 DEF Flights
<1>3. \A i \in Flights : slots'[i].sequence = slots[i].sequence
    BY DEF Flights
<1> QED
    BY <1>2, <1>3 DEF Flying

\* The caller's steps between calls of the backend.
LEMMA PromisesCaller ==
    ASSUME IndInv, IndInv', CallerAlone
    PROVE  Promised
<1> USE DEF backendVars, poolVars, countVars, callerVars
<1>0. TypeOK /\ TypeOK' /\ OwnershipInv /\ BytesInv
    BY DEF IndInv
<1>1. UNCHANGED <<transfer, cancelling, released>>
    BY DEF CallerAlone
<1>2. CASE Start \/ StartSlotInUse \/ CountSubmitted \/ Stop \/ StartAgain \/ StopAgain
  <2>1. /\ UNCHANGED <<slots, nextSequence, completionQueue, outputQueue>>
        /\ (pc' # "decoding" /\ pc # "decoding") \/ UNCHANGED <<pc, current>>
      BY <1>2 DEF Start, StartSlotInUse, CountSubmitted, Stop, StartAgain, StopAgain, engineVars
  <2>2. UNCHANGED <<Undecoded, Shown(outputQueue)>> /\ Flying' = Flying
      BY <1>1, <2>1, ViewFrame, FlyingFrame
  <2>3. UNCHANGED View
      BY <1>1, <2>1, <2>2 DEF View
  <2> QED
      BY <2>3, StreamSteps DEF Promised
<1>3. CASE TakeResult
  <2>1. /\ completionQueue # <<>> /\ pc = "idle" /\ pc' = "decoding"
        /\ current' = Head(completionQueue) /\ completionQueue' = Tail(completionQueue)
        /\ UNCHANGED <<slots, nextSequence, outputQueue>>
      BY <1>3 DEF TakeResult
  <2>2. Flying' = Flying /\ Shown(outputQueue)' = Shown(outputQueue)
      BY <1>1, <2>1, FlyingFrame DEF Shown, Field
  <2>3. completionQueue \in Seq(RawFrameResult) /\ HasField(RawFrameResult, "sequence", Nat)
      BY <1>0 DEF TypeOK, EngineTypeOK, RawFrameResult, HasField
  <2>4. /\ Head(Ended) = Head(completionQueue)["sequence"]
        /\ Field(Tail(completionQueue), "sequence") = Tail(Ended)
        /\ Ended # <<>>
      BY <2>1, <2>3, FieldTail, FieldSeq DEF Ended
  <2>5. Undecoded = Ended /\ Ended \in Seq(Nat)
      BY <1>0, <2>1, UndecodedIs
  <2>6. Undecoded' = <<current'.sequence>> \o Ended'
      BY <2>1 DEF Undecoded, InDecoding
  <2>7. Ended' = Tail(Ended) /\ current'.sequence = Head(Ended)
      BY <2>1, <2>4 DEF Ended
  <2>8. Undecoded' = Undecoded
      BY <2>4, <2>5, <2>6, <2>7, HeadThenTail
  <2>9. UNCHANGED View
      BY <1>1, <2>1, <2>2, <2>8 DEF View
  <2> QED
      BY <2>9, StreamSteps DEF Promised
<1>4. CASE UsbError \/ ShortRead \/ DecodeFails \/ DecoderRaises \/ DecodeFrame
  <2>1. /\ pc = "decoding" /\ pc' = "recycling"
        /\ UNCHANGED <<slots, nextSequence, completionQueue>>
      BY <1>4 DEF UsbError, ShortRead, DecodeFails, DecoderRaises, DecodeFrame, InHand, Discard
  <2>2. Flying' = Flying
      BY <1>1, <2>1, FlyingFrame
  <2>3. Ended' = Ended
      BY <2>1 DEF Ended, Field
  <2>4. /\ Undecoded = <<current.sequence>> \o Ended
        /\ Ended \in Seq(Nat) /\ current.sequence \in Nat
      BY <1>0, <2>1, UndecodedIs
  <2>5. Undecoded' = <<>> \o Ended
      BY <2>1, <2>3 DEF Undecoded, InDecoding
  <2>6. Undecoded' = Ended
      BY <2>4, <2>5, ConcatEmptySeq
  <2>7. Undecoded # <<>> /\ Head(Undecoded) = current.sequence /\ Undecoded' = Tail(Undecoded)
      BY <2>4, <2>6, Prepended
  <2>8. \/ Shown(outputQueue)' = Shown(outputQueue)
        \/ Shown(outputQueue)' = PutFrame(Shown(outputQueue), Head(Undecoded))
    <3>1. CASE DecodeFrame
      <4> DEFINE frame == [sequence |-> current.sequence, data |-> buffer[current.slot]]
      <4>1. InHand("full") /\ outputQueue' = PutFrame(outputQueue, frame)
          BY <3>1 DEF DecodeFrame
      <4>2. frame \in Frame /\ outputQueue \in Seq(Frame)
        <5>1. current \in RawFrameResult /\ buffer \in [Slots -> Nat \cup {None}]
            BY <1>0, <2>1 DEF TypeOK, EngineTypeOK
        <5> QED
            BY <1>0, <5>1 DEF Frame, RawFrameResult, TypeOK, EngineTypeOK
      <4>3. frame.data = current.sequence
          BY <1>0, <4>1 DEF BytesInv
      <4> HIDE DEF frame
      <4>4. Shown(PutFrame(outputQueue, frame)) = PutFrame(Shown(outputQueue), frame.data)
          BY <4>2, PutFrameShown
      <4>5. Shown(outputQueue)' = Shown(PutFrame(outputQueue, frame))
          BY <4>1 DEF Shown, Field
      <4> QED
          BY <2>7, <4>3, <4>4, <4>5
    <3>2. CASE ~DecodeFrame
      <4>1. outputQueue' = outputQueue
          BY <1>4, <3>2 DEF UsbError, ShortRead, DecodeFails, DecoderRaises, Discard
      <4> QED
          BY <4>1 DEF Shown, Field
    <3> QED
        BY <3>1, <3>2
  <2>9. Stream!Decode
      BY <1>1, <2>1, <2>2, <2>7, <2>8, StreamSteps
  <2> QED
      BY <2>9 DEF Promised, Stream!StreamNext
<1>5. CASE RecycleStopped
  <2>1. current \in RawFrameResult /\ current.slot \in Slots /\ current # None
      BY <1>0, <1>5, BufferPoolAssumption
         DEF RecycleStopped, TypeOK, EngineTypeOK, RawFrameResult
  <2>2. ~InFlight(current.slot)
      BY <1>0, <2>1 DEF OwnershipInv, SlotOwnership, InHandSlot
  <2>3. \A i \in Slots : i # current.slot => slots'[i] = slots[i]
      BY <1>0, <1>5, <2>1 DEF RecycleStopped, Release, TypeOK, EngineTypeOK
  <2>4. /\ UNCHANGED <<nextSequence, completionQueue, outputQueue>>
        /\ pc' # "decoding" /\ pc # "decoding"
      BY <1>5 DEF RecycleStopped
  <2>5. UNCHANGED <<Undecoded, Shown(outputQueue)>>
      BY <2>4, ViewFrame
  <2>6. Flying' = Flying
      BY <1>1, <2>2, <2>3, FlyingFrame
  <2>7. UNCHANGED View
      BY <1>1, <2>4, <2>5, <2>6 DEF View
  <2> QED
      BY <2>7, StreamSteps DEF Promised
<1>6. CASE TakeFrame
  <2>1. /\ UNCHANGED <<slots, nextSequence, completionQueue, pc, current>>
        /\ outputQueue # <<>> /\ outputQueue \in Seq(Frame)
        /\ outputQueue' = Tail(outputQueue)
      BY <1>0, <1>6 DEF TakeFrame, TypeOK, EngineTypeOK
  <2>2. Flying' = Flying
      BY <1>1, <2>1, FlyingFrame
  <2>3. Undecoded' = Undecoded
      BY <2>1 DEF Undecoded, InDecoding, Ended, Field
  <2>4. HasField(Frame, "data", Nat \cup {None})
      BY DEF Frame, HasField
  <2>5. Shown(outputQueue) # <<>> /\ Shown(Tail(outputQueue)) = Tail(Shown(outputQueue))
      BY <2>1, <2>4, FieldTail, FieldSeq DEF Shown
  <2>6. Shown(outputQueue)' = Shown(Tail(outputQueue))
      BY <2>1 DEF Shown, Field
  <2>7. Stream!Take
      BY <1>1, <2>1, <2>2, <2>3, <2>5, <2>6, StreamSteps
  <2> QED
      BY <2>7 DEF Promised, Stream!StreamNext
<1> QED
    BY <1>2, <1>3, <1>4, <1>5, <1>6 DEF CallerAlone, CallerStep

\* A read that leaves its slot takes its number away from the reads in flight.
LEMMA LandedFlight ==
    ASSUME NumbersInv, NEW i \in Slots, InFlight(i), slots' = slots,
           transfer \in [Slots -> {"idle", "pending"} \cup Outcomes],
           transfer' = [transfer EXCEPT ![i] = "idle"]
    PROVE  /\ Flying' = Flying \ {slots[i].sequence}
           /\ slots[i].sequence \in Flying
<1>1. Flights' = Flights \ {i} /\ i \in Flights
    BY DEF Flights, InFlight
<1>2. \A j \in Flights : slots[j].sequence = slots[i].sequence => j = i
    BY <1>1 DEF NumbersInv
<1> QED
    BY <1>1, <1>2 DEF Flying

\* A submission issues the next read, or is refused once the stream is cancelled.
LEMMA PromisesSubmit ==
    ASSUME IndInv, SubmitFirst \/ SubmitFirstRefused \/ Resubmit \/ ResubmitRefused
    PROVE  Promised
<1> DEFINE mine == IF pc = "starting" THEN cursor ELSE current.slot
<1>0. TypeOK /\ OwnershipInv
    BY DEF IndInv
<1>1. /\ mine \in Slots
      /\ pc = "starting" => current = None /\ ~slots[mine].in_use
      /\ pc # "starting" => pc = "recycling" /\ current \in RawFrameResult /\ current # None
    BY <1>0, BufferPoolAssumption
       DEF SubmitFirst, SubmitFirstRefused, Resubmit, ResubmitRefused, StartSlot, Recycle,
           TypeOK, EngineTypeOK, RawFrameResult
<1>2. /\ ~InFlight(mine)
      /\ ~cancelling => ~Queued(mine)
    BY <1>0, <1>1 DEF OwnershipInv, SlotOwnership, InHandSlot
<1>3. /\ UNCHANGED <<completionQueue, outputQueue, cancelling>>
      /\ nextSequence' = nextSequence + 1
      /\ pc' # "decoding" /\ pc # "decoding"
    BY <1>1 DEF SubmitFirst, SubmitFirstRefused, Resubmit, ResubmitRefused, StartSlot,
                Recycle, SubmitSlot, SubmitRead, backendVars
<1>4. UNCHANGED <<Undecoded, Shown(outputQueue)>>
    BY <1>3, ViewFrame
<1>5. /\ slots'[mine].sequence = nextSequence
      /\ \A i \in Slots : i # mine => slots'[i] = slots[i]
    BY <1>0, SubmittedSlot
<1>6. CASE SubmitFirst \/ Resubmit
  <2>1. /\ ~cancelling /\ transfer' = [transfer EXCEPT ![mine] = "pending"]
        /\ transfer \in [Slots -> {"idle", "pending"} \cup Outcomes]
      BY <1>0, <1>1, <1>6 DEF SubmitFirst, Resubmit, StartSlot, Recycle, SubmitRead, Accepting,
                              TypeOK, BackendTypeOK
  <2>2. Cardinality(Flying) + Len(Undecoded) < RawSlots
      BY <1>0, <1>1, <1>2, <1>3, <2>1, RoomToIssue DEF OwnershipInv
  <2> HIDE DEF mine
  <2>3. Flights' = Flights \cup {mine} /\ mine \notin Flights
      BY <1>1, <1>2, <2>1 DEF Flights, InFlight
  <2>4. \A i \in Flights : slots'[i].sequence = slots[i].sequence
      BY <1>5, <2>3 DEF Flights
  <2>5. Flying' = Flying \cup {nextSequence}
      BY <1>5, <2>3, <2>4 DEF Flying
  <2>6. Stream!Issue
      BY <1>3, <1>4, <2>1, <2>2, <2>5, StreamSteps
  <2> QED
      BY <2>6 DEF Promised, Stream!StreamNext
<1>7. CASE SubmitFirstRefused \/ ResubmitRefused
  <2>1. cancelling /\ transfer' = transfer
      BY <1>0, <1>7 DEF SubmitFirstRefused, ResubmitRefused, Accepting, backendVars, OwnershipInv
  <2> HIDE DEF mine
  <2>2. Flying' = Flying
      BY <1>2, <1>5, <2>1, FlyingFrame
  <2>3. Stream!Refuse
      BY <1>3, <1>4, <2>1, <2>2, StreamSteps
  <2> QED
      BY <2>3 DEF Promised, Stream!StreamNext
<1> QED
    BY <1>6, <1>7

\* Cancelling closes the stream; the other steps of stop() free slots when no read is in
\* flight.
LEMMA PromisesStop ==
    ASSUME IndInv,
           CancelTransfers \/ DrainTransfers \/ DrainRaises \/ FinishStop \/ ReleaseRaises
    PROVE  Promised
<1> USE DEF StopStep, poolVars, countVars, backendVars
<1>0. TypeOK /\ OwnershipInv
    BY DEF IndInv
<1>1. CASE CancelTransfers
  <2>1. /\ UNCHANGED <<slots, transfer, nextSequence, completionQueue, outputQueue>>
        /\ pc' # "decoding" /\ pc # "decoding" /\ cancelling' = TRUE
      BY <1>1 DEF CancelTransfers, CancelAll
  <2>2. UNCHANGED <<Undecoded, Shown(outputQueue)>> /\ Flying' = Flying
      BY <2>1, ViewFrame, FlyingFrame
  <2>3. Stream!Close
      BY <2>1, <2>2, StreamSteps
  <2> QED
      BY <2>3 DEF Promised, Stream!StreamNext
<1>2. CASE DrainTransfers \/ DrainRaises
  <2>1. /\ UNCHANGED <<slots, transfer, nextSequence, completionQueue, outputQueue, cancelling>>
        /\ pc' # "decoding" /\ pc # "decoding"
      BY <1>2 DEF DrainTransfers, DrainRaises
  <2>2. UNCHANGED <<Undecoded, Shown(outputQueue)>> /\ Flying' = Flying
      BY <2>1, ViewFrame, FlyingFrame
  <2>3. UNCHANGED View
      BY <2>1, <2>2 DEF View
  <2> QED
      BY <2>3, StreamSteps DEF Promised
<1>3. CASE FinishStop \/ ReleaseRaises
  <2>1. /\ UNCHANGED <<transfer, nextSequence, completionQueue, outputQueue>>
        /\ pc' # "decoding" /\ pc = "release"
        /\ cancelling' \in {cancelling, TRUE}
      BY <1>3 DEF FinishStop, ReleaseRaises, StopRelease, ReleaseBackend
  <2>2. cancelling = TRUE /\ \A i \in Slots : ~InFlight(i)
      BY <1>0, <2>1 DEF OwnershipInv, AllQuiet, TypeOK, BackendTypeOK
  <2>3. UNCHANGED <<Undecoded, Shown(outputQueue)>> /\ Flying' = Flying
      BY <2>1, <2>2, ViewFrame, FlyingFrame
  <2>4. UNCHANGED View
      BY <2>1, <2>2, <2>3 DEF View
  <2> QED
      BY <2>4, StreamSteps DEF Promised
<1> QED
    BY <1>1, <1>2, <1>3

\* A read that ends is still in flight until its callback, or lost when the stream closes.
LEMMA PromisesRead ==
    ASSUME IndInv, NumbersInv, NEW i \in Slots, ReadSettles(i) \/ ReadAbandoned(i)
    PROVE  Promised
<1>0. transfer \in [Slots -> {"idle", "pending"} \cup Outcomes]
    BY DEF IndInv, TypeOK, BackendTypeOK
<1>1. /\ UNCHANGED <<slots, nextSequence, completionQueue, outputQueue, pc, current, cancelling>>
      /\ transfer[i] = "pending"
    BY DEF ReadSettles, ReadAbandoned, Settle, Abandon, BufferOnly, poolVars, callerVars
<1>2. UNCHANGED <<Undecoded, Shown(outputQueue)>>
    BY <1>1, ViewFrame
<1>3. i \in Flights
    BY <1>1 DEF Flights, InFlight
<1>4. CASE ReadSettles(i)
  <2>1. PICK outcome \in Outcomes : transfer' = [transfer EXCEPT ![i] = outcome]
      BY <1>4 DEF ReadSettles, Settle
  <2>2. \A j \in Slots : InFlight(j)' <=> InFlight(j)
      BY <1>0, <1>1, <2>1 DEF InFlight, Outcomes
  <2>3. Flying' = Flying
    <3>1. Flights' = Flights
        BY <2>2 DEF Flights
    <3> QED
        BY <1>1, <3>1 DEF Flying
  <2>4. UNCHANGED View
      BY <1>1, <1>2, <2>3 DEF View
  <2> QED
      BY <2>4, StreamSteps DEF Promised
<1>5. CASE ReadAbandoned(i)
  <2>1. cancelling /\ transfer' = [transfer EXCEPT ![i] = "idle"]
      BY <1>5 DEF ReadAbandoned, Abandon
  <2>2. Flying' = Flying \ {slots[i].sequence} /\ slots[i].sequence \in Flying
      BY <1>0, <1>1, <1>3, <2>1, LandedFlight DEF Flights
  <2>3. Stream!Land
      BY <1>1, <1>2, <2>1, <2>2, StreamSteps
  <2> QED
      BY <2>3 DEF Promised, Stream!StreamNext
<1> QED
    BY <1>4, <1>5

\* A callback is the arrival of its read.
LEMMA PromisesComplete ==
    ASSUME IndInv, IndInv', NumbersInv, NEW i \in Slots, Complete(i)
    PROVE  Promised
<1> DEFINE result == [slot |-> i, outcome |-> transfer[i], sequence |-> slots[i].sequence]
<1>0. TypeOK /\ TypeOK' /\ OwnershipInv /\ BytesInv
    BY DEF IndInv
<1>1. /\ InFlight(i) /\ transfer[i] \in Outcomes
      /\ transfer' = [transfer EXCEPT ![i] = "idle"]
      /\ PostResult(i, transfer[i])
      /\ UNCHANGED <<pc, current, cancelling, nextSequence, outputQueue>>
    BY DEF Complete, Callback, PostResult, InFlight, Outcomes, callerVars
<1>2. Len(completionQueue) < RawSlots /\ Len(completionQueue) \in Nat
    BY <1>0, <1>1, RoomForOneMore, LenProperties DEF OwnershipInv, TypeOK, EngineTypeOK
<1>3. slots[i].sequence # None /\ slots[i].sequence \in Nat
    BY <1>0, <1>1 DEF BytesInv, TypeOK, EngineTypeOK, RawFrameSlot
<1>4. ~(Len(completionQueue) >= RawSlots)
    BY <1>2, BufferPoolAssumption
<1>5. completionQueue' = Append(completionQueue, result) /\ slots' = slots
    BY <1>1, <1>3, <1>4 DEF PostResult
<1>6. result \in RawFrameResult /\ result["sequence"] = slots[i].sequence
    BY <1>1, <1>3 DEF RawFrameResult
<1> HIDE DEF result
<1>7. Ended' = Append(Ended, slots[i].sequence)
  <2>1. completionQueue \in Seq(RawFrameResult) /\ HasField(RawFrameResult, "sequence", Nat)
      BY <1>0 DEF TypeOK, EngineTypeOK, RawFrameResult, HasField
  <2>2. Field(Append(completionQueue, result), "sequence")
            = Append(Field(completionQueue, "sequence"), result["sequence"])
      BY <1>6, <2>1, FieldAppend
  <2> QED
      BY <1>5, <1>6, <2>2 DEF Ended
<1>8. Undecoded' = Append(Undecoded, slots[i].sequence)
  <2>1. CASE pc = "decoding"
    <3>1. /\ Undecoded = <<current.sequence>> \o Ended
          /\ Ended \in Seq(Nat) /\ current.sequence \in Nat
        BY <1>0, <2>1, UndecodedIs
    <3>2. Undecoded' = <<current.sequence>> \o Ended'
        BY <1>1, <2>1 DEF Undecoded, InDecoding
    <3>3. Append(<<current.sequence>> \o Ended, slots[i].sequence)
              = <<current.sequence>> \o Append(Ended, slots[i].sequence)
        BY <1>3, <3>1, Prepended
    <3> QED
        BY <1>7, <3>1, <3>2, <3>3
  <2>2. CASE pc # "decoding"
    <3>1. Undecoded = Ended /\ Ended \in Seq(Nat)
        BY <1>0, <2>2, UndecodedIs
    <3>2. Undecoded' = <<>> \o Ended'
        BY <1>1, <2>2 DEF Undecoded, InDecoding
    <3>3. Ended' \in Seq(Nat)
        BY <1>3, <1>7, <3>1, AppendProperties
    <3> QED
        BY <1>7, <3>1, <3>2, <3>3, ConcatEmptySeq
  <2> QED
      BY <2>1, <2>2
<1>9. Flying' = Flying \ {slots[i].sequence} /\ slots[i].sequence \in Flying
  <2>1. transfer \in [Slots -> {"idle", "pending"} \cup Outcomes]
      BY <1>0 DEF TypeOK, BackendTypeOK
  <2> QED
      BY <1>1, <1>5, <2>1, LandedFlight
<1>10. Shown(outputQueue)' = Shown(outputQueue)
    BY <1>1 DEF Shown, Field
<1>11. Stream!Land
    BY <1>1, <1>8, <1>9, <1>10, StreamSteps
<1> QED
    BY <1>11 DEF Promised, Stream!StreamNext

\* Each step of the engine on a backend that keeps the protocol.
LEMMA PromisesNext ==
    ASSUME IndInv, IndInv', NumbersInv, [Next]_vars
    PROVE  Promised
<1>1. CASE CompletionCounted \/ UNCHANGED vars
  <2>1. UNCHANGED <<slots, transfer, nextSequence, completionQueue, outputQueue, pc, current,
                    cancelling>>
      BY <1>1 DEF CompletionCounted, CountCompleted, vars, engineVars, backendVars, poolVars,
                  countVars, callerVars
  <2>2. UNCHANGED <<Undecoded, Shown(outputQueue)>> /\ Flying' = Flying
      BY <2>1, ViewFrame, FlyingFrame
  <2>3. UNCHANGED View
      BY <2>1, <2>2 DEF View
  <2> QED
      BY <2>3, StreamSteps DEF Promised
<1> QED
    BY <1>1, PromisesCaller, PromisesSubmit, PromisesStop, PromisesRead, PromisesComplete
       DEF Next, Caller, Transfer

\* The engine starts where the stream does.
LEMMA PromisesInit == Init => Stream!StreamInit
<1> SUFFICES ASSUME Init PROVE Stream!StreamInit
    OBVIOUS
<1>1. /\ nextSequence = 0 /\ cancelling = FALSE /\ pc # "decoding"
      /\ completionQueue = <<>> /\ outputQueue = <<>> /\ \A i \in Slots : ~InFlight(i)
    BY DEF Init, EngineInit, BackendInit, InFlight
<1>2. Flying = {}
    BY <1>1 DEF Flying, Flights
<1>3. Shown(outputQueue) = <<>> /\ Ended = <<>>
    BY <1>1 DEF Shown, Ended, Field
<1>4. Undecoded = <<>>
  <2>1. Undecoded = <<>> \o Ended
      BY <1>1 DEF Undecoded, InDecoding
  <2> QED
      BY <1>3, <2>1
<1> QED
    BY <1>1, <1>2, <1>3, <1>4, StreamSees DEF Stream!StreamInit

\* The engine keeps what FrameStream promises the program, whatever backend that keeps the
\* protocol it runs on, and also where shutdown raises: at most RawSlots reads are
\* outstanding, each arrives at most once, they are decoded in the order of arrival, and
\* each yields at most one frame, which shows its own bytes and is lost only as the policy
\* says.  ImplementsFrameStream without its fairness.
THEOREM KeepsItsPromises ==
    Spec => Stream!StreamInit /\ [][Stream!StreamNext]_(Stream!streamVars)
<1>1. IndInv /\ NumbersInv /\ [Next]_vars => NumbersInv'
    BY NumbersNext DEF IndInv
<1>2. IndInv /\ IndInv' /\ NumbersInv /\ [Next]_vars
         => [Stream!StreamNext]_(Stream!streamVars)
    BY PromisesNext DEF Promised
<1> QED
    BY <1>1, <1>2, PromisesInit, NumbersInit, InductiveInvariant, PTL DEF Spec
================================================================================
