------------------------------ MODULE ReaderProofs ------------------------------
(***************************************************************************)
(* Theorems about CaptureReader, the object that drives the engine.  They  *)
(* need nothing of who owns a slot: a reader whose submission failed has   *)
(* lost one, and they hold of it as well.                                  *)
(***************************************************************************)
EXTENDS CaptureReader, StreamingProofs

--------------------------------------------------------------------------------
(* The inductive invariant                                                  *)

\* Where the engine is when the reader is at one of its points.  A reader that is open
\* never stops its engine, so an engine that gave out a number runs.
Position ==
    /\ at \in {"idle", "starting", "polling", "draining", "closing"} => pc = "idle"
    /\ at = "launching" => pc \in {"starting", "submitted"}
    /\ at \in {"handling", "raising"} => pc \in {"decoding", "recycling", "submitted"}
    /\ at = "stopping" => pc \in {"cancel", "drain", "release"}
    /\ at # "launching" => cursor = RawSlots
    /\ at \in {"launching", "handling", "raising"} => running
    /\ nextSequence > 0 /\ (~closed \/ at = "closing") => running
    /\ at \in {"closing", "stopping"} => closed
    /\ closed => at \in {"idle", "closing", "stopping"}

\* What engine.stop has reached.
Shutdown ==
    /\ pc \in {"drain", "release"} => cancelling
    /\ pc = "release" \/ released => cancelling /\ AllQuiet

\* A read in flight has a number of its own, that no result waits under, none waited
\* under when read_frame was called, and that was given out.
Numbering ==
    /\ \A i \in Slots : InFlight(i) =>
          /\ slots[i].sequence \in Nat
          /\ slots[i].sequence \notin Waiting \cup waiting
          /\ slots[i].sequence < nextSequence
    /\ \A i, j \in Slots :
          InFlight(i) /\ InFlight(j) /\ slots[i].sequence = slots[j].sequence => i = j
    /\ \A n \in Waiting \cup waiting : n < nextSequence

ReaderInv == ReaderTypeOK /\ Position /\ Shutdown /\ Numbering

\* The results that waited when read_frame was called stand at the head of the queue,
\* and the round takes them all.
Ahead ==
    /\ Len(completionQueue) <= RawSlots
    /\ at \in {"starting", "launching", "polling", "handling", "raising"} =>
          \A k \in DOMAIN completionQueue :
              completionQueue[k].sequence \in waiting => k <= budget
    /\ at = "draining" /\ (budget = 0 \/ nextSequence < MaxSubmits) =>
          waiting \cap Waiting = {}

\* The frame decoded last stands at the end of the output queue until it is handed out;
\* a round begins with no frame in hand.
Newest ==
    /\ at \in {"starting", "launching", "polling", "handling", "raising"} => latest = None
    /\ DropPolicy # "drop_newest" /\ outputQueue # <<>> =>
          outputQueue[Len(outputQueue)].sequence = newest
    /\ DropPolicy # "drop_newest" /\ FrameReturned => latest.sequence = newest

\* When close() returned, stop() went to its end or nothing was ever submitted.
Closing == closed /\ at = "idle" /\ nextSequence > 0 => released

\* Initially nothing was read.
LEMMA ReaderInitially == ReaderInit => ReaderInv /\ Ahead /\ Newest /\ Closing
<1> SUFFICES ASSUME ReaderInit PROVE ReaderInv /\ Ahead /\ Newest /\ Closing
    OBVIOUS
<1>1. TypeOK
    BY TypeInit DEF ReaderInit
<1>2. /\ pc = "idle" /\ nextSequence = 0 /\ ~released /\ cursor = RawSlots
      /\ completionQueue = <<>> /\ \A i \in Slots : ~InFlight(i)
    BY DEF ReaderInit, Init, EngineInit, BackendInit, InFlight
<1>3. Waiting = {} /\ DOMAIN completionQueue = {} /\ Len(completionQueue) = 0
    BY <1>2 DEF Waiting
<1>4. ReaderTypeOK
  <2>1. 0 \in 0 .. ProcessLimit
      BY ReaderAssumption
  <2> QED
      BY <1>1, <2>1 DEF ReaderInit, ReaderTypeOK, ReaderPoints
<1>5. Position /\ Shutdown /\ Numbering
    BY <1>2, <1>3 DEF ReaderInit, Position, Shutdown, Numbering
<1>6. Ahead /\ Newest /\ Closing
  <2>1. outputQueue = <<>>
      BY DEF ReaderInit, Init, EngineInit
  <2> QED
      BY <1>2, <1>3, <2>1, BufferPoolAssumption
         DEF ReaderInit, Ahead, Newest, FrameReturned, Closing
<1> QED
    BY <1>4, <1>5, <1>6 DEF ReaderInv

--------------------------------------------------------------------------------
(* The steps of the reader                                                  *)

\* Inside a method of the engine, the next step is the one pc names.
LEMMA InsideSteps ==
    ASSUME InsideEngine
    PROVE  /\ pc = "starting" =>
                 \/ SubmitFirst
                 \/ (StartSlot(FALSE) \/ StartSlotInUse) /\ UNCHANGED backendVars
           /\ pc = "submitted" => CountSubmitted /\ UNCHANGED backendVars
           /\ pc = "decoding" =>
                 /\ UsbError \/ ShortRead \/ DecodeFrame \/ DecodeFails \/ DecoderRaises
                 /\ UNCHANGED backendVars
           /\ pc = "recycling" =>
                 \/ Resubmit
                 \/ (Recycle(FALSE) \/ RecycleStopped) /\ UNCHANGED backendVars
           /\ pc = "cancel" => CancelTransfers
           /\ pc = "drain" => DrainTransfers \/ DrainRaises
           /\ pc = "release" => FinishStop \/ ReleaseRaises
<1>1. CASE CallerAlone
    BY <1>1 DEF InsideEngine, CallerAlone, CallerStep, Start, StartSlotInUse,
                CountSubmitted, TakeResult, UsbError, ShortRead, DecodeFrame, DecodeFails,
                DecoderRaises, InHand, RecycleStopped, TakeFrame, Stop, StartAgain, StopAgain
<1>2. CASE ~CallerAlone
    BY <1>2 DEF InsideEngine, SubmissionFails, Caller, SubmitFirst, SubmitFirstRefused,
                Resubmit, ResubmitRefused, StartSlot, Recycle, CancelTransfers,
                DrainTransfers, DrainRaises, StopStep, FinishStop, ReleaseRaises, StopRelease
<1> QED
    BY <1>1, <1>2

\* A step of the reader is one of the streaming system, a submission that fails, or
\* leaves the system alone.
LEMMA ReaderDrives ==
    ASSUME [ReaderNext]_readerVars
    PROVE  [Next]_vars \/ SubmissionFails
<1>1. CASE InReadFrame
    BY <1>1 DEF InReadFrame, EnsureStarted, Launch, InsideEngine, Process, HandleResult,
                EndOfRound, DrainFrame, ReturnFrame, Leave, PollAgain, TimesOut, StartAgain,
                CallerAlone, CallerStep, Caller, Next, vars
<1>2. CASE InClose
    BY <1>2 DEF InClose, CallStop, Stopping, InsideEngine, StopAgain, CallerAlone,
                CallerStep, Caller, Next, vars
<1>3. CASE Backend
    BY <1>3 DEF Backend, Next
<1>4. CASE \/ ReadFrame \/ ReadFrameClosed \/ Close \/ CloseAgain \/ UNCHANGED readerVars
    BY <1>4 DEF ReadFrame, ReadFrameClosed, Close, CloseAgain, readerVars
<1> QED
    BY <1>1, <1>2, <1>3, <1>4 DEF ReaderNext

\* Inside a method of the engine, a frame is queued when one is decoded and at no other
\* step, and it is the frame of the result in hand.
LEMMA DecodesOrNot ==
    ASSUME TypeOK, InsideEngine
    PROVE  \/ /\ DecodeFrame
              /\ stats'.decoded > stats.decoded
              /\ current.sequence \in Nat
           \/ stats'.decoded = stats.decoded /\ outputQueue' = outputQueue
<1>0. /\ stats \in Counters
      /\ current \in RawFrameResult \cup {None}
      /\ pc = "decoding" => current # None
    BY DEF TypeOK, EngineTypeOK
<1>1. pc \in {"starting", "submitted", "decoding", "recycling", "cancel", "drain", "release"}
    BY DEF TypeOK, EngineTypeOK, Steps, InsideEngine
<1>2. CASE DecodeFrame
  <2>1. current \in RawFrameResult
      BY <1>0, <1>2 DEF DecodeFrame, InHand
  <2>2. stats'.decoded = stats.decoded + 1 /\ stats.decoded \in Nat
      BY <1>0, <1>2 DEF DecodeFrame, Counters
  <2> QED
      BY <1>2, <2>1, <2>2 DEF RawFrameResult
<1>3. CASE ~DecodeFrame /\ pc = "decoding"
  <2>1. UsbError \/ ShortRead \/ DecodeFails \/ DecoderRaises
      BY <1>3, InsideSteps
  <2> QED
      BY <1>0, <2>1 DEF UsbError, ShortRead, DecodeFails, DecoderRaises, Discard, Counters
<1>4. CASE pc \in {"starting", "submitted", "recycling"}
  <2>1. \/ SubmitFirst \/ StartSlot(FALSE) \/ StartSlotInUse \/ CountSubmitted
        \/ Resubmit \/ Recycle(FALSE) \/ RecycleStopped
      BY <1>4, InsideSteps
  <2> QED
      BY <1>0, <2>1 DEF SubmitFirst, StartSlot, StartSlotInUse, CountSubmitted, Resubmit,
                        Recycle, RecycleStopped, countVars, Counters
<1>5. CASE pc \in {"cancel", "drain", "release"}
  <2>1. \/ CancelTransfers \/ DrainTransfers \/ DrainRaises \/ FinishStop \/ ReleaseRaises
      BY <1>5, InsideSteps
  <2> QED
      BY <2>1 DEF CancelTransfers, DrainTransfers, DrainRaises, FinishStop, ReleaseRaises,
                  StopStep, StopRelease, countVars
<1> QED
    BY <1>1, <1>2, <1>3, <1>4, <1>5

\* Every step keeps the types.
LEMMA ReaderTypeNext ==
    ASSUME ReaderTypeOK, [ReaderNext]_readerVars
    PROVE  ReaderTypeOK'
<1>1. TypeOK'
  <2>1. CASE SubmissionFails
    <3>1. EngineTypeOK'
        BY <2>1, TypeSubmit DEF SubmissionFails, ReaderTypeOK, TypeOK
    <3> QED
        BY <2>1, <3>1 DEF SubmissionFails, ReaderTypeOK, TypeOK, BackendTypeOK, backendVars
  <2> QED
      BY <2>1, ReaderDrives, TypeNext DEF ReaderTypeOK
<1>2. waiting' \in SUBSET Nat
  <2>1. completionQueue \in Seq(RawFrameResult)
      BY DEF ReaderTypeOK, TypeOK, EngineTypeOK
  <2>2. \A k \in DOMAIN completionQueue : completionQueue[k].sequence \in Nat
    <3>1. \A k \in DOMAIN completionQueue : completionQueue[k] \in RawFrameResult
        BY <2>1, ElementOfSeq, LenProperties
    <3> QED
        BY <3>1 DEF RawFrameResult
  <2>3. Waiting \in SUBSET Nat
      BY <2>2 DEF Waiting
  <2>4. waiting' \subseteq waiting \/ waiting' = Waiting
      BY DEF ReaderNext, ReadFrame, ReadFrameClosed, InReadFrame, EnsureStarted, Launch,
             Process, HandleResult, EndOfRound, DrainFrame, ReturnFrame, Leave, PollAgain,
             TimesOut, Close, CloseAgain, InClose, CallStop, Stopping, Backend, readerVars,
             callVars
  <2> QED
      BY <2>3, <2>4 DEF ReaderTypeOK
<1>3. latest' \in Frame \cup {None}
  <2>1. CASE DrainFrame
      BY <2>1, HeadTailProperties DEF DrainFrame, TakeFrame, ReaderTypeOK, TypeOK,
                                      EngineTypeOK
  <2>2. CASE ~DrainFrame
    <3>1. latest' \in {latest, None}
        BY <2>2 DEF ReaderNext, ReadFrame, ReadFrameClosed, InReadFrame, EnsureStarted,
                    Launch, Process, HandleResult, EndOfRound, ReturnFrame, Leave, PollAgain,
                    TimesOut, Close, CloseAgain, InClose, CallStop, Stopping, Backend,
                    readerVars, callVars
    <3> QED
        BY <3>1 DEF ReaderTypeOK
  <2> QED
      BY <2>1, <2>2
<1>4. budget' \in 0 .. ProcessLimit
    BY ReaderAssumption
       DEF ReaderTypeOK, ReaderNext, ReadFrame, ReadFrameClosed, InReadFrame, EnsureStarted,
           Launch, Process, CanTake, HandleResult, EndOfRound, DrainFrame, ReturnFrame,
           Leave, PollAgain, TimesOut, Close, CloseAgain, InClose, CallStop, Stopping,
           Backend, readerVars, callVars
<1>5. at' \in ReaderPoints
    BY DEF ReaderTypeOK, ReaderPoints, ReaderNext, ReadFrame, ReadFrameClosed, InReadFrame,
           EnsureStarted, Launch, Process, HandleResult, EndOfRound, DrainFrame,
           ReturnFrame, Leave, PollAgain, TimesOut, Close, CloseAgain, InClose, CallStop,
           Stopping, Backend, readerVars
<1>6. started' \in BOOLEAN /\ closed' \in BOOLEAN
    BY DEF ReaderTypeOK, ReaderNext, ReadFrame, ReadFrameClosed, InReadFrame, EnsureStarted,
           Launch, Process, HandleResult, EndOfRound, DrainFrame, ReturnFrame, Leave,
           PollAgain, TimesOut, Close, CloseAgain, InClose, CallStop, Stopping, Backend,
           readerVars, callVars
<1>7. newest' \in Nat \cup {None}
  <2>1. CASE HandleResult
    <3>1. newest' = IF stats'.decoded > stats.decoded THEN current.sequence ELSE newest
        BY <2>1 DEF HandleResult
    <3>2. InsideEngine /\ TypeOK /\ stats.decoded \in Nat
        BY <2>1 DEF HandleResult, ReaderTypeOK, TypeOK, EngineTypeOK, Counters
    <3> QED
        BY <3>1, <3>2, DecodesOrNot DEF ReaderTypeOK
  <2>2. CASE ~HandleResult
    <3>1. newest' = newest
        BY <2>2 DEF ReaderNext, ReadFrame, ReadFrameClosed, InReadFrame, EnsureStarted,
                    Launch, Process, EndOfRound, DrainFrame, ReturnFrame, Leave, PollAgain,
                    TimesOut, Close, CloseAgain, InClose, CallStop, Stopping, Backend,
                    readerVars, callVars
    <3> QED
        BY <3>1 DEF ReaderTypeOK
  <2> QED
      BY <2>1, <2>2
<1> QED
    BY <1>1, <1>2, <1>3, <1>4, <1>5, <1>6, <1>7 DEF ReaderTypeOK

\* Submitting a slot, accepted or not, gives it the next number.
LEMMA SubmittedSlot ==
    ASSUME TypeOK, NEW accepted \in BOOLEAN, StartSlot(accepted) \/ Recycle(accepted)
    PROVE  \E i \in Slots :
              /\ (pc = "starting" /\ cursor = i) \/ (pc = "recycling" /\ current.slot = i)
              /\ slots'[i].sequence = nextSequence
              /\ \A j \in Slots \ {i} : slots'[j] = slots[j]
              /\ nextSequence' = nextSequence + 1
              /\ UNCHANGED <<running, completionQueue, escaped, outputQueue, posted>>
<1>0. EngineTypeOK /\ None \notin RawFrameResult /\ slots \in [Slots -> RawFrameSlot]
    BY BufferPoolAssumption DEF TypeOK, EngineTypeOK
<1>1. CASE StartSlot(accepted)
  <2>1. cursor \in Slots
      BY <1>0, <1>1 DEF StartSlot, EngineTypeOK
  <2>2. slots' = [Checkout(slots, cursor) EXCEPT ![cursor].sequence = nextSequence]
      BY <1>1 DEF StartSlot, SubmitSlot
  <2>3. /\ slots'[cursor].sequence = nextSequence
        /\ \A j \in Slots \ {cursor} : slots'[j] = slots[j]
      BY <1>0, <2>1, <2>2 DEF Checkout, RawFrameSlot
  <2> QED
      BY <1>1, <2>1, <2>3 DEF StartSlot, SubmitSlot, countVars
<1>2. CASE Recycle(accepted)
  <2> DEFINE i == current.slot
  <2>1. i \in Slots
      BY <1>0, <1>2 DEF Recycle, EngineTypeOK, RawFrameResult
  <2>2. slots' = [Checkout(Release(slots, i), i) EXCEPT ![i].sequence = nextSequence]
      BY <1>2 DEF Recycle, SubmitSlot
  <2>3. /\ slots'[i].sequence = nextSequence
        /\ \A j \in Slots \ {i} : slots'[j] = slots[j]
      BY <1>0, <2>1, <2>2 DEF Checkout, Release, FreeSlot, RawFrameSlot
  <2>4. /\ pc = "recycling" /\ nextSequence' = nextSequence + 1
        /\ UNCHANGED <<running, completionQueue, escaped, outputQueue, posted>>
      BY <1>2 DEF Recycle, SubmitSlot, countVars
  <2> QED
      BY <2>1, <2>3, <2>4
<1> QED
    BY <1>1, <1>2

--------------------------------------------------------------------------------
(* Where the engine is                                                      *)

\* A step outside the engine's methods.
LEMMA PositionOutside ==
    ASSUME ReaderTypeOK, Position, UNCHANGED vars, [ReaderNext]_readerVars,
           ~Launch, ~HandleResult, ~Stopping
    PROVE  Position'
<1>1. UNCHANGED <<pc, cursor, running, nextSequence>>
    BY DEF vars, engineVars, callerVars, poolVars
<1>2. CASE UNCHANGED <<at, closed>>
    BY <1>1, <1>2 DEF Position
<1>3. CASE ReadFrame \/ EndOfRound \/ ReturnFrame \/ PollAgain \/ TimesOut
  <2>1. /\ closed' = closed /\ at \in {"idle", "polling", "draining"}
        /\ at = "idle" => ~closed
        /\ at' \in {"idle", "starting", "polling", "draining"}
      BY <1>3 DEF ReadFrame, EndOfRound, ReturnFrame, Leave, FrameReturned, PollAgain,
                  TimesOut, callVars
  <2> QED
      BY <1>1, <2>1 DEF Position
<1>4. CASE Close
    BY <1>1, <1>4 DEF Position, Close
<1>5. CASE EnsureStarted
    BY <1>1, <1>5 DEF Position, EnsureStarted, StartAgain, CallerAlone
<1>6. CASE CallStop
    BY <1>1, <1>6 DEF Position, CallStop, Stop, StopAgain, callVars
<1>7. CASE Process
    BY <1>1, <1>7 DEF Position, Process, TakeResult
<1> QED
    BY <1>2, <1>3, <1>4, <1>5, <1>6, <1>7
       DEF ReaderNext, InReadFrame, InClose, ReadFrameClosed, DrainFrame, CloseAgain,
           Backend, readerVars, callVars

\* A result that is taken was read by an engine that runs.
LEMMA ProcessRuns ==
    ASSUME ReaderInv, Process
    PROVE  running
<1>1. completionQueue # <<>> /\ completionQueue \in Seq(RawFrameResult) /\ nextSequence \in Nat
    BY DEF Process, TakeResult, ReaderInv, ReaderTypeOK, TypeOK, EngineTypeOK
<1>2. 1 \in DOMAIN completionQueue
    BY <1>1, TakenSlots
<1>3. completionQueue[1].sequence \in Nat
  <2>1. completionQueue[1] \in RawFrameResult
      BY <1>1, <1>2, ElementOfSeq, LenProperties
  <2> QED
      BY <2>1 DEF RawFrameResult
<1>4. completionQueue[1].sequence < nextSequence
    BY <1>2 DEF ReaderInv, Numbering, Waiting
<1>5. nextSequence > 0
    BY <1>1, <1>3, <1>4
<1> QED
    BY <1>5 DEF Process, ReaderInv, Position

\* The steps of the reader keep it in step with the engine.
LEMMA PositionNext ==
    ASSUME ReaderInv, [ReaderNext]_readerVars
    PROVE  Position'
<1>0. /\ TypeOK /\ Position /\ EngineTypeOK /\ ReaderTypeOK
      /\ cursor \in 0 .. RawSlots /\ nextSequence \in Nat /\ RawSlots \in Nat \ {0}
      /\ running \in BOOLEAN
    BY BufferPoolAssumption DEF ReaderInv, ReaderTypeOK, TypeOK, EngineTypeOK
<1>1. CASE UNCHANGED vars /\ ~Launch /\ ~HandleResult /\ ~Stopping
    BY <1>0, <1>1, PositionOutside
<1>2. CASE EnsureStarted /\ ~StartAgain
  <2>1. /\ CallerStep /\ pc' = "starting" /\ at = "starting" /\ at' = "launching"
        /\ closed' = closed /\ pc = "idle"
      BY <1>0, <1>2 DEF EnsureStarted, CallerAlone, Position
  <2>2. Start
      BY <2>1 DEF CallerStep, Start, StartSlotInUse, CountSubmitted, TakeResult, UsbError,
                  ShortRead, DecodeFrame, DecodeFails, DecoderRaises, InHand,
                  RecycleStopped, TakeFrame, Stop, StartAgain, StopAgain, engineVars,
                  callerVars
  <2>3. running' /\ nextSequence' = nextSequence
      BY <2>2 DEF Start, poolVars
  <2> QED
      BY <1>0, <2>1, <2>3 DEF Position
<1>3. CASE Launch
  <2>1. /\ at = "launching" /\ InsideEngine /\ closed' = closed /\ running /\ ~closed
        /\ pc \in {"starting", "submitted"}
        /\ at' \in {"launching", "idle", "polling"}
        /\ at' = "launching" <=> pc' # "idle"
      BY <1>0, <1>3 DEF Launch, Position
  <2>2. /\ running' /\ pc' \in {"starting", "submitted", "idle"}
        /\ pc' = "idle" => cursor' = RawSlots
    <3>1. CASE SubmitFirst \/ StartSlot(FALSE)
        BY <2>1, <3>1 DEF SubmitFirst, StartSlot, SubmitSlot
    <3>2. CASE StartSlotInUse
        BY <2>1, <3>2 DEF StartSlotInUse
    <3>3. CASE CountSubmitted
        BY <1>0, <2>1, <3>3 DEF CountSubmitted
    <3> QED
        BY <2>1, <3>1, <3>2, <3>3, InsideSteps
  <2> QED
      BY <1>0, <2>1, <2>2 DEF Position
<1>4. CASE Process
    BY <1>0, <1>4, ProcessRuns DEF Process, TakeResult, Position, poolVars, callVars
<1>5. CASE HandleResult
  <2>1. /\ at \in {"handling", "raising"} /\ InsideEngine /\ UNCHANGED closed
        /\ running /\ ~closed /\ cursor = RawSlots
        /\ pc \in {"decoding", "recycling", "submitted"}
        /\ at' \in {"handling", "raising", "idle", "polling"}
        /\ at' \in {"idle", "polling"} <=> pc' = "idle"
      BY <1>0, <1>5 DEF HandleResult, Position, callVars
  <2>2. running' = running /\ pc' \in {"recycling", "submitted", "idle"} /\ cursor' = cursor
    <3>1. CASE CountSubmitted
        BY <1>0, <2>1, <3>1 DEF CountSubmitted
    <3>2. CASE UsbError \/ ShortRead \/ DecodeFrame \/ DecodeFails \/ DecoderRaises
        BY <3>2 DEF UsbError, ShortRead, DecodeFrame, DecodeFails, DecoderRaises, Discard
    <3>3. CASE Resubmit \/ Recycle(FALSE)
        BY <3>3 DEF Resubmit, Recycle, SubmitSlot
    <3>4. ~RecycleStopped
        BY <2>1 DEF RecycleStopped
    <3> QED
        BY <2>1, <3>1, <3>2, <3>3, <3>4, InsideSteps
  <2> QED
      BY <1>0, <2>1, <2>2 DEF Position
<1>6. CASE DrainFrame
    BY <1>0, <1>6 DEF DrainFrame, TakeFrame, Position, poolVars, callerVars
<1>7. CASE CallStop /\ Stop
    BY <1>0, <1>7 DEF CallStop, Stop, StopAgain, Position, poolVars, callVars
<1>8. CASE Stopping
  <2>1. /\ at = "stopping" /\ InsideEngine /\ closed /\ closed'
        /\ pc \in {"cancel", "drain", "release"}
        /\ at' = IF pc' = "idle" THEN "idle" ELSE "stopping"
      BY <1>0, <1>8 DEF Stopping, Position, callVars
  <2>2. pc' \in {"drain", "release", "idle"} /\ cursor' = cursor
      BY <2>1, InsideSteps DEF CancelTransfers, DrainTransfers, DrainRaises, StopStep,
                               FinishStop, ReleaseRaises, StopRelease
  <2> QED
      BY <1>0, <2>1, <2>2 DEF Position
<1>9. CASE Backend
  <2>1. UNCHANGED <<pc, cursor, running, nextSequence, at, closed>>
      BY <1>9 DEF Backend, Transfer, ReadSettles, ReadAbandoned, BufferOnly, Complete,
                  PostResult, CompletionCounted, CountCompleted, callerVars, poolVars,
                  callVars
  <2> QED
      BY <1>0, <2>1 DEF Position
<1>10. CASE /\ ~Launch /\ ~HandleResult /\ ~Stopping
            /\ \/ EnsureStarted /\ StartAgain
               \/ CallStop /\ ~Stop
               \/ EndOfRound \/ ReturnFrame \/ PollAgain \/ TimesOut
               \/ ReadFrame \/ ReadFrameClosed \/ Close \/ CloseAgain
               \/ UNCHANGED readerVars
  <2>1. EnsureStarted /\ StartAgain => UNCHANGED vars
      BY DEF EnsureStarted, StartAgain, CallerAlone, vars
  <2>2. CallStop /\ ~Stop => UNCHANGED vars
      BY DEF CallStop, StopAgain, vars
  <2>3. \/ EndOfRound \/ ReturnFrame \/ PollAgain \/ TimesOut
        \/ ReadFrame \/ ReadFrameClosed \/ Close \/ CloseAgain
        \/ UNCHANGED readerVars
        => UNCHANGED vars
      BY DEF EndOfRound, ReturnFrame, Leave, PollAgain, TimesOut, ReadFrame, ReadFrameClosed,
             Close, CloseAgain, readerVars
  <2> QED
      BY <1>1, <1>10, <2>1, <2>2, <2>3
<1> QED
    BY <1>2, <1>3, <1>4, <1>5, <1>6, <1>7, <1>8, <1>9, <1>10
       DEF ReaderNext, InReadFrame, InClose

--------------------------------------------------------------------------------
(* What engine.stop has reached                                             *)

\* Every step of the system keeps that, also a submission that fails.
LEMMA ShutdownNext ==
    ASSUME Shutdown, [Next]_vars \/ SubmissionFails
    PROVE  Shutdown'
<1> DEFINE Still == /\ UNCHANGED <<transfer, cancelling, released, posted>>
                    /\ pc' \in {"drain", "release"} => pc' = pc
<1>0. ASSUME Still
      PROVE  Shutdown'
    BY <1>0 DEF Shutdown, AllQuiet, InFlight
<1>1. CASE CallerAlone \/ DrainRaises \/ ReleaseRaises \/ UNCHANGED vars
  <2>1. Still
      BY <1>1 DEF CallerAlone, CallerStep, Start, StartSlotInUse, CountSubmitted, TakeResult,
                  UsbError, ShortRead, DecodeFrame, DecodeFails, DecoderRaises, Discard,
                  RecycleStopped, TakeFrame, Stop, StartAgain, StopAgain, engineVars,
                  callerVars, countVars, backendVars, vars, DrainRaises, ReleaseRaises,
                  StopStep, StopRelease
  <2> QED
      BY <1>0, <2>1
<1>2. CASE SubmitFirst \/ Resubmit
    BY <1>2 DEF SubmitFirst, Resubmit, StartSlot, Recycle, SubmitSlot, SubmitRead,
                Accepting, Shutdown
<1>3. CASE SubmitFirstRefused \/ ResubmitRefused \/ SubmissionFails
  <2>1. Still
      BY <1>3 DEF SubmitFirstRefused, ResubmitRefused, SubmissionFails, StartSlot, Recycle,
                  SubmitSlot, backendVars, countVars
  <2> QED
      BY <1>0, <2>1
<1>4. CASE CancelTransfers
    BY <1>4 DEF CancelTransfers, StopStep, CancelAll, countVars, Shutdown, AllQuiet, InFlight
<1>5. CASE DrainTransfers
    BY <1>5 DEF DrainTransfers, StopStep, Drained, Quiet, countVars, backendVars, Shutdown,
                AllQuiet, InFlight
<1>6. CASE FinishStop
    BY <1>6 DEF FinishStop, StopRelease, ReleaseBackend, countVars, Shutdown, AllQuiet,
                InFlight
<1>7. ASSUME NEW i \in Slots, Transfer(i)
      PROVE  Shutdown'
  <2>1. InFlight(i) /\ UNCHANGED <<pc, cancelling, released>>
      BY <1>7 DEF Transfer, ReadSettles, ReadAbandoned, Settle, Abandon, BufferOnly,
                  Complete, Callback, PostResult, InFlight, Outcomes, callerVars
  <2> QED
      BY <2>1 DEF Shutdown, AllQuiet
<1>8. CASE CompletionCounted
  <2>1. posted > 0 /\ UNCHANGED <<pc, cancelling, released>>
      BY <1>8 DEF CompletionCounted, CountCompleted, callerVars, backendVars
  <2> QED
      BY <2>1 DEF Shutdown, AllQuiet
<1> QED
    BY <1>1, <1>2, <1>3, <1>4, <1>5, <1>6, <1>7, <1>8 DEF Next, Caller

--------------------------------------------------------------------------------
(* The numbers of the reads                                                 *)

\* A step that numbers nothing, submits nothing and posts nothing.
LEMMA NumberingFrame ==
    ASSUME Numbering, nextSequence' = nextSequence,
           waiting' \subseteq waiting, Waiting' \subseteq Waiting,
           \A i \in Slots : InFlight(i)' => InFlight(i) /\ slots'[i] = slots[i]
    PROVE  Numbering'
BY DEF Numbering

\* A submission gives its slot a number that was not in use; the backend may take it.
LEMMA NumberingSubmit ==
    ASSUME TypeOK, Numbering, NEW accepted \in BOOLEAN,
           StartSlot(accepted) \/ Recycle(accepted),
           \/ pc = "starting" /\ SubmitRead(cursor)
           \/ pc = "recycling" /\ SubmitRead(current.slot)
           \/ UNCHANGED backendVars,
           waiting' \subseteq waiting, Waiting \subseteq Nat, waiting \subseteq Nat
    PROVE  Numbering'
<1>1. PICK i \in Slots :
           /\ (pc = "starting" /\ cursor = i) \/ (pc = "recycling" /\ current.slot = i)
           /\ slots'[i].sequence = nextSequence
           /\ \A j \in Slots \ {i} : slots'[j] = slots[j]
           /\ nextSequence' = nextSequence + 1
           /\ UNCHANGED completionQueue
    BY SubmittedSlot
<1>2. \A j \in Slots \ {i} : InFlight(j)' => InFlight(j)
    BY <1>1 DEF SubmitRead, InFlight, backendVars, TypeOK, BackendTypeOK
<1>3. Waiting' = Waiting
    BY <1>1 DEF Waiting
<1>4. nextSequence \in Nat
    BY DEF TypeOK, EngineTypeOK
<1>5. \A n \in Waiting \cup waiting : n < nextSequence + 1 /\ n # nextSequence
  <2>1. \A n \in Waiting \cup waiting : n \in Nat /\ n < nextSequence
      BY DEF Numbering
  <2> QED
      BY <1>4, <2>1
<1>6. \A j \in Slots \ {i} : InFlight(j)' =>
          /\ slots'[j].sequence \in Nat
          /\ slots'[j].sequence \notin Waiting \cup waiting
          /\ slots'[j].sequence < nextSequence + 1
          /\ slots'[j].sequence # nextSequence
    BY <1>1, <1>2, <1>4 DEF Numbering
<1>7. \A j, k \in Slots \ {i} :
          InFlight(j)' /\ InFlight(k)' /\ slots'[j].sequence = slots'[k].sequence => j = k
    BY <1>1, <1>2 DEF Numbering
<1> QED
    BY <1>1, <1>3, <1>4, <1>5, <1>6, <1>7 DEF Numbering

\* What a callback does: its read is over, and its result takes the number of its slot.
LEMMA CallbackNumbers ==
    ASSUME TypeOK, NEW i \in Slots, Complete(i), InFlight(i) => slots[i].sequence \in Nat
    PROVE  /\ InFlight(i) /\ transfer' = [transfer EXCEPT ![i] = "idle"]
           /\ \A j \in Slots \ {i} : slots'[j] = slots[j]
           /\ UNCHANGED <<nextSequence, running>>
           /\ \/ completionQueue' = completionQueue
              \/ /\ Len(completionQueue) < RawSlots
                 /\ \E r \in RawFrameResult :
                       /\ r.sequence = slots[i].sequence
                       /\ completionQueue' = Append(completionQueue, r)
<1> DEFINE sequence == IF slots[i].sequence = None THEN 0 ELSE slots[i].sequence
           r == [slot |-> i, outcome |-> transfer[i], sequence |-> sequence]
<1>1. /\ transfer[i] \in Outcomes /\ transfer' = [transfer EXCEPT ![i] = "idle"]
      /\ PostResult(i, transfer[i])
    BY DEF Complete, Callback
<1>2. InFlight(i) /\ slots[i].sequence \in Nat
    BY <1>1 DEF InFlight, Outcomes
<1>3. r \in RawFrameResult /\ r.sequence = slots[i].sequence
    BY <1>1, <1>2, BufferPoolAssumption DEF RawFrameResult
<1>4. Len(completionQueue) \in Nat /\ RawSlots \in Nat
    BY LenProperties, BufferPoolAssumption DEF TypeOK, EngineTypeOK
<1>5. /\ UNCHANGED <<nextSequence, running>>
      /\ slots' = slots \/ slots' = Release(slots, i)
      /\ \/ completionQueue' = completionQueue
         \/ /\ ~(Len(completionQueue) >= RawSlots)
            /\ completionQueue' = Append(completionQueue, r)
    BY <1>1 DEF PostResult
<1>6. \A j \in Slots \ {i} : slots'[j] = slots[j]
    BY <1>5 DEF Release, TypeOK, EngineTypeOK
<1> HIDE DEF r
<1> QED
    BY <1>1, <1>2, <1>3, <1>4, <1>5, <1>6

\* Every step keeps the numbers apart.
LEMMA NumberingNext ==
    ASSUME ReaderInv, [ReaderNext]_readerVars
    PROVE  Numbering'
<1>0. /\ TypeOK /\ Numbering /\ Shutdown /\ ReaderTypeOK
      /\ completionQueue \in Seq(RawFrameResult)
      /\ transfer \in [Slots -> {"idle", "pending"} \cup Outcomes]
      /\ pc = "recycling" => running
    BY DEF ReaderInv, ReaderTypeOK, TypeOK, EngineTypeOK, BackendTypeOK, Position,
           ReaderPoints
<1>1. waiting \subseteq Nat /\ Waiting \subseteq Nat
  <2>1. \A k \in DOMAIN completionQueue : completionQueue[k] \in RawFrameResult
      BY <1>0, ElementOfSeq, LenProperties
  <2> QED
      BY <1>0, <2>1 DEF Waiting, ReaderTypeOK, RawFrameResult
<1>2. CASE ReadFrame
  <2>1. /\ UNCHANGED <<slots, nextSequence, completionQueue, transfer>>
        /\ waiting' = Waiting
      BY <1>2 DEF ReadFrame, vars, engineVars, poolVars, backendVars
  <2>2. Waiting' = Waiting /\ \A i \in Slots : InFlight(i)' = InFlight(i)
      BY <2>1 DEF Waiting, InFlight
  <2> QED
      BY <1>0, <2>1, <2>2 DEF Numbering
<1>3. ASSUME ~ReadFrame
      PROVE  waiting' \subseteq waiting
    BY <1>3 DEF ReaderNext, ReadFrameClosed, InReadFrame, EnsureStarted, Launch, Process,
                HandleResult, EndOfRound, DrainFrame, ReturnFrame, Leave, PollAgain,
                TimesOut, Close, CloseAgain, InClose, CallStop, Stopping, Backend,
                readerVars, callVars
<1>4. ASSUME waiting' \subseteq waiting,
             UNCHANGED <<slots, nextSequence, completionQueue, transfer>>
      PROVE  Numbering'
  <2>1. Waiting' \subseteq Waiting /\ \A i \in Slots : InFlight(i)' => InFlight(i)
      BY <1>4 DEF Waiting, InFlight
  <2> QED
      BY <1>0, <1>4, <2>1, NumberingFrame
<1>5. ASSUME waiting' \subseteq waiting, CallerAlone
      PROVE  Numbering'
  <2>1. CASE TakeResult
    <3>1. /\ completionQueue # <<>> /\ completionQueue' = Tail(completionQueue)
          /\ UNCHANGED <<slots, nextSequence, transfer>>
        BY <1>5, <2>1 DEF TakeResult, CallerAlone, poolVars, backendVars
    <3>2. \A k \in DOMAIN completionQueue' :
              k + 1 \in DOMAIN completionQueue /\ completionQueue'[k] = completionQueue[k + 1]
        BY <1>0, <3>1, TakenSlots
    <3>3. Waiting' \subseteq Waiting /\ \A i \in Slots : InFlight(i)' => InFlight(i)
        BY <3>1, <3>2 DEF Waiting, InFlight
    <3> QED
        BY <1>0, <1>5, <3>1, <3>3, NumberingFrame
  <2>2. CASE ~TakeResult
    <3>1. UNCHANGED <<slots, nextSequence, completionQueue, transfer>>
        BY <1>0, <1>5, <2>2
           DEF CallerAlone, CallerStep, Start, StartSlotInUse, CountSubmitted, UsbError,
               ShortRead, DecodeFrame, DecodeFails, DecoderRaises, Discard, RecycleStopped,
               TakeFrame, Stop, StartAgain, StopAgain, engineVars, poolVars, backendVars
    <3> QED
        BY <1>4, <1>5, <3>1
  <2> QED
      BY <2>1, <2>2
<1>6. ASSUME waiting' \subseteq waiting,
             \/ SubmitFirst \/ SubmitFirstRefused \/ Resubmit \/ ResubmitRefused
             \/ SubmissionFails
      PROVE  Numbering'
  <2>1. CASE SubmitFirst \/ Resubmit
    <3>1. /\ StartSlot(TRUE) \/ Recycle(TRUE)
          /\ \/ pc = "starting" /\ SubmitRead(cursor)
             \/ pc = "recycling" /\ SubmitRead(current.slot)
        BY <2>1 DEF SubmitFirst, Resubmit, StartSlot, Recycle
    <3> QED
        BY <1>0, <1>1, <1>6, <3>1, NumberingSubmit
  <2>2. CASE SubmitFirstRefused \/ ResubmitRefused \/ SubmissionFails
    <3>1. (StartSlot(FALSE) \/ Recycle(FALSE)) /\ UNCHANGED backendVars
        BY <2>2 DEF SubmitFirstRefused, ResubmitRefused, SubmissionFails
    <3> QED
        BY <1>0, <1>1, <1>6, <3>1, NumberingSubmit
  <2> QED
      BY <1>6, <2>1, <2>2
<1>7. ASSUME waiting' \subseteq waiting,
             CancelTransfers \/ DrainTransfers \/ DrainRaises \/ CompletionCounted
      PROVE  Numbering'
  <2>1. UNCHANGED <<slots, nextSequence, completionQueue, transfer>>
      BY <1>7 DEF CancelTransfers, DrainTransfers, DrainRaises, StopStep, CancelAll,
                  CompletionCounted, CountCompleted, poolVars, backendVars
  <2> QED
      BY <1>4, <1>7, <2>1
<1>8. ASSUME waiting' \subseteq waiting, FinishStop \/ ReleaseRaises
      PROVE  Numbering'
  <2>1. /\ pc = "release" /\ UNCHANGED <<nextSequence, completionQueue, transfer>>
      BY <1>8 DEF FinishStop, ReleaseRaises, StopRelease, ReleaseBackend, backendVars
  <2>2. Waiting' \subseteq Waiting /\ \A i \in Slots : ~InFlight(i)'
      BY <1>0, <2>1 DEF Waiting, InFlight, Shutdown, AllQuiet
  <2> QED
      BY <1>0, <1>8, <2>1, <2>2, NumberingFrame
<1>9. ASSUME waiting' \subseteq waiting, NEW i \in Slots, Transfer(i)
      PROVE  Numbering'
  <2>1. CASE ReadSettles(i) \/ ReadAbandoned(i)
    <3>1. /\ transfer[i] = "pending" /\ UNCHANGED <<slots, nextSequence, completionQueue>>
          /\ \E x : transfer' = [transfer EXCEPT ![i] = x]
        BY <2>1 DEF ReadSettles, ReadAbandoned, Settle, Abandon, BufferOnly, poolVars
    <3>2. Waiting' \subseteq Waiting /\ \A j \in Slots : InFlight(j)' => InFlight(j)
        BY <1>0, <3>1 DEF Waiting, InFlight
    <3> QED
        BY <1>0, <1>9, <3>1, <3>2, NumberingFrame
  <2>2. CASE Complete(i)
    <3>1. InFlight(i) => slots[i].sequence \in Nat
        BY <1>0 DEF Numbering
    <3> HIDE DEF Complete
    <3>2. /\ InFlight(i) /\ transfer' = [transfer EXCEPT ![i] = "idle"]
          /\ \A j \in Slots \ {i} : slots'[j] = slots[j]
          /\ nextSequence' = nextSequence
          /\ \/ completionQueue' = completionQueue
             \/ \E r \in RawFrameResult :
                   /\ r.sequence = slots[i].sequence
                   /\ completionQueue' = Append(completionQueue, r)
        BY <1>0, <2>2, <3>1, CallbackNumbers
    <3>3. Waiting' \subseteq Waiting \cup {slots[i].sequence}
      <4>1. CASE completionQueue' = completionQueue
          BY <4>1 DEF Waiting
      <4>2. ASSUME NEW r \in RawFrameResult, r.sequence = slots[i].sequence,
                   completionQueue' = Append(completionQueue, r)
            PROVE  Waiting' \subseteq Waiting \cup {slots[i].sequence}
        <5> DEFINE q == completionQueue
                   p == Append(completionQueue, r)
        <5>1. /\ DOMAIN q = 1 .. Len(q) /\ Len(q) \in Nat
              /\ DOMAIN p = 1 .. Len(q) + 1
              /\ \A k \in DOMAIN q : p[k] = q[k]
              /\ p[Len(q) + 1] = r
            BY <1>0, AppendedSlots
        <5>2. \A k \in DOMAIN p : k \in DOMAIN q \/ k = Len(q) + 1
            BY <5>1
        <5>3. Waiting' = {p[k].sequence : k \in DOMAIN p}
            BY <4>2 DEF Waiting
        <5> HIDE DEF p
        <5> QED
            BY <4>2, <5>1, <5>2, <5>3 DEF Waiting
      <4> QED
          BY <3>2, <4>1, <4>2
    <3>4. /\ ~InFlight(i)'
          /\ \A j \in Slots \ {i} : InFlight(j)' <=> InFlight(j)
        BY <1>0, <3>2 DEF InFlight
    <3> QED
        BY <1>0, <1>9, <3>1, <3>2, <3>3, <3>4 DEF Numbering
  <2> QED
      BY <1>9, <2>1, <2>2 DEF Transfer
<1>10. CASE UNCHANGED vars /\ ~ReadFrame
  <2>1. UNCHANGED <<slots, nextSequence, completionQueue, transfer>>
      BY <1>10 DEF vars, engineVars, poolVars, backendVars
  <2> QED
      BY <1>3, <1>4, <1>10, <2>1
<1> QED
    BY <1>2, <1>3, <1>5, <1>6, <1>7, <1>8, <1>9, <1>10, ReaderDrives DEF Next, Caller

--------------------------------------------------------------------------------
(* The theorems                                                             *)

\* The invariant behind the theorems about the reader.
LEMMA ReaderInvariant == ReaderSpec => []ReaderInv
<1>1. ReaderInv /\ [ReaderNext]_readerVars => ReaderInv'
  <2>1. ReaderInv /\ [ReaderNext]_readerVars => Shutdown'
      BY ReaderDrives, ShutdownNext DEF ReaderInv
  <2> QED
      BY <2>1, ReaderTypeNext, PositionNext, NumberingNext DEF ReaderInv
<1> QED
    BY <1>1, ReaderInitially, PTL DEF ReaderSpec

\* Every variable of the reader, and of the engine it drives, has its type.
THEOREM ReaderTypes == ReaderSpec => []ReaderTypeOK
BY ReaderInvariant, PTL DEF ReaderInv

\* A shutdown that does not raise ends with the handle closed.
LEMMA ClosingNext ==
    ASSUME ShutdownCanFail = FALSE, ReaderInv, Closing, [ReaderNext]_readerVars
    PROVE  Closing'
<1>0. Position /\ nextSequence \in Nat
    BY DEF ReaderInv, ReaderTypeOK, TypeOK, EngineTypeOK
<1>1. CASE Stopping
  <2>1. pc \in {"cancel", "drain", "release"} /\ InsideEngine
        /\ at' = (IF pc' = "idle" THEN "idle" ELSE "stopping")
      BY <1>0, <1>1 DEF Stopping, Position
  <2>2. CASE FinishStop
      BY <2>2 DEF FinishStop, ReleaseBackend, Closing
  <2>3. CASE CancelTransfers \/ DrainTransfers
      BY <2>1, <2>3 DEF CancelTransfers, DrainTransfers, StopStep, Closing
  <2> QED
      BY <2>1, <2>2, <2>3, InsideSteps DEF DrainRaises, ReleaseRaises
<1>2. CASE CallStop
  <2>1. CASE StopAgain
      BY <1>0, <1>2, <2>1 DEF CallStop, StopAgain, Stop, Position, Closing, engineVars,
                              poolVars
  <2>2. CASE ~StopAgain
      BY <1>2, <2>2 DEF CallStop, Closing
  <2> QED
      BY <2>1, <2>2
<1>3. CASE Backend
  <2>1. UNCHANGED <<nextSequence, released, at, closed>>
      BY <1>3 DEF Backend, Transfer, ReadSettles, ReadAbandoned, Settle, Abandon, BufferOnly,
                  Complete, Callback, PostResult, CompletionCounted, CountCompleted,
                  backendVars, poolVars, callVars
  <2> QED
      BY <2>1 DEF Closing
<1>4. CASE ReadFrame \/ InReadFrame
  <2>1. ~closed /\ closed' = closed
      BY <1>0, <1>4 DEF ReadFrame, InReadFrame, EnsureStarted, Launch, Process, HandleResult,
                        EndOfRound, DrainFrame, ReturnFrame, Leave, FrameReturned, PollAgain,
                        TimesOut, Position, callVars
  <2> QED
      BY <2>1 DEF Closing
<1>5. CASE Close
    BY <1>5 DEF Close, Closing
<1>6. CASE ReadFrameClosed \/ CloseAgain \/ UNCHANGED readerVars
    BY <1>6 DEF ReadFrameClosed, CloseAgain, readerVars, vars, engineVars, poolVars,
                backendVars, callVars, Closing
<1> QED
    BY <1>1, <1>2, <1>3, <1>4, <1>5, <1>6 DEF ReaderNext, InClose

\* When close() returned, on a backend whose shutdown does not raise, a reader that ever
\* submitted a read has closed the handle with nothing in flight, whatever read_frame met:
\* exceptions of the decoder and submissions that failed half way included.
THEOREM UsedReadersRelease ==
    ASSUME ShutdownCanFail = FALSE
    PROVE  ReaderSpec => []UsedReaderReleases
<1>1. ReaderInv /\ Closing => UsedReaderReleases
    BY DEF ReaderInv, Shutdown, Closing, UsedReaderReleases
<1>2. ReaderInv /\ Closing /\ [ReaderNext]_readerVars => Closing'
    BY ClosingNext
<1> QED
    BY <1>1, <1>2, ReaderInitially, ReaderInvariant, PTL DEF ReaderSpec

\* A step that leaves the completion queue alone, and does not begin a round.
LEMMA AheadFrame ==
    ASSUME Ahead, UNCHANGED <<completionQueue, waiting>>, nextSequence \in Nat,
           nextSequence' \in Nat, nextSequence <= nextSequence', MaxSubmits \in Nat,
           LET points == {"starting", "launching", "polling", "handling", "raising"}
           IN  at' \in points => at \in points /\ budget' = budget,
           at' = "draining" => at = "draining" /\ budget' = budget
    PROVE  Ahead'
<1>1. Waiting' = Waiting
    BY DEF Waiting
<1> QED
    BY <1>1 DEF Ahead

\* The steps of the reader keep the results that waited at the head of the queue.
LEMMA AheadNext ==
    ASSUME RawSlots <= ProcessLimit, ReaderInv, Ahead, [ReaderNext]_readerVars
    PROVE  Ahead'
<1> DEFINE Round == {"starting", "launching", "polling", "handling", "raising"}
<1>0. /\ TypeOK /\ Position /\ Numbering
      /\ completionQueue \in Seq(RawFrameResult) /\ nextSequence \in Nat
      /\ budget \in 0 .. ProcessLimit /\ ProcessLimit \in Nat /\ RawSlots \in Nat
      /\ MaxSubmits \in Nat
      /\ Len(completionQueue) \in Nat /\ DOMAIN completionQueue = 1 .. Len(completionQueue)
    BY LenProperties, BufferPoolAssumption, ReaderAssumption, MaxSubmitsAssumption
       DEF ReaderInv, ReaderTypeOK, TypeOK, EngineTypeOK
<1>1. nextSequence' \in Nat /\ nextSequence <= nextSequence'
  <2>1. nextSequence' = nextSequence \/ nextSequence' = nextSequence + 1
    <3>1. CASE SubmissionFails
        BY <3>1 DEF SubmissionFails, StartSlot, Recycle, SubmitSlot
    <3>2. CASE CallerAlone \/ UNCHANGED vars
        BY <3>2 DEF CallerAlone, CallerStep, Start, StartSlotInUse, CountSubmitted,
                    TakeResult, UsbError, ShortRead, DecodeFrame, DecodeFails,
                    DecoderRaises, Discard, RecycleStopped, TakeFrame, Stop, StartAgain,
                    StopAgain, vars, engineVars, poolVars
    <3>3. CASE Caller /\ ~CallerAlone
        BY <3>3 DEF Caller, SubmitFirst, SubmitFirstRefused, Resubmit, ResubmitRefused,
                    StartSlot, Recycle, SubmitSlot, CancelTransfers, DrainTransfers,
                    DrainRaises, StopStep, FinishStop, ReleaseRaises, StopRelease, poolVars
    <3>4. CASE CompletionCounted \/ \E i \in Slots : Transfer(i)
        BY <3>4 DEF CompletionCounted, CountCompleted, Transfer, ReadSettles,
                    ReadAbandoned, BufferOnly, Complete, PostResult, poolVars
    <3> QED
        BY <3>1, <3>2, <3>3, <3>4, ReaderDrives DEF Next
  <2> QED
      BY <1>0, <2>1
<1>2. \A k \in DOMAIN completionQueue : k <= ProcessLimit
    BY <1>0 DEF Ahead
<1>3. CASE ReadFrame
  <2>1. completionQueue' = completionQueue /\ budget' = ProcessLimit /\ at' # "draining"
      BY <1>3 DEF ReadFrame, vars, engineVars
  <2> QED
      BY <1>2, <2>1 DEF Ahead
<1>4. CASE PollAgain
  <2>1. completionQueue' = completionQueue /\ budget' = ProcessLimit /\ at' # "draining"
      BY <1>4 DEF PollAgain, vars, engineVars
  <2> QED
      BY <1>2, <2>1 DEF Ahead
<1>5. CASE EndOfRound
  <2>1. /\ UNCHANGED <<completionQueue, waiting, nextSequence>>
        /\ at = "polling" /\ at' = "draining" /\ ~CanTake /\ budget' = budget
      BY <1>5 DEF EndOfRound, vars, engineVars, poolVars, callVars
  <2>2. ASSUME budget = 0 \/ nextSequence < MaxSubmits
        PROVE  \A k \in DOMAIN completionQueue : completionQueue[k].sequence \notin waiting
    <3>1. budget = 0 \/ completionQueue = <<>>
        BY <1>0, <2>1, <2>2 DEF CanTake
    <3>2. CASE budget = 0
        BY <1>0, <2>1, <3>2 DEF Ahead
    <3>3. CASE completionQueue = <<>>
        BY <3>3
    <3> QED
        BY <3>1, <3>2, <3>3
  <2>3. budget = 0 \/ nextSequence < MaxSubmits => waiting \cap Waiting = {}
      BY <2>2 DEF Waiting
  <2>4. Waiting' = Waiting
      BY <2>1 DEF Waiting
  <2> QED
      BY <2>1, <2>3, <2>4 DEF Ahead
<1>6. CASE Process
  <2>1. /\ completionQueue # <<>> /\ completionQueue' = Tail(completionQueue)
        /\ at = "polling" /\ at' = "handling" /\ budget' = budget - 1
        /\ waiting' \subseteq waiting
      BY <1>6 DEF Process, TakeResult
  <2>2. /\ DOMAIN completionQueue' = 1 .. Len(completionQueue) - 1
        /\ \A k \in DOMAIN completionQueue' :
              k + 1 \in DOMAIN completionQueue /\ completionQueue'[k] = completionQueue[k + 1]
      BY <1>0, <2>1, TakenSlots
  <2>3. Len(completionQueue') <= RawSlots
    <3>1. Len(completionQueue') = Len(completionQueue) - 1
        BY <1>0, <2>1, HeadTailProperties
    <3> QED
        BY <1>0, <3>1 DEF Ahead
  <2>4. ASSUME NEW k \in DOMAIN completionQueue', completionQueue'[k].sequence \in waiting
        PROVE  k <= budget - 1
    <3>1. k + 1 \in DOMAIN completionQueue /\ completionQueue[k + 1].sequence \in waiting
        BY <2>2, <2>4
    <3>2. k + 1 <= budget
        BY <2>1, <3>1 DEF Ahead
    <3> QED
        BY <1>0, <2>2, <3>2
  <2> QED
      BY <2>1, <2>3, <2>4 DEF Ahead
<1>7. CASE Backend
  <2>1. UNCHANGED <<at, budget, waiting>>
      BY <1>7 DEF Backend, callVars
  <2>2. CASE completionQueue' = completionQueue
      BY <1>0, <1>1, <2>1, <2>2, AheadFrame
  <2>3. CASE completionQueue' # completionQueue
    <3>1. PICK i \in Slots : Complete(i)
        BY <1>7, <2>3 DEF Backend, Transfer, ReadSettles, ReadAbandoned, BufferOnly,
                          CompletionCounted, CountCompleted
    <3>2. InFlight(i) => slots[i].sequence \in Nat
        BY <1>0 DEF Numbering
    <3>3. /\ InFlight(i) /\ Len(completionQueue) < RawSlots /\ nextSequence' = nextSequence
          /\ \E r \in RawFrameResult :
                /\ r.sequence = slots[i].sequence
                /\ completionQueue' = Append(completionQueue, r)
        BY <1>0, <2>3, <3>1, <3>2, CallbackNumbers
    <3>4. PICK r \in RawFrameResult :
                /\ r.sequence = slots[i].sequence
                /\ completionQueue' = Append(completionQueue, r)
        BY <3>3
    <3>5. r.sequence \notin waiting
        BY <1>0, <3>3, <3>4 DEF Numbering
    <3>6. /\ DOMAIN completionQueue' = 1 .. Len(completionQueue) + 1
          /\ \A k \in DOMAIN completionQueue : completionQueue'[k] = completionQueue[k]
          /\ completionQueue'[Len(completionQueue) + 1] = r
        BY <1>0, <3>4, AppendedSlots
    <3>7. Len(completionQueue') <= RawSlots
      <4>1. Len(completionQueue') = Len(completionQueue) + 1
          BY <1>0, <3>4, AppendProperties
      <4> QED
          BY <1>0, <3>3, <4>1
    <3>8. \A k \in DOMAIN completionQueue' : completionQueue'[k].sequence \in waiting =>
              k \in DOMAIN completionQueue /\ completionQueue[k].sequence \in waiting
      <4>1. \A k \in DOMAIN completionQueue' :
                k \in DOMAIN completionQueue \/ k = Len(completionQueue) + 1
          BY <1>0, <3>6
      <4> QED
          BY <3>5, <3>6, <4>1
    <3>9. at \in Round =>
              \A k \in DOMAIN completionQueue' :
                  completionQueue'[k].sequence \in waiting => k <= budget
        BY <3>8 DEF Ahead
    <3>10. waiting \cap Waiting = {} => waiting \cap Waiting' = {}
        BY <3>8 DEF Waiting
    <3> QED
        BY <2>1, <3>3, <3>7, <3>9, <3>10 DEF Ahead
  <2> QED
      BY <2>2, <2>3
<1>8. CASE Launch \/ HandleResult \/ Stopping
  <2>1. /\ UNCHANGED <<budget, waiting>> /\ InsideEngine
        /\ at' \in Round => at \in Round
        /\ at' # "draining"
      BY <1>8 DEF Launch, HandleResult, Stopping, callVars
  <2>2. pc # "idle"
      BY <2>1 DEF InsideEngine
  <2>3. completionQueue' = completionQueue
    <3>1. pc \in {"starting", "submitted", "decoding", "recycling", "cancel", "drain",
                  "release"}
        BY <1>0, <2>2 DEF TypeOK, EngineTypeOK, Steps
    <3>2. CASE pc \in {"starting", "submitted"}
        BY <2>1, <3>2, InsideSteps DEF SubmitFirst, StartSlot, StartSlotInUse, CountSubmitted
    <3>3. CASE pc \in {"decoding", "recycling"}
        BY <2>1, <3>3, InsideSteps DEF UsbError, ShortRead, DecodeFrame, DecodeFails,
               DecoderRaises, Discard, Resubmit, Recycle, RecycleStopped
    <3>4. CASE pc \in {"cancel", "drain", "release"}
        BY <2>1, <3>4, InsideSteps DEF CancelTransfers, DrainTransfers, DrainRaises,
               StopStep, FinishStop, ReleaseRaises, StopRelease
    <3> QED
        BY <3>1, <3>2, <3>3, <3>4
  <2> QED
      BY <1>0, <1>1, <2>1, <2>3, AheadFrame
<1>9. CASE EnsureStarted
  <2>1. /\ UNCHANGED <<completionQueue, budget, waiting>>
        /\ at = "starting" /\ at' # "draining"
    <3>1. at = "starting" /\ at' # "draining" /\ UNCHANGED <<budget, waiting>>
        BY <1>9 DEF EnsureStarted
    <3>2. pc = "idle" /\ (StartAgain \/ (CallerStep /\ pc' = "starting"))
        BY <1>0, <1>9, <3>1 DEF EnsureStarted, CallerAlone, Position
    <3>3. completionQueue' = completionQueue
        BY <3>2 DEF CallerStep, Start, StartSlotInUse, CountSubmitted, TakeResult, UsbError,
                    ShortRead, DecodeFrame, DecodeFails, DecoderRaises, Discard, InHand,
                    RecycleStopped, TakeFrame, Stop, StartAgain, StopAgain, engineVars
    <3> QED
        BY <3>1, <3>3
  <2> QED
      BY <1>0, <1>1, <2>1, AheadFrame
<1>10. CASE ReturnFrame \/ TimesOut
  <2>1. UNCHANGED completionQueue /\ at' = "idle"
      BY <1>10 DEF ReturnFrame, TimesOut, Leave, vars, engineVars
  <2> QED
      BY <1>0, <2>1 DEF Ahead
<1>11. CASE \/ DrainFrame \/ CallStop \/ ReadFrameClosed \/ Close \/ CloseAgain
            \/ UNCHANGED readerVars
  <2>1. UNCHANGED <<completionQueue, waiting>>
      BY <1>11 DEF DrainFrame, TakeFrame, CallStop, Stop, StopAgain, ReadFrameClosed, Close,
                   CloseAgain, readerVars, vars, engineVars, callVars
  <2>2. UNCHANGED <<at, budget>> \/ at' \in {"idle", "closing", "stopping"}
      BY <1>11 DEF DrainFrame, CallStop, ReadFrameClosed, Close, CloseAgain, readerVars,
                   callVars
  <2> QED
      BY <1>0, <1>1, <2>1, <2>2, AheadFrame
<1> QED
    BY <1>3, <1>4, <1>5, <1>6, <1>7, <1>8, <1>9, <1>10, <1>11
       DEF ReaderNext, InReadFrame, InClose

\* What put_frame_with_policy queues stands at the end of the queue, unless it drops it.
LEMMA QueuedLast ==
    ASSUME NEW q \in Seq(Frame), NEW frame \in Frame, DropPolicy # "drop_newest",
           OutputQueueSize \in Nat \ {0}
    PROVE  /\ PutFrame(q, frame) # <<>>
           /\ PutFrame(q, frame)[Len(PutFrame(q, frame))] = frame
<1>1. PICK p \in Seq(Frame) : PutFrame(q, frame) = Append(p, frame)
  <2>1. CASE Full(q) /\ DropPolicy = "drop_oldest"
    <3>1. q # <<>>
        BY <2>1 DEF Full
    <3> QED
        BY <2>1, <3>1, HeadTailProperties DEF PutFrame, Retains
  <2>2. CASE ~(Full(q) /\ DropPolicy = "drop_oldest")
      BY <2>2 DEF PutFrame, Retains
  <2> QED
      BY <2>1, <2>2
<1> QED
    BY <1>1, AppendProperties

\* Every step keeps the frame decoded last at the end of the output queue.
LEMMA NewestNext ==
    ASSUME ReaderInv, Newest, [ReaderNext]_readerVars
    PROVE  Newest'
<1> DEFINE Round == {"starting", "launching", "polling", "handling", "raising"}
           Last(q) == q[Len(q)].sequence
<1>0. TypeOK /\ Position /\ outputQueue \in Seq(Frame) /\ stats.decoded \in Nat
    BY DEF ReaderInv, ReaderTypeOK, TypeOK, EngineTypeOK, Counters
<1>1. ASSUME UNCHANGED <<outputQueue, newest, latest>>,
             at' \in Round => latest = None,
             at' = "draining" => at = "draining" \/ latest = None
      PROVE  Newest'
    BY <1>1 DEF Newest, FrameReturned
<1>2. CASE HandleResult
  <2>1. /\ InsideEngine /\ at \in Round /\ at' # "draining" /\ latest' = latest
        /\ newest' = IF stats'.decoded > stats.decoded THEN current.sequence ELSE newest
      BY <1>2 DEF HandleResult
  <2>2. latest' = None
      BY <2>1 DEF Newest
  <2>3. CASE DecodeFrame /\ stats'.decoded > stats.decoded /\ DropPolicy # "drop_newest"
    <3> DEFINE frame == [sequence |-> current.sequence, data |-> buffer[current.slot]]
    <3>1. outputQueue' = PutFrame(outputQueue, frame) /\ newest' = frame.sequence
        BY <2>1, <2>3 DEF DecodeFrame
    <3>2. frame \in Frame
      <4>1. current \in RawFrameResult /\ buffer \in [Slots -> Nat \cup {None}]
          BY <1>0, <2>3 DEF DecodeFrame, InHand, TypeOK, EngineTypeOK
      <4> QED
          BY <4>1 DEF RawFrameResult, Frame
    <3> HIDE DEF frame
    <3>3. Last(outputQueue') = newest'
        BY <1>0, <2>3, <3>1, <3>2, QueuedLast, FrameQueueAssumption
    <3> QED
        BY <2>1, <2>2, <3>3 DEF Newest, FrameReturned
  <2>4. CASE stats'.decoded = stats.decoded /\ outputQueue' = outputQueue
      BY <1>0, <1>1, <2>1, <2>2, <2>4
  <2>5. CASE DropPolicy = "drop_newest"
      BY <2>1, <2>2, <2>5 DEF Newest, FrameReturned
  <2> QED
      BY <1>0, <2>1, <2>3, <2>4, <2>5, DecodesOrNot
<1>3. CASE DrainFrame
  <2>1. /\ outputQueue # <<>> /\ outputQueue' = Tail(outputQueue)
        /\ latest' = Head(outputQueue) /\ newest' = newest
        /\ at = "draining" /\ at' = "draining"
      BY <1>3 DEF DrainFrame, TakeFrame
  <2>2. CASE Len(outputQueue) = 1
    <3>1. outputQueue' = <<>> /\ latest' = outputQueue[Len(outputQueue)]
        BY <1>0, <2>1, <2>2, HeadTailProperties, EmptySeq
    <3> QED
        BY <2>1, <3>1 DEF Newest, FrameReturned
  <2>3. CASE Len(outputQueue) # 1
    <3>1. /\ outputQueue' # <<>>
          /\ outputQueue'[Len(outputQueue')] = outputQueue[Len(outputQueue)]
      <4>1. Len(outputQueue) \in Nat \ {0}
          BY <1>0, <2>1, EmptySeq
      <4>2. /\ Len(outputQueue') = Len(outputQueue) - 1
            /\ \A k \in 1 .. Len(outputQueue') : outputQueue'[k] = outputQueue[k + 1]
          BY <1>0, <2>1, HeadTailProperties
      <4>3. /\ Len(outputQueue') \in 1 .. Len(outputQueue')
            /\ Len(outputQueue') + 1 = Len(outputQueue)
          BY <2>3, <4>1, <4>2
      <4>4. outputQueue'[Len(outputQueue')] = outputQueue[Len(outputQueue)]
          BY <4>2, <4>3
      <4>5. outputQueue' # <<>>
          BY <4>3, EmptySeq
      <4> QED
          BY <4>4, <4>5
    <3> QED
        BY <2>1, <3>1 DEF Newest, FrameReturned
  <2> QED
      BY <2>2, <2>3
<1>4. CASE Launch \/ Stopping
  <2>1. /\ InsideEngine /\ UNCHANGED <<newest, latest>>
        /\ at' \in Round => at \in Round
        /\ at' # "draining"
      BY <1>4 DEF Launch, Stopping, callVars
  <2>2. ~DecodeFrame
      BY <1>0, <1>4 DEF Launch, Stopping, Position, DecodeFrame, InHand
  <2> QED
      BY <1>0, <1>1, <2>1, <2>2, DecodesOrNot DEF Newest
<1>5. CASE ReadFrame
    BY <1>5 DEF ReadFrame, Newest, FrameReturned, vars, engineVars
<1>6. CASE Process
  <2>1. UNCHANGED <<outputQueue, newest, latest>> /\ at = "polling" /\ at' = "handling"
      BY <1>6 DEF Process, TakeResult
  <2> QED
      BY <1>1, <2>1 DEF Newest
<1>7. CASE EnsureStarted
  <2>1. at = "starting" /\ at' # "draining" /\ UNCHANGED <<newest, latest>>
      BY <1>7 DEF EnsureStarted
  <2>2. pc = "idle" /\ (StartAgain \/ (CallerStep /\ pc' = "starting"))
      BY <1>0, <1>7, <2>1 DEF EnsureStarted, CallerAlone, Position
  <2>3. outputQueue' = outputQueue
      BY <2>2 DEF CallerStep, Start, StartSlotInUse, CountSubmitted, TakeResult, UsbError,
                  ShortRead, DecodeFrame, DecodeFails, DecoderRaises, Discard, InHand,
                  RecycleStopped, TakeFrame, Stop, StartAgain, StopAgain, engineVars,
                  callerVars
  <2> QED
      BY <1>1, <2>1, <2>3 DEF Newest
<1>8. CASE Backend
  <2>1. UNCHANGED <<at, newest, latest, outputQueue>>
      BY <1>8 DEF Backend, Transfer, ReadSettles, ReadAbandoned, Settle, Abandon, BufferOnly,
                  Complete, Callback, PostResult, CompletionCounted, CountCompleted, callVars
  <2> QED
      BY <1>1, <2>1 DEF Newest
<1>9. CASE EndOfRound \/ PollAgain
  <2>1. /\ UNCHANGED <<outputQueue, newest, latest>>
        /\ at \in Round \/ latest = None
      BY <1>9 DEF EndOfRound, PollAgain, vars, engineVars, callVars
  <2> QED
      BY <1>1, <2>1 DEF Newest
<1>10. CASE ReturnFrame \/ TimesOut
  <2>1. UNCHANGED <<outputQueue, newest>> /\ latest' = None /\ at' = "idle"
      BY <1>10 DEF ReturnFrame, TimesOut, Leave, vars, engineVars
  <2> QED
      BY <2>1 DEF Newest, FrameReturned
<1>11. CASE CallStop \/ ReadFrameClosed \/ Close \/ CloseAgain \/ UNCHANGED readerVars
  <2>1. UNCHANGED <<outputQueue, newest, latest>>
      BY <1>11 DEF CallStop, Stop, StopAgain, ReadFrameClosed, Close, CloseAgain, readerVars,
                   vars, engineVars, callVars
  <2>2. at' = at \/ at' \in {"idle", "closing", "stopping"}
      BY <1>11 DEF CallStop, ReadFrameClosed, Close, CloseAgain, readerVars
  <2> QED
      BY <1>1, <2>1, <2>2 DEF Newest
<1> QED
    BY <1>2, <1>3, <1>4, <1>5, <1>6, <1>7, <1>8, <1>9, <1>10, <1>11
       DEF ReaderNext, InReadFrame, InClose

\* Under every policy but drop_newest read_frame returns the frame decoded last, and when
\* the limit of a round covers the slots it does so only after every result that waited
\* when it was called was decoded or discarded, whatever the backend completes meanwhile.
THEOREM LatestFrameIsReturned ==
    ASSUME RawSlots <= ProcessLimit
    PROVE  ReaderSpec => []LatestIsReturned
<1>1. ReaderInv /\ Ahead /\ Newest => LatestIsReturned
    BY DEF Ahead, Newest, LatestIsReturned, FrameReturned
<1>2. ReaderInv /\ Ahead /\ [ReaderNext]_readerVars => Ahead'
    BY AheadNext
<1>3. ReaderInv /\ Newest /\ [ReaderNext]_readerVars => Newest'
    BY NewestNext
<1> QED
    BY <1>1, <1>2, <1>3, ReaderInitially, ReaderInvariant, PTL DEF ReaderSpec

================================================================================
