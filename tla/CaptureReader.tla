----------------------------- MODULE CaptureReader -----------------------------
(***************************************************************************)
(* CaptureReader of ponkan/capture.py: the object open_capture returns,    *)
(* driving a StreamingEngine on its caller's thread.  read() is            *)
(* read_frame() and a conversion of its result.                            *)
(*                                                                         *)
(* "at" is the point the caller's thread has reached in the reader:        *)
(*   "idle"       outside the reader,                                      *)
(*   "starting"   in _ensure_started, at the call of engine.start,         *)
(*   "launching"  inside engine.start,                                     *)
(*   "polling"    in engine.process_completed, between two results,        *)
(*   "handling"   in engine._process_result,                               *)
(*   "raising"    the same, with an exception on its way out,              *)
(*   "draining"   in _latest_available_frame,                              *)
(*   "closing"    in close(), at the call of engine.stop,                  *)
(*   "stopping"   inside engine.stop.                                      *)
(***************************************************************************)
EXTENDS StreamingSystem

CONSTANTS
    ProcessLimit,   \* _COMPLETION_PROCESS_LIMIT
    SubmitCanFail   \* backend.submit_read may raise although nothing was cancelled

ASSUME ReaderAssumption ==
    /\ ProcessLimit \in Nat \ {0}
    /\ SubmitCanFail \in BOOLEAN

VARIABLES
    at,
    started,   \* _started
    closed,    \* _closed
    budget,    \* results process_completed may still take
    latest,    \* the frame _latest_available_frame holds
    waiting,   \* history: the reads whose results waited when read_frame was called and
               \* have not been taken since
    newest     \* history: the read decoded last

callVars == <<started, closed, budget, latest, waiting, newest>>
readerVars == <<vars, at, callVars>>

ReaderPoints ==
    {"idle", "starting", "launching", "polling", "handling", "raising", "draining",
     "closing", "stopping"}

ReaderTypeOK ==
    /\ TypeOK
    /\ at \in ReaderPoints
    /\ started \in BOOLEAN
    /\ closed \in BOOLEAN
    /\ budget \in 0..ProcessLimit
    /\ latest \in Frame \cup {None}
    /\ waiting \in SUBSET Nat
    /\ newest \in Nat \cup {None}

ReaderInit ==
    /\ Init
    /\ at = "idle"
    /\ started = FALSE
    /\ closed = FALSE
    /\ budget = 0
    /\ latest = None
    /\ waiting = {}
    /\ newest = None

Waiting == {completionQueue[k].sequence : k \in DOMAIN completionQueue}

SubmissionFails ==
    /\ SubmitCanFail
    /\ StartSlot(FALSE) \/ Recycle(FALSE)
    /\ UNCHANGED backendVars

InsideEngine == pc # "idle" /\ (Caller \/ SubmissionFails)

--------------------------------------------------------------------------------
(* read_frame()                                                             *)

\* After close() read_frame returns None.
ReadFrameClosed == at = "idle" /\ closed /\ UNCHANGED readerVars

ReadFrame ==
    /\ at = "idle"
    /\ ~closed
    /\ at' = IF started THEN "polling" ELSE "starting"
    /\ budget' = ProcessLimit
    /\ latest' = None
    /\ waiting' = Waiting
    /\ UNCHANGED <<vars, started, closed, newest>>

\* engine.start returns at once when an earlier start() failed half way.
EnsureStarted ==
    /\ at = "starting"
    /\ \/ /\ CallerAlone /\ pc' = "starting"
          /\ at' = "launching"
          /\ UNCHANGED started
       \/ /\ StartAgain
          /\ UNCHANGED backendVars
          /\ at' = "polling"
          /\ started' = TRUE
    /\ UNCHANGED <<closed, budget, latest, waiting, newest>>

\* Inside engine.start.  A failure to submit leaves _started unset.
Launch ==
    /\ at = "launching"
    /\ InsideEngine
    /\ LET failed == pc = "starting" /\ pc' = "idle"
       IN  /\ at' = CASE failed -> "idle"
                      [] pc' = "idle" /\ ~failed -> "polling"
                      [] OTHER -> "launching"
           /\ started' = (at' = "polling")
    /\ UNCHANGED <<closed, budget, latest, waiting, newest>>

\* MaxSubmits, the bound on sequence numbers, also ends a round.
CanTake ==
    /\ budget > 0
    /\ completionQueue # <<>>
    /\ running => nextSequence < MaxSubmits

Process ==
    /\ at = "polling"
    /\ CanTake
    /\ TakeResult
    /\ UNCHANGED backendVars
    /\ at' = "handling"
    /\ budget' = budget - 1
    /\ waiting' = waiting \ {Head(completionQueue).sequence}
    /\ UNCHANGED <<started, closed, latest, newest>>

\* Inside _process_result.  An exception of the decoder, or of a refused submission,
\* leaves read_frame once the slot has been handled.
HandleResult ==
    /\ at \in {"handling", "raising"}
    /\ InsideEngine
    /\ LET raises == at = "raising" \/ escaped' # escaped
           refused == pc = "recycling" /\ running /\ pc' = "idle"
       IN  at' = CASE pc' # "idle" -> IF raises THEN "raising" ELSE "handling"
                   [] pc' = "idle" /\ (raises \/ refused) -> "idle"
                   [] OTHER -> "polling"
    /\ newest' = IF stats'.decoded > stats.decoded THEN current.sequence ELSE newest
    /\ UNCHANGED <<started, closed, budget, latest, waiting>>

EndOfRound_LeavesOne ==
    /\ at = "polling"
    /\ ~CanTake \/ Len(completionQueue) = 1
    /\ at' = "draining"
    /\ UNCHANGED <<vars, callVars>>

EndOfRound ==
    /\ at = "polling"
    /\ ~CanTake
    /\ at' = "draining"
    /\ UNCHANGED <<vars, callVars>>

\* engine.frames() is drained and its last frame kept.
DrainFrame ==
    /\ at = "draining"
    /\ TakeFrame
    /\ latest' = Head(outputQueue)
    /\ UNCHANGED <<backendVars, at, started, closed, budget, waiting, newest>>

FrameReturned == at = "draining" /\ outputQueue = <<>> /\ latest # None

\* The locals of read_frame end with it.
Leave ==
    /\ at' = "idle"
    /\ budget' = 0 /\ latest' = None /\ waiting' = {}
    /\ UNCHANGED <<vars, started, closed, newest>>

ReturnFrame == FrameReturned /\ Leave

\* No frame was queued: another round, unless the deadline has passed.
PollAgain ==
    /\ at = "draining"
    /\ outputQueue = <<>>
    /\ latest = None
    /\ at' = "polling"
    /\ budget' = ProcessLimit
    /\ UNCHANGED <<vars, started, closed, latest, waiting, newest>>

TimesOut ==
    /\ at = "draining"
    /\ outputQueue = <<>>
    /\ latest = None
    /\ Leave

--------------------------------------------------------------------------------
(* close()                                                                  *)

CloseAgain == at = "idle" /\ closed /\ UNCHANGED readerVars

Close ==
    /\ at = "idle"
    /\ ~closed
    /\ closed' = TRUE
    /\ at' = "closing"
    /\ UNCHANGED <<vars, started, budget, latest, waiting, newest>>

\* engine.stop does nothing when the engine does not run and no slot is in use.
CallStop ==
    /\ at = "closing"
    /\ \/ Stop /\ UNCHANGED backendVars /\ at' = "stopping"
       \/ StopAgain /\ UNCHANGED backendVars /\ at' = "idle"
    /\ UNCHANGED callVars

\* Inside engine.stop; an exception leaves close() as well.
Stopping ==
    /\ at = "stopping"
    /\ InsideEngine
    /\ at' = IF pc' = "idle" THEN "idle" ELSE "stopping"
    /\ UNCHANGED callVars

--------------------------------------------------------------------------------

InReadFrame ==
    \/ EnsureStarted \/ Launch
    \/ Process \/ HandleResult \/ EndOfRound
    \/ DrainFrame \/ ReturnFrame \/ PollAgain \/ TimesOut

InClose == CallStop \/ Stopping

Backend ==
    /\ (\E i \in Slots : Transfer(i)) \/ CompletionCounted
    /\ UNCHANGED <<at, callVars>>

ReaderNext ==
    \/ ReadFrame \/ ReadFrameClosed \/ InReadFrame
    \/ Close \/ CloseAgain \/ InClose
    \/ Backend

\* A method that was entered goes on, the deadline of read_frame passes in the end,
\* and the backend keeps its promises.
ReaderSpec ==
    /\ ReaderInit
    /\ [][ReaderNext]_readerVars
    /\ WF_readerVars(InReadFrame \/ InClose)
    /\ SF_readerVars(TimesOut)
    /\ \A i \in Slots : WF_readerVars(Transfer(i) /\ Backend)
    /\ WF_readerVars(CompletionCounted /\ Backend)

--------------------------------------------------------------------------------
(* Properties                                                               *)

\* read_frame returns the frame decoded last, and only after every result that waited
\* when it was called has been decoded or discarded: neither the limit of a round nor a
\* frame left queued by an earlier call, which an exception ended, makes it return less.
\* Last is last in the order of completion, not of submission (a backend may complete
\* reads out of order).  drop_newest, which drops the frames decoded last, is set aside,
\* and so is a round that MaxSubmits ended before the limit.
LatestIsReturned ==
    FrameReturned =>
        /\ budget = 0 \/ nextSequence < MaxSubmits => waiting \cap Waiting = {}
        /\ DropPolicy # "drop_newest" => latest.sequence = newest

\* A reader that submitted anything is closed with its handle: whatever read_frame met,
\* exceptions of the decoder included, engine.stop is not the no-op it is for an
\* engine at rest, and when close() returns nothing is in flight.
UsedReaderReleases ==
    closed /\ at = "idle" /\ nextSequence > 0 => released /\ AllQuiet

\* Documented: when close() returns, engine.stop, the release of the backend and the
\* close of the handle are done.
ClosedReaderReleases == closed /\ at = "idle" => released

\* read_frame returns within its deadline and close() returns, whatever the device does.
CallsReturn == at # "idle" ~> at = "idle"
================================================================================
