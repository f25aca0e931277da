------------------------------- MODULE D3xxNative -------------------------------
(***************************************************************************)
(* D3xxNativeFastPathBackend of ponkan/transport/d3xx_native_streaming.py: *)
(* overlapped reads on one pipe, polled by a completion pump.              *)
(*                                                                         *)
(* Two threads settle reads, each through _settle_slot: the pump, and the  *)
(* caller's own thread when read_pipe_ex answers at once.  A thread is     *)
(*   "free"       outside the calls below (the pump: polling),             *)
(*   "issuing"    in submit_read, in_flight set and the read not issued,   *)
(*   "settling"   at the entry of _settle_slot,                            *)
(*   "claimed"    past the lock, in_flight cleared,                        *)
(*   "copying"    past the check of _cancel_requested,                     *)
(*   "posting"    past the copy of the bytes, at the callback,             *)
(*   "returning"  past the callback's put,                                 *)
(*   "joining"    in release(), waiting for the pump,                      *)
(*   "exited"     (the pump) ended.                                        *)
(*                                                                         *)
(* The driver and the device (FT_ReadPipeEx and its companions, called     *)
(* through d3xx_native.py) are external: reads on the pipe finish in the   *)
(* order of their issue, FT_AbortPipe ends the pending ones with an error, *)
(* and the driver remembers the last result of every overlapped structure. *)
(***************************************************************************)
EXTENDS BufferPool, Sequences

CONSTANTS
    ReadsEndAtOnce,  \* read_pipe_ex may answer FT_OK or an error instead of pending
    StaleStatus,     \* polling a read that is not issued yet may report a result
    NativeCallsFail  \* native calls may raise, drain and join may time out

ASSUME NativeAssumption ==
    /\ ReadsEndAtOnce \in BOOLEAN
    /\ StaleStatus \in BOOLEAN
    /\ NativeCallsFail \in BOOLEAN

VARIABLES
    inFlight,      \* native_slot.in_flight
    status,        \* what the driver reports of each slot's overlapped structure
    pipe,          \* pending reads at the device, oldest first
    nativeBytes,   \* the bytes in each native buffer: the sequence of the read
    thread,        \* what the caller's and the pump's threads do
    polls,         \* the slots the pump has still to poll in this round
    cancelRequested,
    nativeReleased,
    handleClosed

nativeVars == <<inFlight, status, pipe, nativeBytes, thread, polls, cancelRequested,
                nativeReleased, handleClosed>>
flagVars == <<cancelRequested, nativeReleased, handleClosed>>

Threads == {"caller", "pump"}

ThreadState == [at : {"free", "issuing", "settling", "claimed", "copying", "posting",
                      "returning", "joining", "exited"},
                slot : Slots \cup {None},
                outcome : Outcomes \cup {None}]

Idle == [at |-> "free", slot |-> None, outcome |-> None]

NativeTypeOK ==
    /\ inFlight \in [Slots -> BOOLEAN]
    /\ status \in [Slots -> {"unissued", "pending"} \cup Outcomes]
    /\ pipe \in Seq([slot : Slots, sequence : Nat])
    /\ nativeBytes \in [Slots -> Nat \cup {None}]
    /\ thread \in [Threads -> ThreadState]
    /\ polls \subseteq Slots
    /\ cancelRequested \in BOOLEAN
    /\ nativeReleased \in BOOLEAN
    /\ handleClosed \in BOOLEAN

NativeInit ==
    /\ inFlight = [i \in Slots |-> FALSE]
    /\ status = [i \in Slots |-> "unissued"]
    /\ pipe = <<>>
    /\ nativeBytes = [i \in Slots |-> None]
    /\ thread = [t \in Threads |-> Idle]
    /\ polls = {}
    /\ cancelRequested = FALSE
    /\ nativeReleased = FALSE
    /\ handleClosed = FALSE

CallerFree == thread["caller"].at = "free"

AnyInFlight == \E i \in Slots : inFlight[i]

--------------------------------------------------------------------------------
(* submit_read()                                                            *)

\* Otherwise submit_read raises, before it changes anything.
CanReserve(i) == ~nativeReleased /\ ~cancelRequested /\ ~inFlight[i]

\* The overlapped structure keeps what the driver said of the slot's last read.
ReserveRead(i) ==
    /\ CallerFree
    /\ CanReserve(i)
    /\ inFlight' = [inFlight EXCEPT ![i] = TRUE]
    /\ thread' = [thread EXCEPT !["caller"] = [Idle EXCEPT !.at = "issuing", !.slot = i]]
    /\ UNCHANGED <<status, pipe, nativeBytes, polls, flagVars>>

\* The bytes of a read that ended with this outcome are in the native buffer.
Received(i, outcome, sequence) ==
    nativeBytes' = IF outcome = "error" THEN nativeBytes
                   ELSE [nativeBytes EXCEPT ![i] = sequence]

IssuePending(sequence) ==
    LET i == thread["caller"].slot
    IN  /\ thread["caller"].at = "issuing"
        /\ pipe' = Append(pipe, [slot |-> i, sequence |-> sequence])
        /\ status' = [status EXCEPT ![i] = "pending"]
        /\ thread' = [thread EXCEPT !["caller"] = Idle]
        /\ UNCHANGED <<inFlight, nativeBytes, polls, flagVars>>

IssueAtOnce(sequence, outcome) ==
    LET i == thread["caller"].slot
    IN  /\ ReadsEndAtOnce
        /\ thread["caller"].at = "issuing"
        /\ status' = [status EXCEPT ![i] = outcome]
        /\ Received(i, outcome, sequence)
        /\ thread' = [thread EXCEPT !["caller"].at = "settling",
                                    !["caller"].outcome = outcome]
        /\ UNCHANGED <<inFlight, pipe, polls, flagVars>>

--------------------------------------------------------------------------------
(* The driver                                                               *)

\* A pending read ends, at the latest at the timeout of its pipe.
ReadFinishes(outcome) ==
    /\ pipe # <<>>
    /\ pipe' = Tail(pipe)
    /\ status' = [status EXCEPT ![Head(pipe).slot] = outcome]
    /\ Received(Head(pipe).slot, outcome, Head(pipe).sequence)
    /\ UNCHANGED <<inFlight, thread, polls, flagVars>>

\* FT_AbortPipe.
Abort ==
    /\ pipe' = <<>>
    /\ status' = [i \in Slots |-> IF status[i] = "pending" THEN "error" ELSE status[i]]

--------------------------------------------------------------------------------
(* The completion pump                                                      *)

\* A round polls the slots that are in flight when it begins.
BeginRound ==
    /\ thread["pump"].at = "free"
    /\ polls = {}
    /\ AnyInFlight
    /\ polls' = {i \in Slots : inFlight[i]}
    /\ UNCHANGED <<inFlight, status, pipe, nativeBytes, thread, flagVars>>

NotIssued(i) == thread["caller"].at = "issuing" /\ thread["caller"].slot = i

\* What get_overlapped_result may answer besides FT_IO_INCOMPLETE.  The code polls a
\* read it has not issued yet; what the driver says of that is an assumption on it.
Reports(i) ==
    IF ~NotIssued(i)   THEN {status[i]} \cap Outcomes
    ELSE IF StaleStatus THEN Outcomes
    ELSE {}

\* get_overlapped_result without waiting, on the slots of the round in index order.
Poll ==
    \E i \in polls :
        /\ \A j \in polls : i <= j
        /\ thread["pump"].at = "free"
        /\ polls' = polls \ {i}
        /\ \/ /\ Reports(i) = {} \/ NotIssued(i)
              /\ UNCHANGED thread
           \/ \E outcome \in Reports(i) :
                  thread' = [thread EXCEPT !["pump"] = [at |-> "settling", slot |-> i,
                                                        outcome |-> outcome]]
        /\ UNCHANGED <<inFlight, status, pipe, nativeBytes, flagVars>>

PumpExits ==
    /\ thread["pump"].at = "free"
    /\ polls = {}
    /\ nativeReleased
    /\ ~AnyInFlight
    /\ thread' = [thread EXCEPT !["pump"].at = "exited"]
    /\ UNCHANGED <<inFlight, status, pipe, nativeBytes, polls, flagVars>>

--------------------------------------------------------------------------------
(* _settle_slot(), on either thread                                         *)

Claim_Unchecked(t) ==
    LET i == thread[t].slot
    IN  /\ thread[t].at = "settling"
        /\ thread' = [thread EXCEPT ![t].at = "claimed"]
        /\ inFlight' = [inFlight EXCEPT ![i] = FALSE]
        /\ UNCHANGED <<status, pipe, nativeBytes, polls, flagVars>>

Claim_NotWhenCancelled(t) ==
    LET i == thread[t].slot
        goesOn == inFlight[i] /\ ~cancelRequested
    IN  /\ thread[t].at = "settling"
        /\ thread' = [thread EXCEPT ![t] = IF goesOn THEN [@ EXCEPT !.at = "claimed"] ELSE Idle]
        /\ inFlight' = IF goesOn THEN [inFlight EXCEPT ![i] = FALSE] ELSE inFlight
        /\ UNCHANGED <<status, pipe, nativeBytes, polls, flagVars>>

\* Under the lock: the first of two threads that settle a slot goes on.
Claim(t) ==
    LET i == thread[t].slot
    IN  /\ thread[t].at = "settling"
        /\ thread' = [thread EXCEPT ![t] = IF inFlight[i] THEN [@ EXCEPT !.at = "claimed"]
                                                          ELSE Idle]
        /\ inFlight' = [inFlight EXCEPT ![i] = FALSE]
        /\ UNCHANGED <<status, pipe, nativeBytes, polls, flagVars>>

\* A completion after cancellation is dropped.
CheckCancelled(t) ==
    /\ thread[t].at = "claimed"
    /\ thread' = [thread EXCEPT ![t] = IF cancelRequested THEN Idle
                                       ELSE [@ EXCEPT !.at = "copying"]]
    /\ UNCHANGED <<inFlight, status, pipe, nativeBytes, polls, flagVars>>

\* A read that succeeded is copied to the raw slot, which is the engine's; an error
\* aborts the whole pipe, and a failure of that is suppressed.
EndCompletion(t) ==
    /\ thread[t].at = "copying"
    /\ thread' = [thread EXCEPT ![t].at = "posting"]
    /\ \/ thread[t].outcome = "error" /\ Abort
       \/ /\ thread[t].outcome = "error" => NativeCallsFail
          /\ UNCHANGED <<status, pipe>>
    /\ UNCHANGED <<inFlight, nativeBytes, polls, flagVars>>

\* The callback posts its result; the rest of it is the engine's.
PostCompletion(t) ==
    /\ thread[t].at = "posting"
    /\ thread' = [thread EXCEPT ![t].at = "returning"]
    /\ UNCHANGED <<inFlight, status, pipe, nativeBytes, polls, flagVars>>

ReturnFromSettle(t) ==
    /\ thread[t].at = "returning"
    /\ thread' = [thread EXCEPT ![t] = Idle]
    /\ UNCHANGED <<inFlight, status, pipe, nativeBytes, polls, flagVars>>

--------------------------------------------------------------------------------
(* cancel_all(), drain() and release(), on the caller's thread              *)

CancelNative ==
    /\ cancelRequested' = TRUE
    /\ Abort
    /\ UNCHANGED <<inFlight, nativeBytes, thread, polls, nativeReleased, handleClosed>>

\* abort_pipe raises after the flag was set.
CancelNativeRaises ==
    /\ NativeCallsFail
    /\ cancelRequested' = TRUE
    /\ UNCHANGED <<inFlight, status, pipe, nativeBytes, thread, polls, nativeReleased,
                   handleClosed>>

NativeDrained == ~AnyInFlight

\* The deadline is looked at only while a read is in flight.
NativeDrainTimesOut == NativeCallsFail /\ AnyInFlight

\* release() up to the join: nothing is in flight when stop() calls it.
BeginRelease ==
    /\ ~nativeReleased
    /\ NativeDrained
    /\ nativeReleased' = TRUE
    /\ cancelRequested' = TRUE
    /\ Abort
    /\ thread' = [thread EXCEPT !["caller"].at = "joining"]
    /\ UNCHANGED <<inFlight, nativeBytes, polls, handleClosed>>

\* A second release() does nothing, also when the first one was interrupted.
ReleaseAgain == nativeReleased /\ UNCHANGED nativeVars

\* The second abort_pipe raises; _released is set and nothing else is released.
BeginReleaseRaises ==
    /\ NativeCallsFail
    /\ ~nativeReleased
    /\ nativeReleased' = TRUE
    /\ cancelRequested' = TRUE
    /\ UNCHANGED <<inFlight, status, pipe, nativeBytes, thread, polls, handleClosed>>

JoinPump_Skipped ==
    /\ thread["caller"].at = "joining"
    /\ handleClosed' = TRUE
    /\ thread' = [thread EXCEPT !["caller"] = Idle]
    /\ UNCHANGED <<inFlight, status, pipe, nativeBytes, polls, cancelRequested,
                   nativeReleased>>

\* After the join the overlapped structures are released and the handle is closed,
\* also when the join gave up.  A handle whose FT_Close fails counts as closed as well.
JoinPump ==
    /\ thread["caller"].at = "joining"
    /\ thread["pump"].at = "exited" \/ NativeCallsFail
    /\ handleClosed' = TRUE
    /\ thread' = [thread EXCEPT !["caller"] = Idle]
    /\ UNCHANGED <<inFlight, status, pipe, nativeBytes, polls, cancelRequested,
                   nativeReleased>>

\* release_overlapped raises: the handle stays open.
ReleaseOverlappedRaises ==
    /\ NativeCallsFail
    /\ thread["caller"].at = "joining"
    /\ thread' = [thread EXCEPT !["caller"] = Idle]
    /\ UNCHANGED <<inFlight, status, pipe, nativeBytes, polls, flagVars>>
================================================================================
