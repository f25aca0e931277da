------------------------------ MODULE AsyncBackend ------------------------------
(***************************************************************************)
(* What StreamingEngine may assume of a backend: the AsyncTransferBackend  *)
(* protocol of ponkan/transport/libusb_async.py.                           *)
(*                                                                         *)
(* transfer[i] is the backend's side of slot i:                            *)
(*   "idle"       no submitted work,                                       *)
(*   "pending"    submitted and not settled,                               *)
(*   an outcome   settled: the backend saw no cancellation and is about to *)
(*                run the callback with that outcome.                      *)
(* The bytes of a read reach the slot's buffer before the transfer leaves  *)
(* "pending"; the composition with the engine writes them.                 *)
(***************************************************************************)
EXTENDS BufferPool

VARIABLES transfer,
          cancelling,  \* cancel_all() was called
          released     \* release() was called: the device handle is closed

backendVars == <<transfer, cancelling, released>>

BackendTypeOK ==
    /\ transfer \in [Slots -> {"idle", "pending"} \cup Outcomes]
    /\ cancelling \in BOOLEAN
    /\ released \in BOOLEAN

BackendInit ==
    /\ transfer = [i \in Slots |-> "idle"]
    /\ cancelling = FALSE
    /\ released = FALSE

\* Otherwise submit_read raises.
Accepting == ~cancelling /\ ~released

SubmitRead(i) ==
    /\ Accepting
    /\ transfer' = [transfer EXCEPT ![i] = "pending"]
    /\ UNCHANGED <<cancelling, released>>

\* The read is over and the completion is not ignored.
Settle(i, outcome) ==
    /\ transfer[i] = "pending"
    /\ ~cancelling
    /\ transfer' = [transfer EXCEPT ![i] = outcome]
    /\ UNCHANGED <<cancelling, released>>

Abandon_NeverSettles(i) ==
    /\ transfer[i] = "pending"
    /\ cancelling
    /\ UNCHANGED backendVars

\* The read is cancelled, or finishes and its completion is ignored.
Abandon(i) ==
    /\ transfer[i] = "pending"
    /\ cancelling
    /\ transfer' = [transfer EXCEPT ![i] = "idle"]
    /\ UNCHANGED <<cancelling, released>>

Callback_Twice(i) ==
    /\ transfer[i] \in Outcomes
    /\ UNCHANGED backendVars

\* The callback runs; what it does is the engine's.
Callback(i) ==
    /\ transfer[i] \in Outcomes
    /\ transfer' = [transfer EXCEPT ![i] = "idle"]
    /\ UNCHANGED <<cancelling, released>>

CancelAll ==
    /\ cancelling' = TRUE
    /\ UNCHANGED <<transfer, released>>

\* All submitted work has been completed or cancelled (drain() returns).
Quiet == \A i \in Slots : transfer[i] = "idle"

ReleaseBackend ==
    /\ cancelling' = TRUE
    /\ released' = TRUE
    /\ UNCHANGED transfer
================================================================================
