------------------------------ MODULE FrameStream ------------------------------
(***************************************************************************)
(* What the streaming engine promises the program that uses it, without    *)
(* slots, threads or callbacks: numbered reads are issued in order, at     *)
(* most RawSlots of them are outstanding, each arrives at most once, the   *)
(* arrived ones are decoded one by one in the order of arrival, and each   *)
(* yields at most one frame, which the output queue keeps or loses by the  *)
(* drop policy.  A frame is identified with the read whose bytes it shows. *)
(***************************************************************************)
EXTENDS FrameQueue, FiniteSets

CONSTANT RawSlots

VARIABLES
    issued,   \* how many sequence numbers were used
    flying,   \* the reads in flight
    arrived,  \* the reads that completed and were not decoded yet, oldest first
    output,   \* the frames waiting for the consumer, oldest first
    closing   \* the stream was cancelled

streamVars == <<issued, flying, arrived, output, closing>>

StreamInit ==
    /\ issued = 0
    /\ flying = {}
    /\ arrived = <<>>
    /\ output = <<>>
    /\ closing = FALSE

Issue ==
    /\ ~closing
    /\ Cardinality(flying) + Len(arrived) < RawSlots
    /\ flying' = flying \cup {issued}
    /\ issued' = issued + 1
    /\ UNCHANGED <<arrived, output, closing>>

\* A closing stream takes no reads, though a sequence number is used up.
Refuse ==
    /\ closing
    /\ issued' = issued + 1
    /\ UNCHANGED <<flying, arrived, output, closing>>

Arrive(s) ==
    /\ flying' = flying \ {s}
    /\ arrived' = Append(arrived, s)
    /\ UNCHANGED <<issued, output, closing>>

Lose(s) ==
    /\ closing
    /\ flying' = flying \ {s}
    /\ UNCHANGED <<issued, arrived, output, closing>>

\* The oldest arrived read becomes a frame, or nothing if it failed or is malformed.
Decode ==
    /\ arrived # <<>>
    /\ arrived' = Tail(arrived)
    /\ output' = output \/ output' = PutFrame(output, Head(arrived))
    /\ UNCHANGED <<issued, flying, closing>>

Take ==
    /\ output # <<>>
    /\ output' = Tail(output)
    /\ UNCHANGED <<issued, flying, arrived, closing>>

Close ==
    /\ closing' = TRUE
    /\ UNCHANGED <<issued, flying, arrived, output>>

Land == \E s \in flying : Arrive(s) \/ Lose(s)

StreamNext == Issue \/ Refuse \/ Land \/ Decode \/ Take \/ Close

\* Reads in flight keep landing.
StreamSpec == StreamInit /\ [][StreamNext]_streamVars /\ WF_streamVars(Land)
================================================================================
