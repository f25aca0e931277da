------------------------------ MODULE FrameQueue ------------------------------
(***************************************************************************)
(* The decoded-frame queue between the streaming engine and its consumer:  *)
(* BoundedFrameQueue and put_frame_with_policy of                          *)
(* ponkan/streaming/policies.py, as operators on the sequence of queued    *)
(* frames, oldest first.                                                   *)
(*                                                                         *)
(* The engine always delivers outside the callback thread (callback_thread *)
(* is FALSE in its only call) and DropPolicy is one of the three literals, *)
(* so the RuntimeError and ValueError exits of put_frame_with_policy are   *)
(* ruled out by FrameQueueAssumption.                                      *)
(***************************************************************************)
EXTENDS Naturals, Sequences

CONSTANTS OutputQueueSize,  \* max_size of the queue
          DropPolicy        \* what happens to a frame that finds it full

Policies == {"drop_oldest", "drop_newest", "block"}

ASSUME FrameQueueAssumption ==
    /\ OutputQueueSize \in Nat \ {0}
    /\ DropPolicy \in Policies

Full_OneTooMany(q) == Len(q) > OutputQueueSize
Full(q) == Len(q) >= OutputQueueSize

Retains_Always(q) == TRUE
\* drop_newest is the only policy under which a decoded frame is not retained.
Retains(q) == Full(q) => DropPolicy # "drop_newest"

Drops_OnlyNewest(q) == Full(q) /\ DropPolicy = "drop_newest"
\* A full queue loses exactly one frame, the new one or the oldest one, except
\* under "block", which appends past the capacity.
Drops(q) == Full(q) /\ DropPolicy # "block"

\* The queue after put_frame_with_policy(queue, frame, DropPolicy, stats).
PutFrame(q, frame) ==
    CASE ~Retains(q)                            -> q
      [] Full(q) /\ DropPolicy = "drop_oldest" -> Append(Tail(q), frame)
      [] OTHER                                  -> Append(q, frame)
================================================================================
