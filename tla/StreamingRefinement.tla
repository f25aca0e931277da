-------------------------- MODULE StreamingRefinement --------------------------
(***************************************************************************)
(* The engine on a backend that keeps the protocol implements FrameStream. *)
(* The reads in flight are the ones whose slot the backend holds; the      *)
(* result in hand still counts as arrived until its fate is decided; and a *)
(* frame is known by the bytes it carries, not by the number it shows.     *)
(***************************************************************************)
EXTENDS StreamingSystem

Arrived ==
    (IF pc = "decoding" THEN <<current.sequence>> ELSE <<>>) \o Completed

Stream == INSTANCE FrameStream WITH
    issued <- nextSequence,
    flying <- {slots[i].sequence : i \in {j \in Slots : InFlight(j)}},
    arrived <- Arrived,
    output <- [k \in DOMAIN outputQueue |-> outputQueue[k].data],
    closing <- cancelling

\* Every step of the engine and its backend is a step of FrameStream, or leaves what
\* the program sees of the stream alone; and reads in flight keep landing.
ImplementsFrameStream == Stream!StreamSpec
================================================================================
