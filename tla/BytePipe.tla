----------------------------- MODULE BytePipe -----------------------------
(***************************************************************************)
(* What one direction of the relay promises, with no loop, descriptor or   *)
(* array in it: a pipe that accepts the bytes of a stream, holds at most   *)
(* Capacity of them, and delivers each of them once and in order until it  *)
(* is shut.  Bytes accepted and not delivered when the pipe is shut are    *)
(* lost; nothing else ever is.                                             *)
(***************************************************************************)
EXTENDS Naturals, Sequences

CONSTANT Capacity

VARIABLES
  accepted,   \* how many bytes of the stream have entered the pipe
  delivered,  \* the bytes that have left it, in the order they left
  shut        \* TRUE once the pipe carries nothing any more

pipeVars == <<accepted, delivered, shut>>

Init == accepted = 0 /\ delivered = <<>> /\ shut = FALSE

Accept ==
  /\ ~shut
  /\ \E k \in 1 .. Capacity :
       /\ accepted + k <= Len(delivered) + Capacity
       /\ accepted' = accepted + k
  /\ UNCHANGED <<delivered, shut>>

\* The last delivery may be what the pipe is shut with.
Deliver ==
  /\ ~shut
  /\ \E n \in 1 .. Capacity :
       /\ Len(delivered) + n <= accepted
       /\ delivered' = delivered \o [i \in 1 .. n |-> Len(delivered) + i]
  /\ shut' \in BOOLEAN
  /\ UNCHANGED accepted

Shut == ~shut /\ shut' = TRUE /\ UNCHANGED <<accepted, delivered>>

Next == Accept \/ Deliver \/ Shut

Spec == Init /\ [][Next]_pipeVars
=============================================================================
