--------------------------- MODULE MCClientLoop ---------------------------
(***************************************************************************)
(* ClientLoop for TLC.  The constants have their values in the .cfg files: *)
(* descriptors 3 and 4, streams of a few bytes, and a buffer of two or     *)
(* three, so that short reads, short writes, a full buffer, a TLS record   *)
(* longer than the room left and a reset in the middle of the traffic all  *)
(* happen within the streams' length.                                      *)
(***************************************************************************)
EXTENDS ClientLoop

\* The loop is over; nothing moves any more.  Any other stop is a deadlock.
Finished == pc = "returned" /\ UNCHANGED vars

MCSpec == Init /\ [][Next \/ Finished]_vars

MCFairSpec == MCSpec /\ Fairness
=============================================================================
