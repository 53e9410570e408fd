------------------------------ MODULE MCClient ------------------------------
(***************************************************************************)
(* Client for TLC: an application that may stop calling at any time.       *)
(***************************************************************************)
EXTENDS Client

Finished == (Ended \/ (Idle /\ calls = MAX_CALLS)) /\ UNCHANGED vars

MCSpec == Init /\ [][Next \/ Finished]_vars
=============================================================================
