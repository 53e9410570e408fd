---------------------------- MODULE MCHandshake ----------------------------
(***************************************************************************)
(* Handshake for TLC: one script for each kind of answer, alone and after  *)
(* a progress message.                                                     *)
(***************************************************************************)
EXTENDS Handshake

Upgrade  == <<"HTTP/1.1", "101", "blank">>
Progress == <<"HTTP/1.1", "102", "blank">>
Refusal  == <<"HTTP/1.1", "final", "length", "blank", "body", "body">>
Endless  == <<"HTTP/1.1", "final", "blank", "body">>
Garbled  == <<"HTTP/1.1", "final", "badlength", "blank", "body">>

MCScripts == {<<>>, Upgrade, Progress \o Upgrade, Refusal, Progress \o Refusal,
              Endless, Garbled}

\* A new handle, a buffer full of a list, and the answers of earlier handshakes: a
\* refusal, and an upgrade received together with the progress before it.
MCLeft == {<<>>, [i \in 1 .. BUFFER_TOKENS |-> "body"], Refusal, Progress \o Upgrade}

\* A negative garbage value, zero, and one that no content reaches.
MCUnset == {-1, 0, 1000}

Finished == Ended /\ UNCHANGED vars

MCSpec == Init /\ [][Next \/ Finished]_vars /\ Fairness
=============================================================================
