------------------------------ MODULE Connect ------------------------------
(***************************************************************************)
(* qvd_connect_to_vm and _qvd_proxy_connect of qvdclientcore.c: the        *)
(* handshake, the NX transport and the relay as one call, on a handle that *)
(* may have connected before.  Another thread, or a callback, may call     *)
(* qvd_end_connection at any point of it.                                  *)
(*                                                                         *)
(* The handshake and the relay are the modules Handshake and ClientLoop;   *)
(* here they are calls that return one of the results those modules        *)
(* return.  A descriptor of the n-th socket pair is <<n, 0>> or <<n, 1>>.  *)
(***************************************************************************)
EXTENDS CertDir, Integers

VARIABLES
  step,            \* where the call is, "idle" when none is running
  home,            \* qvd->home, "unset" when empty
  nx_home,         \* the environment variable NX_HOME
  home_at_start,   \* qvd->home when the call began
  connect_only,    \* CURLOPT_CONNECT_ONLY of qvd->curl
  end_connection,
  result,          \* what the loop returned, then what the call returns
  pairs,           \* socket pairs made so far
  fds,             \* descriptors of those pairs that are open
  nx               \* those of them the NX library has been given

socketVars  == <<pairs, fds, nx>>
homeVars    == <<home, nx_home, home_at_start>>
connectVars == <<step, homeVars, connect_only, end_connection, result, socketVars>>

Steps == {"idle", "certdir", "handshake", "socket", "pair", "transport", "relay",
          "close", "crashed"}

Local  == <<pairs, 1>>   \* proxyPair[1] of the current call
Remote == <<pairs, 0>>   \* proxyPair[0]

Returns(value) == step' = "idle" /\ result' = value

ConnectInit ==
  /\ step = "idle" /\ home = "unset" /\ nx_home = "unset" /\ home_at_start = "unset"
  /\ connect_only = FALSE /\ end_connection \in BOOLEAN /\ result = 0
  /\ pairs = 0 /\ fds = {} /\ nx = {}

\* NX_HOME is set from what qvd->home holds now, before the certificate
\* directory is looked for.  DISPLAY is set likewise.
qvd_connect_to_vm ==
  /\ step = "idle"
  /\ step' = "certdir" /\ home_at_start' = home
  /\ nx_home' = IF home = "unset" THEN nx_home ELSE home
  /\ UNCHANGED <<home, connect_only, end_connection, result, socketVars>>

\* Only now is a request to end that is left from before forgotten.
ConnectCertDir ==
  /\ step = "certdir"
  /\ \E ok \in BOOLEAN :
       /\ _qvd_set_certdir(home, home', ok)
       /\ IF ok THEN step' = "handshake" /\ end_connection' = FALSE /\ UNCHANGED result
                ELSE Returns(5) /\ UNCHANGED end_connection
  /\ connect_only' = (connect_only \/ step' = "handshake")
  /\ UNCHANGED <<nx_home, home_at_start, socketVars>>

\* What _qvd_switch_protocols returns, and whether a receive succeeded, with
\* nothing at the end of the stream, so that qvd->buffer.data was written to.  0: upgraded; 1: the request was not sent; 2:
\* the wait failed or took too long; 7 and 8: refused, and the rest of the answer
\* did or did not arrive.  Handshake shows that 0, 7 and 8 take an answer.
HandshakeOutcome(value, heard) ==
  \/ value = 1 /\ ~heard
  \/ value = 2
  \/ value \in {0, 7, 8} /\ heard

\* Mutant: the request to end is forgotten once the server has answered.
HandshakeForgets(heard) ==
  /\ step = "handshake"
  /\ \E r \in 0 .. 8 :
       /\ HandshakeOutcome(r, heard)
       /\ IF r = 0 THEN step' = "socket" /\ UNCHANGED result ELSE Returns(r)
  /\ end_connection' = FALSE
  /\ UNCHANGED <<homeVars, connect_only, socketVars>>

\* _qvd_switch_protocols returns; heard tells whether it wrote to the buffer.
HandshakeReturns(heard) ==
  /\ step = "handshake"
  /\ \E r \in 0 .. 8 :
       /\ HandshakeOutcome(r, heard)
       /\ IF r = 0 THEN step' = "socket" /\ UNCHANGED result ELSE Returns(r)
  /\ UNCHANGED <<homeVars, connect_only, end_connection, socketVars>>

\* The refusal had no empty line and no length: a NULL pointer is printed.
HandshakeCrashes ==
  /\ step = "handshake"
  /\ step' = "crashed"
  /\ UNCHANGED <<homeVars, connect_only, end_connection, result, socketVars>>

LastSocket ==
  /\ step = "socket"
  /\ \/ step' = "pair" /\ UNCHANGED result
     \/ Returns(7)
  /\ UNCHANGED <<homeVars, connect_only, end_connection, socketVars>>

SocketPair ==
  /\ step = "pair"
  /\ step' = "transport" /\ pairs' = pairs + 1
  /\ fds' = fds \cup {<<pairs', 0>>, <<pairs', 1>>}
  /\ UNCHANGED <<homeVars, connect_only, end_connection, result, nx>>

SocketPairFails ==
  /\ step = "pair"
  /\ Returns(4)
  /\ UNCHANGED <<homeVars, connect_only, end_connection, socketVars>>

NXTransCreate ==
  /\ step = "transport"
  /\ step' = "relay" /\ nx' = nx \cup {Remote}
  /\ UNCHANGED <<homeVars, connect_only, end_connection, result, pairs, fds>>

\* The pair stays open.
NXTransCreateFails ==
  /\ step = "transport"
  /\ Returns(4)
  /\ UNCHANGED <<homeVars, connect_only, end_connection, socketVars>>

\* _qvd_client_loop returns.  That it does once it is asked to end is EndHonoured
\* of ClientLoop.
LoopReturns ==
  /\ step = "relay"
  /\ step' = "close" /\ result' \in {0, 1, -1}
  /\ UNCHANGED <<homeVars, connect_only, end_connection, socketVars>>

\* Mutant: a relay that failed returns at once.
CloseOnSuccess ==
  /\ step = "close"
  /\ Returns(IF result = 0 THEN 0 ELSE 6)
  /\ fds' = IF result = 0 THEN fds \ {Local} ELSE fds
  /\ UNCHANGED <<homeVars, connect_only, end_connection, pairs, nx>>

CloseProxyFd ==
  /\ step = "close"
  /\ Returns(IF result = 0 THEN 0 ELSE 6)
  /\ fds' = fds \ {Local}
  /\ UNCHANGED <<homeVars, connect_only, end_connection, pairs, nx>>

qvd_end_connection ==
  /\ end_connection' = TRUE
  /\ UNCHANGED <<step, homeVars, connect_only, result, socketVars>>

ConnectStep(heard) ==
  \/ ConnectCertDir
  \/ HandshakeReturns(heard)
  \/ HandshakeCrashes
  \/ LastSocket
  \/ SocketPair \/ SocketPairFails
  \/ NXTransCreate \/ NXTransCreateFails
  \/ LoopReturns \/ CloseProxyFd
=============================================================================
