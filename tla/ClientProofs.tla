---------------------------- MODULE ClientProofs ----------------------------
(***************************************************************************)
(* Proofs about Client, for every number of calls, every size of a         *)
(* response and of the buffer, every set of homes and directories, and     *)
(* whatever allocation, transfer or connection fails.                      *)
(*                                                                         *)
(* The invariant has six parts, each about a part of the handle: the call  *)
(* that runs (ControlInv), the sockets of its connections (SocketInv), its *)
(* homes (HomeInv), the response buffer (BufferInv), the list (ListInv)    *)
(* and what earlier lists have lost (LossInv).  Each part is kept by every *)
(* step, given those parts before it that its lemma names.                 *)
(***************************************************************************)
EXTENDS Client, VmListProofs, FiniteSetTheorems

\* The calls in which a request is running.
Requesting == {"list", "stop", "parse", "malloc", "append"}

HomePaths == Homes \cup {HOME, APPDATA, "unset"}

\* One call runs at a time and needs the handle; what it returns is not decided
\* before it ends; a connection is under way only on a curl handle that is no
\* longer fit for requests.
ControlInv ==
  /\ pc \in {"idle", "crashed", "undefined"} \cup Requesting /\ step \in Steps
  /\ calls \in 0 .. MAX_CALLS /\ handle \in BOOLEAN /\ curls \in Nat
  /\ home \in HomePaths /\ nx_home \in HomePaths
  /\ connect_only \in BOOLEAN /\ end_connection \in BOOLEAN /\ result \in -1 .. 8
  /\ use_client_cert \in BOOLEAN /\ sslcert \in BOOLEAN
  /\ payment_required \in BOOLEAN /\ starved \in BOOLEAN
  /\ handle => curls >= 1
  /\ pc \in Requesting => handle /\ returned = "nothing"
  /\ step # "idle" => pc = "idle" /\ handle /\ returned = "nothing"
  /\ step \notin {"idle", "certdir"} => connect_only

LEMMA ControlStep == ControlInv /\ [Next]_vars => ControlInv'
<1> SUFFICES ASSUME ControlInv, [Next]_vars PROVE ControlInv'
  OBVIOUS
<1> USE ClientAssumption
        DEF ControlInv, Requesting, HomePaths, Steps, Call, Idle, Return, Returns,
            _qvd_init_curl, certVars, listVars, bodyVars, clientVars, connectVars,
            homeVars, socketVars
<1>0. ASSUME Call PROVE calls' \in 0 .. MAX_CALLS
  BY <1>0
<1>1. CASE InitFails \/ InitUndefined
  BY <1>0, <1>1 DEF InitFails, InitUndefined
<1>17. CASE InitStarves
  <2>1. connect_only' \in BOOLEAN /\ sslcert' \in BOOLEAN /\ starved' \in BOOLEAN
    BY <1>17 DEF InitStarves
  <2>2. curls' \in Nat /\ ~handle /\ handle' = handle
    BY <1>17 DEF InitStarves
  <2> QED
    BY <1>0, <1>17, <2>1, <2>2 DEF InitStarves
<1>2. CASE qvd_init
  <2>1. /\ connect_only' \in BOOLEAN /\ sslcert' \in BOOLEAN /\ use_client_cert' \in BOOLEAN
        /\ handle' \in BOOLEAN /\ payment_required' \in BOOLEAN
    BY <1>2 DEF qvd_init
  <2>2. curls' \in Nat /\ curls' >= 1
    BY <1>2 DEF qvd_init
  <2> QED
    BY <1>0, <1>2, <2>1, <2>2 DEF qvd_init
<1>3. CASE qvd_free
  <2>1. handle' \in BOOLEAN /\ ~handle'
    BY <1>3, Zenon DEF qvd_free
  <2>2. curls' \in Nat /\ pc' \in {"idle", "crashed"}
    BY <1>3 DEF qvd_free
  <2> QED
    BY <1>0, <1>3, <2>1, <2>2 DEF qvd_free
<1>4. ASSUME NEW path \in Homes, qvd_set_home(path) PROVE ControlInv'
  BY <1>4 DEF qvd_set_home
<1>5. ASSUME NEW enable \in BOOLEAN, qvd_set_cert_files(enable) PROVE ControlInv'
  BY <1>5 DEF qvd_set_cert_files
<1>6. ASSUME NEW request \in {"list", "stop"}, StartRequest(request) PROVE ControlInv'
  <2>1. home' \in HomePaths
    BY <1>6 DEF StartRequest, _qvd_set_certdir, HomeChosen
  <2> QED
    BY <1>6, <2>1 DEF StartRequest, _qvd_use_client_cert
<1>7. CASE TransferUndefined \/ TransferFails
  BY <1>7 DEF TransferUndefined, TransferFails
<1>8. CASE TransferEnds
  BY <1>8 DEF TransferEnds
<1>9. CASE ParseFails \/ ParseSucceeds
  BY <1>9 DEF ParseFails, ParseSucceeds
<1>10. CASE MallocList \/ MallocListFails
  <2>1. CASE MallocList
    BY <2>1 DEF MallocList
  <2>2. CASE MallocListFails
    BY <2>2 DEF MallocListFails
  <2> QED
    BY <1>10, <2>1, <2>2
<1>11. CASE AppendVm \/ ReturnList
  <2>1. CASE AppendVm
    <3>1. starved' \in BOOLEAN
      BY <2>1 DEF AppendVm
    <3> QED
      BY <2>1, <3>1 DEF AppendVm
  <2>2. CASE ReturnList
    BY <2>2 DEF ReturnList
  <2> QED
    BY <1>11, <2>1, <2>2
<1>12. CASE StartConnect
  BY <1>12 DEF StartConnect, qvd_connect_to_vm
<1>13. ASSUME NEW heard \in BOOLEAN, ConnectStep(heard),
              UNCHANGED <<pc, returned, calls, handle, curls, use_client_cert,
                          payment_required, listVars>>,
              sslcert' \in BOOLEAN
       PROVE  ControlInv'
  <2>1. CASE ConnectCertDir
    <3>1. home' \in HomePaths
      BY <2>1 DEF ConnectCertDir, _qvd_set_certdir, HomeChosen
    <3>2. /\ connect_only' \in BOOLEAN
          /\ step' = "handshake" => connect_only'
      BY <2>1 DEF ConnectCertDir
    <3>3. step' \in {"idle", "handshake"} /\ result' \in -1 .. 8
      BY <2>1 DEF ConnectCertDir
    <3> QED
      BY <1>13, <2>1, <3>1, <3>2, <3>3 DEF ConnectCertDir
  <2>2. CASE HandshakeReturns(heard)
    BY <1>13, <2>2 DEF HandshakeReturns
  <2>3. CASE HandshakeCrashes \/ LastSocket
    BY <1>13, <2>3 DEF HandshakeCrashes, LastSocket
  <2>4. CASE SocketPair \/ SocketPairFails
    BY <1>13, <2>4 DEF SocketPair, SocketPairFails
  <2>5. CASE NXTransCreate \/ NXTransCreateFails
    BY <1>13, <2>5 DEF NXTransCreate, NXTransCreateFails
  <2>6. CASE LoopReturns \/ CloseProxyFd
    BY <1>13, <2>6 DEF LoopReturns, CloseProxyFd
  <2> QED
    BY <1>13, <2>1, <2>2, <2>3, <2>4, <2>5, <2>6 DEF ConnectStep
<1>14. CASE ConnectGoesOn
  BY <1>13, <1>14 DEF ConnectGoesOn, _qvd_use_client_cert
<1>15. CASE EndConnection
  BY <1>15 DEF EndConnection, qvd_end_connection
<1>16. CASE UNCHANGED vars
  BY <1>16 DEF vars
<1> QED
  BY <1>1, <1>2, <1>3, <1>4, <1>5, <1>6, <1>7, <1>8, <1>9, <1>10, <1>11, <1>12,
     <1>14, <1>15, <1>16, <1>17
  DEF Next, Create, Set, Request, qvd_list_of_vm, qvd_stop_vm, RequestGoesOn, Library

-----------------------------------------------------------------------------
(* Connections *)

\* The descriptors are those of pairs that were made; NX holds its end of a pair
\* open, and the other end is open only while that pair's relay runs.
SocketInv ==
  /\ pairs \in Nat /\ fds \subseteq (1 .. pairs) \X {0, 1}
  /\ nx \subseteq fds \cap ((1 .. pairs) \X {0})
  /\ step = "transport" => Remote \in fds /\ pairs >= 1
  /\ \A e \in nx : <<e[1], 1>> \in fds => e[1] = pairs /\ step \in {"relay", "close"}

\* A connection that began with a home that is a directory keeps it, and NX has it.
HomeInv ==
  step \notin {"idle", "crashed"} /\ home_at_start \in Directories =>
    /\ nx_home = home
    /\ step = "certdir" => home = home_at_start

\* What is not a step of a connection leaves it alone, and its sockets but for
\* qvd_free; homes change only between connections.
LEMMA ConnectFrame ==
  [Next]_vars => \/ StartConnect
                 \/ \E heard \in BOOLEAN : ConnectStep(heard)
                 \/ qvd_free
                 \/ /\ UNCHANGED <<step, socketVars, home_at_start>>
                    /\ step = "idle" \/ UNCHANGED <<homeVars, connect_only>>
BY DEF Next, Create, Set, Request, qvd_list_of_vm, qvd_stop_vm, RequestGoesOn, Library,
       ConnectGoesOn, vars, clientVars, connectVars, homeVars, socketVars, Call, Idle,
       InitFails, InitUndefined, InitStarves, qvd_init, qvd_set_home, qvd_set_cert_files,
       StartRequest, TransferUndefined, TransferFails, TransferEnds, ParseFails,
       ParseSucceeds, MallocList, MallocListFails, AppendVm, ReturnList, EndConnection,
       qvd_end_connection

LEMMA SocketStep == ControlInv /\ SocketInv /\ [Next]_vars => SocketInv'
<1> SUFFICES ASSUME ControlInv, SocketInv, [Next]_vars PROVE SocketInv'
  OBVIOUS
<1> USE DEF SocketInv, socketVars, Remote
<1>1. CASE StartConnect
  BY <1>1 DEF StartConnect, qvd_connect_to_vm
<1>2. CASE qvd_free
  BY <1>2 DEF qvd_free, Call, Idle
<1>3. ASSUME NEW heard \in BOOLEAN, ConnectStep(heard) PROVE SocketInv'
  <2>1. CASE ConnectCertDir \/ HandshakeReturns(heard) \/ HandshakeCrashes \/ LastSocket
    BY <2>1 DEF ConnectCertDir, HandshakeReturns, HandshakeCrashes, LastSocket, Returns
  <2>2. CASE SocketPair
    <3>1. step = "pair" /\ step' = "transport" /\ pairs' = pairs + 1 /\ nx' = nx
          /\ fds' = fds \cup {<<pairs + 1, 0>>, <<pairs + 1, 1>>}
      BY <2>2 DEF SocketPair
    <3>2. \A e \in nx : e[1] \in 1 .. pairs /\ <<e[1], 1>> \notin fds
      BY <3>1
    <3>3. pairs' \in Nat /\ fds' \subseteq (1 .. pairs') \X {0, 1}
          /\ nx' \subseteq fds' \cap ((1 .. pairs') \X {0})
      BY <3>1
    <3>4. \A e \in nx : <<e[1], 1>> \notin fds'
      <4>1. TAKE e \in nx
      <4>2. e[1] # pairs + 1
        BY <3>2
      <4>3. <<e[1], 1>> # <<pairs + 1, 0>> /\ <<e[1], 1>> # <<pairs + 1, 1>>
        BY <4>2
      <4> QED
        BY <3>1, <3>2, <4>3
    <3> QED
      BY <3>1, <3>3, <3>4
  <2>3. CASE NXTransCreate
    BY <2>3 DEF NXTransCreate
  <2>4. CASE SocketPairFails \/ NXTransCreateFails
    BY <2>4 DEF SocketPairFails, NXTransCreateFails, Returns
  <2>5. CASE LoopReturns
    BY <2>5 DEF LoopReturns
  <2>6. CASE CloseProxyFd
    BY <2>6 DEF CloseProxyFd, Returns, Local
  <2> QED
    BY <1>3, <2>1, <2>2, <2>3, <2>4, <2>5, <2>6 DEF ConnectStep
<1>4. CASE UNCHANGED <<step, socketVars>>
  BY <1>4
<1> QED
  BY <1>1, <1>2, <1>3, <1>4, ConnectFrame

LEMMA HomeStep == ControlInv /\ HomeInv /\ [Next]_vars => HomeInv'
<1> SUFFICES ASSUME ControlInv, HomeInv, [Next]_vars PROVE HomeInv'
  OBVIOUS
<1> USE DEF HomeInv, homeVars
<1>1. CASE StartConnect
  BY <1>1, DirectoriesAssumption DEF StartConnect, qvd_connect_to_vm
<1>2. CASE qvd_free
  BY <1>2 DEF qvd_free, Call, Idle
<1>3. ASSUME NEW heard \in BOOLEAN, ConnectStep(heard) PROVE HomeInv'
  <2>1. CASE ConnectCertDir
    BY <2>1 DEF ConnectCertDir, _qvd_set_certdir, HomeChosen, MayFail, Returns
  <2>2. CASE HandshakeReturns(heard) \/ HandshakeCrashes \/ LastSocket
    BY <2>2 DEF HandshakeReturns, HandshakeCrashes, LastSocket, Returns
  <2>3. CASE SocketPair \/ SocketPairFails \/ NXTransCreate \/ NXTransCreateFails
    BY <2>3 DEF SocketPair, SocketPairFails, NXTransCreate, NXTransCreateFails, Returns
  <2>4. CASE LoopReturns \/ CloseProxyFd
    BY <2>4 DEF LoopReturns, CloseProxyFd, Returns
  <2> QED
    BY <1>3, <2>1, <2>2, <2>3, <2>4 DEF ConnectStep
<1>4. CASE /\ UNCHANGED <<step, socketVars, home_at_start>>
           /\ step = "idle" \/ UNCHANGED <<homeVars, connect_only>>
  BY <1>4
<1> QED
  BY <1>1, <1>2, <1>3, <1>4, ConnectFrame

LEMMA ControlInit == Init => ControlInv
<1> SUFFICES ASSUME Init PROVE ControlInv
  OBVIOUS
<1>1. /\ handle \in BOOLEAN /\ ~handle /\ connect_only \in BOOLEAN
      /\ end_connection \in BOOLEAN /\ use_client_cert \in BOOLEAN
      /\ sslcert \in BOOLEAN /\ payment_required \in BOOLEAN /\ starved \in BOOLEAN
  BY Zenon DEF Init, ConnectInit
<1>2. /\ pc = "idle" /\ step = "idle" /\ calls = 0 /\ curls = 0 /\ result = 0
      /\ home \in HomePaths /\ nx_home \in HomePaths
  BY DEF Init, ConnectInit, HomePaths
<1> QED
  BY <1>1, <1>2, ClientAssumption DEF ControlInv, Requesting, Steps

LEMMA ConnectInitial == Init => SocketInv /\ HomeInv
BY DEF Init, ConnectInit, SocketInv, HomeInv

\* Between connections every NX transport has been told of the end: its peer is
\* closed on every path that leads out of the relay.
THEOREM PeersClosedAlways == Spec => []PeersClosed
<1>1. SocketInv => PeersClosed
  BY DEF SocketInv, PeersClosed
<1> QED
  BY <1>1, ControlInit, ControlStep, ConnectInitial, SocketStep, PTL DEF Spec

\* NX and the certificates use the same home, if that was a directory when the
\* connection was asked for.
THEOREM NxHomeAlways == Spec => []NxHomeIsOurs
<1>1. HomeInv => NxHomeIsOurs
  BY DEF HomeInv, NxHomeIsOurs
<1> QED
  BY <1>1, ControlInit, ControlStep, ConnectInitial, HomeStep, PTL DEF Spec

\* Only the start of a connection, and qvd_free, forget a request to end.
LEMMA EndKept ==
  ControlInv /\ [Next]_vars /\ end_connection /\ step \notin {"idle", "certdir"}
    => end_connection'
<1> SUFFICES ASSUME ControlInv, [Next]_vars, end_connection, step \notin {"idle", "certdir"}
             PROVE  end_connection'
  OBVIOUS
<1>1. CASE StartConnect \/ qvd_free
  BY <1>1 DEF StartConnect, qvd_connect_to_vm, qvd_free, Call, Idle
<1>2. ASSUME NEW heard \in BOOLEAN, ConnectStep(heard) PROVE end_connection' = end_connection
  BY <1>2 DEF ConnectStep, ConnectCertDir, HandshakeReturns, HandshakeCrashes,
     LastSocket, SocketPair, SocketPairFails, NXTransCreate, NXTransCreateFails,
     LoopReturns, CloseProxyFd
<1>3. CASE EndConnection
  BY <1>3 DEF EndConnection, qvd_end_connection
<1>4. CASE Create \/ Set \/ Request
  BY <1>4 DEF Create, InitFails, InitUndefined, InitStarves, qvd_init, Set, qvd_set_home,
     qvd_set_cert_files, Request, qvd_list_of_vm, qvd_stop_vm, StartRequest, Call, Idle
<1>5. CASE RequestGoesOn \/ UNCHANGED vars
  BY <1>5 DEF RequestGoesOn, TransferUndefined, TransferFails, TransferEnds, ParseFails,
     ParseSucceeds, MallocList, MallocListFails, AppendVm, ReturnList, connectVars, vars
<1> QED
  BY <1>1, <1>2, <1>3, <1>4, <1>5 DEF Next, Library, ConnectGoesOn

\* A request to end made after line 401 is not forgotten while the connection lasts.
THEOREM EndNotLostHolds == Spec => EndNotLost
<1>1. ControlInv /\ [Next]_vars
        => [end_connection /\ step \notin {"idle", "certdir"} => end_connection']_vars
  BY EndKept
<1> QED
  BY <1>1, ControlInit, ControlStep, PTL DEF Spec, EndNotLost

-----------------------------------------------------------------------------
(* The response buffer *)

Pieces == [kind : {"list", "json", "text"}, vms : 0 .. MAX_VMS, from : 0 .. MAX_CALLS]

\* While a handle makes requests the buffer holds no more bodies than it counts
\* units, so what is appended finds room whenever size is within bounds; the body
\* received last is the last one in it, unless it was cut off; and an answer that
\* became the list is alone in it.
BufferInv ==
  /\ buffer \in [data : Seq(Pieces), size : Nat] /\ Len(buffer.data) <= BUFFER_SIZE
  /\ handle /\ ~connect_only => Len(buffer.data) <= buffer.size
  /\ last_body \in 0 .. calls
  /\ buffer.size <= BUFFER_SIZE /\ buffer.data # <<>>
       => buffer.data[Len(buffer.data)].from = last_body
  /\ pc \in {"malloc", "append"} \/ (returned = "list" /\ pc = "idle")
       => Len(buffer.data) = 1 /\ buffer.data[1].vms = numvms

LEMMA BodyFacts ==
  ASSUME NEW body \in Bodies
  PROVE  /\ Units(body) \in Nat
         /\ body # Nothing => /\ body.kind \in {"list", "json", "text"}
                              /\ body.vms \in 0 .. MAX_VMS /\ Units(body) >= 1
BY ClientAssumption DEF Bodies, Nothing, Text, Units

LEMMA TextIsBody == Text \in Bodies /\ Nothing \in Bodies
BY DEF Bodies

\* Every body an answer may have, or that is too long.
LEMMA AnswerFacts ==
  /\ \A a \in Answers : a.body \in Bodies /\ (connect_only => a.body = Nothing)
  /\ \A body \in TooLong : body \in Bodies /\ ~Fits(body) /\ body # Nothing
  /\ connect_only => TooLong = {}
<1>1. \A a \in Answers : a.body \in Bodies /\ (connect_only => a.body = Nothing)
  BY TextIsBody DEF Answers
<1> HIDE DEF Answers
<1>2. \A body \in TooLong : /\ body \in Bodies /\ ~Fits(body)
                            /\ connect_only => body = Nothing
  BY <1>1 DEF TooLong
<1>3. \A body \in TooLong : body # Nothing
  BY <1>2 DEF Fits
<1> QED
  BY <1>1, <1>2, <1>3

\* What a receive does to a buffer that is not past its end.
LEMMA ReceiveFacts ==
  ASSUME ControlInv, BufferInv, NEW body \in Bodies, Receive(body),
         body # Nothing => handle /\ ~connect_only /\ buffer.size <= BUFFER_SIZE
  PROVE  /\ buffer' \in [data : Seq(Pieces), size : Nat] /\ Len(buffer'.data) <= BUFFER_SIZE
         /\ handle /\ ~connect_only => Len(buffer'.data) <= buffer'.size
         /\ last_body' \in 0 .. calls
         /\ buffer'.size <= BUFFER_SIZE /\ buffer'.data # <<>>
              => buffer'.data[Len(buffer'.data)].from = last_body'
         /\ buffer'.size = buffer.size + Units(body)
<1>1. /\ buffer.data \in Seq(Pieces) /\ buffer.size \in Nat /\ Len(buffer.data) \in Nat
      /\ calls \in 0 .. MAX_CALLS /\ BUFFER_SIZE \in Nat
  BY ClientAssumption DEF BufferInv, ControlInv
<1>2. buffer' = QvdBufferAppend(buffer, body)
  BY DEF Receive
<1>3. buffer'.size = buffer.size + Units(body) /\ Units(body) \in Nat
  BY <1>2, BodyFacts DEF QvdBufferAppend
<1>4. CASE body = Nothing
  <2>1. buffer'.data = buffer.data /\ Units(body) = 0 /\ last_body' = last_body
    BY <1>2, <1>4 DEF QvdBufferAppend, Units, Receive
  <2>2. buffer' \in [data : Seq(Pieces), size : Nat]
    BY <1>1, <1>2, <1>3, <1>4 DEF QvdBufferAppend
  <2> QED
    BY <1>1, <1>3, <2>1, <2>2 DEF BufferInv
<1>5. CASE body # Nothing /\ buffer.size = BUFFER_SIZE
  <2>1. buffer'.data = buffer.data /\ last_body' = calls
    BY <1>1, <1>2, <1>5 DEF QvdBufferAppend, Receive
  <2>2. buffer' \in [data : Seq(Pieces), size : Nat]
    BY <1>1, <1>2, <1>3, <1>5 DEF QvdBufferAppend
  <2>3. buffer'.size > BUFFER_SIZE
    BY <1>1, <1>3, <1>5, BodyFacts
  <2> QED
    BY <1>1, <1>3, <1>5, <2>1, <2>2, <2>3 DEF BufferInv
<1>6. CASE body # Nothing /\ buffer.size # BUFFER_SIZE
  <2> DEFINE kind == IF Units(body) <= BUFFER_SIZE - buffer.size THEN body.kind ELSE "text"
             piece == [kind |-> kind, vms |-> body.vms, from |-> calls]
             data == Append(buffer.data, piece)
  <2>1. piece \in Pieces /\ piece.from = calls
    BY <1>1, <1>6, BodyFacts DEF Pieces
  <2>2. buffer.size < BUFFER_SIZE /\ BUFFER_SIZE - buffer.size # 0
    BY <1>1, <1>6
  <2>3. buffer' = [data |-> data, size |-> buffer.size + Units(body)] /\ last_body' = calls
    BY <1>2, <1>6, <2>2 DEF QvdBufferAppend, Receive
  <2> HIDE DEF piece
  <2>4. /\ data \in Seq(Pieces) /\ Len(data) = Len(buffer.data) + 1
        /\ data[Len(data)] = piece
    BY <1>1, <2>1
  <2> HIDE DEF data
  <2>5. buffer' \in [data : Seq(Pieces), size : Nat] /\ buffer'.data = data
    BY <1>1, <1>3, <2>3, <2>4
  <2>6. Len(buffer.data) <= buffer.size /\ Units(body) >= 1
    BY <1>6, BodyFacts DEF BufferInv
  <2>7. Len(buffer'.data) = Len(buffer.data) + 1 /\ buffer'.size = buffer.size + Units(body)
    BY <1>3, <2>4, <2>5
  <2>8. Len(buffer'.data) <= BUFFER_SIZE /\ Len(buffer'.data) <= buffer'.size
    BY <1>1, <1>3, <2>2, <2>6, <2>7
  <2> QED
    BY <1>1, <1>3, <2>1, <2>3, <2>4, <2>5, <2>8
<1> QED
  BY <1>4, <1>5, <1>6

\* Steps that receive nothing leave the buffer alone, but for a new handle's.
LEMMA BufferFrame ==
  [Next]_vars =>
    \/ qvd_init \/ TransferFails \/ TransferEnds \/ ConnectGoesOn
    \/ /\ UNCHANGED bodyVars
       /\ ParseSucceeds \/ UNCHANGED numvms
       /\ handle' /\ ~connect_only' => handle /\ ~connect_only
       /\ pc' = "malloc" => pc = "malloc" \/ ParseSucceeds
       /\ pc' = "append" => pc \in {"malloc", "append"}
       /\ returned' = "list" /\ pc' = "idle"
            => pc = "append" \/ (returned = "list" /\ pc = "idle")
<1> SUFFICES ASSUME [Next]_vars
             PROVE  \/ qvd_init \/ TransferFails \/ TransferEnds \/ ConnectGoesOn
                    \/ /\ UNCHANGED bodyVars
                       /\ ParseSucceeds \/ UNCHANGED numvms
                       /\ handle' /\ ~connect_only' => handle /\ ~connect_only
                       /\ pc' = "malloc" => pc = "malloc" \/ ParseSucceeds
                       /\ pc' = "append" => pc \in {"malloc", "append"}
                       /\ returned' = "list" /\ pc' = "idle"
                            => pc = "append" \/ (returned = "list" /\ pc = "idle")
  OBVIOUS
<1> USE DEF Call, Idle, Return, bodyVars, listVars, connectVars
<1>1. CASE InitFails \/ InitUndefined \/ InitStarves
  BY <1>1 DEF InitFails, InitUndefined, InitStarves
<1>2. CASE qvd_free
  <2>1. ~handle' /\ returned' \in {returned, "nothing"}
    BY <1>2 DEF qvd_free
  <2> QED
    BY <1>2, <2>1 DEF qvd_free
<1>3. CASE Set
  BY <1>3 DEF Set, qvd_set_home, qvd_set_cert_files
<1>4. ASSUME NEW request \in {"list", "stop"}, StartRequest(request)
      PROVE  /\ UNCHANGED <<bodyVars, numvms, connect_only, handle>>
             /\ pc' \in {"list", "stop", "idle"} /\ returned' # "list"
  BY <1>4 DEF StartRequest
<1>5. CASE TransferUndefined \/ StartConnect
  BY <1>5 DEF TransferUndefined, StartConnect, qvd_connect_to_vm, clientVars
<1>9. CASE EndConnection \/ UNCHANGED vars
  BY <1>9 DEF EndConnection, qvd_end_connection, clientVars, vars
<1>6. CASE ParseFails \/ ParseSucceeds
  BY <1>6 DEF ParseFails, ParseSucceeds, clientVars
<1>7. CASE MallocList \/ MallocListFails
  BY <1>7 DEF MallocList, MallocListFails
<1>8. CASE AppendVm \/ ReturnList
  BY <1>8 DEF AppendVm, ReturnList
<1> QED
  BY <1>1, <1>2, <1>3, <1>4, <1>5, <1>6, <1>7, <1>8, <1>9
  DEF Next, Create, Request, qvd_list_of_vm, qvd_stop_vm, RequestGoesOn, Library

LEMMA BufferStep == ControlInv /\ BufferInv /\ [Next]_vars => BufferInv'
<1> SUFFICES ASSUME ControlInv, BufferInv, [Next]_vars PROVE BufferInv'
  OBVIOUS
<1>0. /\ ControlInv' /\ calls \in Nat /\ calls' \in Nat /\ calls <= calls'
      /\ last_body \in 0 .. calls /\ BUFFER_SIZE \in Nat
  <2>1. ControlInv'
    BY ControlStep
  <2>2. calls' \in {calls, calls + 1}
    BY DEF Next, Create, Set, Request, qvd_list_of_vm, qvd_stop_vm, RequestGoesOn, Library,
       ConnectGoesOn, vars, clientVars, Call, InitFails, InitUndefined, InitStarves,
       qvd_init, qvd_set_home, qvd_set_cert_files, StartRequest, TransferUndefined,
       TransferFails, TransferEnds, ParseFails, ParseSucceeds, MallocList, MallocListFails,
       AppendVm, ReturnList, EndConnection, StartConnect, qvd_free
  <2> QED
    BY <2>1, <2>2, ClientAssumption DEF ControlInv, BufferInv
<1>1. CASE qvd_init
  <2>1. /\ buffer' = EmptyBuffer /\ last_body' = 0 /\ pc' = "idle" /\ returned' = "handle"
    BY <1>1 DEF qvd_init, Return
  <2>2. EmptyBuffer \in [data : Seq(Pieces), size : Nat] /\ EmptyBuffer.data = <<>>
        /\ EmptyBuffer.size = 0 /\ Len(EmptyBuffer.data) = 0
    BY DEF EmptyBuffer
  <2> QED
    BY <1>0, <2>1, <2>2 DEF BufferInv
<1>2. CASE TransferFails
  <2>1. PICK body \in Bodies : /\ Receive(body)
                               /\ body # Nothing => buffer.size <= BUFFER_SIZE /\ ~connect_only
    BY <1>2, AnswerFacts, TextIsBody DEF TransferFails
  <2>2. /\ handle /\ UNCHANGED <<handle, connect_only, calls>>
        /\ pc' = "idle" /\ returned' = "null"
    BY <1>2 DEF TransferFails, Return, ControlInv, Requesting, connectVars
  <2> QED
    BY <2>1, <2>2, ReceiveFacts DEF BufferInv
<1>3. CASE TransferEnds
  <2>1. PICK a \in Answers : Receive(a.body) /\ (a.body # Nothing => buffer.size <= BUFFER_SIZE)
    BY <1>3 DEF TransferEnds
  <2>2. a.body \in Bodies /\ (a.body # Nothing => ~connect_only)
    BY AnswerFacts
  <2>3. /\ handle /\ UNCHANGED <<handle, connect_only, calls>>
    BY <1>3 DEF TransferEnds, ControlInv, Requesting, connectVars
  <2>4. pc' = "parse" \/ (pc' = "idle" /\ returned' \in {"null", "stopped"})
    BY <1>3 DEF TransferEnds, Return
  <2> QED
    BY <2>1, <2>2, <2>3, <2>4, ReceiveFacts DEF BufferInv
<1>4. CASE ConnectGoesOn
  <2>1. PICK heard \in BOOLEAN :
          /\ ConnectStep(heard) /\ (heard => step = "handshake")
          /\ IF heard
             THEN /\ buffer' = [buffer EXCEPT
                                  !.data = <<[kind |-> "text", vms |-> 0, from |-> calls]>>]
                  /\ last_body' = calls
             ELSE UNCHANGED bodyVars
    BY <1>4 DEF ConnectGoesOn
  <2>2. /\ pc' = "idle" /\ returned' = "nothing" /\ UNCHANGED <<calls, handle>>
        /\ step # "idle" /\ pc = "idle"
    BY <1>4, <2>1 DEF ConnectGoesOn, ControlInv, ConnectStep, ConnectCertDir,
       HandshakeReturns, HandshakeCrashes, LastSocket, SocketPair, SocketPairFails,
       NXTransCreate, NXTransCreateFails, LoopReturns, CloseProxyFd
  <2>3. (heard => connect_only) /\ (connect_only => connect_only')
    BY <2>1 DEF ControlInv, ConnectStep, ConnectCertDir, HandshakeReturns,
       HandshakeCrashes, LastSocket, SocketPair, SocketPairFails, NXTransCreate,
       NXTransCreateFails, LoopReturns, CloseProxyFd
  <2>4. CASE heard
    <3> DEFINE piece == [kind |-> "text", vms |-> 0, from |-> calls]
               data == <<piece>>
    <3>1. piece \in Pieces /\ piece.from = calls
      BY ClientAssumption DEF Pieces, ControlInv
    <3> HIDE DEF piece
    <3>2. data \in Seq(Pieces) /\ Len(data) = 1 /\ data[1] = piece
      BY <3>1
    <3>3. buffer' = [buffer EXCEPT !.data = data] /\ last_body' = calls
      BY <2>1, <2>4 DEF piece
    <3> HIDE DEF data
    <3>4. buffer' \in [data : Seq(Pieces), size : Nat] /\ buffer'.data = data
      BY <3>2, <3>3 DEF BufferInv
    <3>5. /\ Len(buffer'.data) = 1 /\ Len(buffer'.data) <= BUFFER_SIZE
          /\ buffer'.data[Len(buffer'.data)].from = last_body' /\ last_body' \in 0 .. calls'
      <4>1. buffer'.data = data /\ last_body' = calls /\ calls' = calls
        BY <2>2, <3>3, <3>4
      <4>2. 1 <= BUFFER_SIZE
        BY ClientAssumption
      <4>3. data[Len(data)].from = calls
        BY <3>1, <3>2
      <4>4. Len(buffer'.data) = 1 /\ buffer'.data[Len(buffer'.data)].from = calls
        BY <3>2, <4>1, <4>3
      <4>5. last_body' \in 0 .. calls'
        BY <1>0, <4>1
      <4> QED
        BY <4>1, <4>2, <4>4, <4>5
    <3> QED
      BY <2>2, <2>3, <2>4, <3>4, <3>5 DEF BufferInv
  <2>5. CASE ~heard
    BY <1>0, <2>1, <2>2, <2>3, <2>5 DEF BufferInv, bodyVars
  <2> QED
    BY <2>4, <2>5
<1>5. CASE ParseSucceeds /\ UNCHANGED bodyVars
  <2>1. /\ Len(buffer.data) = 1 /\ numvms' = buffer.data[1].vms
        /\ UNCHANGED <<handle, connect_only>> /\ pc = "parse" /\ pc' \in {"crashed", "malloc"}
    BY <1>5 DEF ParseSucceeds, Parses, connectVars
  <2> QED
    BY <1>0, <1>5, <2>1 DEF BufferInv, bodyVars
<1>6. CASE /\ UNCHANGED <<bodyVars, numvms>>
           /\ handle' /\ ~connect_only' => handle /\ ~connect_only
           /\ pc' = "malloc" => pc = "malloc"
           /\ pc' = "append" => pc \in {"malloc", "append"}
           /\ returned' = "list" /\ pc' = "idle"
                => pc = "append" \/ (returned = "list" /\ pc = "idle")
  BY <1>0, <1>6 DEF BufferInv, bodyVars
<1> QED
  BY <1>1, <1>2, <1>3, <1>4, <1>5, <1>6, BufferFrame

LEMMA BufferInitial == Init => BufferInv
<1> SUFFICES ASSUME Init PROVE BufferInv
  OBVIOUS
<1>1. /\ buffer = EmptyBuffer /\ last_body = 0 /\ calls = 0 /\ ~handle
      /\ pc = "idle" /\ returned = "nothing"
  BY DEF Init
<1>2. EmptyBuffer \in [data : Seq(Pieces), size : Nat] /\ EmptyBuffer.data = <<>>
      /\ EmptyBuffer.size = 0 /\ Len(EmptyBuffer.data) = 0
  BY DEF EmptyBuffer
<1> QED
  BY <1>1, <1>2, ClientAssumption DEF BufferInv

\* A list that is returned was in the last body the handle received, unless it had
\* filled the buffer and what came after it was lost.
THEOREM ListIsLastBodyAlways == Spec => []ListIsLastBody
<1>1. BufferInv => ListIsLastBody
  BY DEF BufferInv, ListIsLastBody, Idle
<1> QED
  BY <1>1, ControlInit, ControlStep, BufferInitial, BufferStep, PTL DEF Spec

\* Only a transfer that fails takes the buffer past its end.
LEMMA OverflowFails ==
  /\ ControlInv /\ BufferInv /\ [Next]_vars
  /\ buffer'.size > BUFFER_SIZE /\ buffer'.size # buffer.size
  => pc' = "idle" /\ returned' = "null"
<1> SUFFICES ASSUME ControlInv, BufferInv, [Next]_vars,
                    buffer'.size > BUFFER_SIZE, buffer'.size # buffer.size
             PROVE  pc' = "idle" /\ returned' = "null"
  OBVIOUS
<1>0. buffer.size \in Nat /\ BUFFER_SIZE \in Nat
  BY ClientAssumption DEF BufferInv
<1>1. CASE qvd_init
  BY <1>0, <1>1 DEF qvd_init, EmptyBuffer
<1>2. CASE TransferFails
  BY <1>2 DEF TransferFails, Return
<1>3. ~TransferEnds
  <2> SUFFICES ASSUME TransferEnds PROVE FALSE
    OBVIOUS
  <2>1. PICK a \in Answers : Receive(a.body) /\ a.body \notin TooLong
    BY DEF TransferEnds
  <2>2. a.body \in Bodies /\ Fits(a.body)
    BY <2>1, AnswerFacts DEF TooLong
  <2>3. buffer'.size = buffer.size + Units(a.body) /\ Units(a.body) \in Nat
    BY <2>1, <2>2, BodyFacts DEF Receive, QvdBufferAppend
  <2> QED
    BY <1>0, <2>2, <2>3 DEF Fits, Units
<1>4. ~ConnectGoesOn
  BY DEF ConnectGoesOn, bodyVars, BufferInv
<1> QED
  BY <1>1, <1>2, <1>3, <1>4, BufferFrame DEF bodyVars

\* A response that does not fit fails the request it came with.
THEOREM OverflowReportedHolds == Spec => OverflowReported
<1>1. ControlInv /\ BufferInv /\ [Next]_vars =>
        [buffer'.size > BUFFER_SIZE /\ buffer'.size # buffer.size
           => pc' = "idle" /\ returned' = "null"]_vars
  BY OverflowFails
<1> QED
  BY <1>1, ControlInit, ControlStep, BufferInitial, BufferStep, PTL DEF Spec, OverflowReported

-----------------------------------------------------------------------------
(* The list *)

\* The pointer of a handle is NULL only after an allocation has failed, and only
\* then is it followed to nothing.  The list is as long as numvms says,
\* and as the last call that made one left it, except while a call makes a new one.
ListInv ==
  /\ memory \in Memories(Addresses) /\ HeadSound(memory)
  /\ numvms \in 0 .. MAX_VMS /\ i \in 0 .. MAX_VMS /\ Len(memory.list) <= 1 + MAX_VMS
  /\ pc = "append" => memory.list # <<>> /\ Len(memory.list) <= 1 + i /\ i <= numvms
  /\ handle /\ memory.list = <<>> => starved
  /\ ListAlive /\ WalksAList
  /\ pc = "append" /\ ~starved => Listed(memory) = i
  /\ handle /\ ~starved /\ pc \in {"idle", "list", "stop", "parse"}
       => Listed(memory) = numvms /\ memory.list = kept.list /\ numvms = kept.numvms

LEMMA NullIsNoAddress == NULL \notin Addresses
BY DEF NULL, Addresses

LEMMA AllocatedFacts ==
  ASSUME NEW A, NEW m \in Memories(A)
  PROVE  ListAllocated(m) <=> Nodes(m) \subseteq m.nodes /\ Vms(m) \subseteq m.vms \cup {NULL}
<1>1. m.list \in Seq(ListNode(A))
  BY MemoryFacts
<1>2. DOMAIN m.list = 1 .. Len(m.list)
  BY <1>1
<1> QED
  BY <1>2 DEF ListAllocated, Nodes, Vms

\* Giving up the pointer to a list.
LEMMA ClearFacts ==
  ASSUME NEW A, NEW m \in Memories(A)
  PROVE  LET r == [m EXCEPT !.list = <<>>] IN
         /\ r \in Memories(A) /\ r.list = <<>> /\ Len(r.list) = 0
         /\ r.nodes = m.nodes /\ r.vms = m.vms /\ Nodes(r) = {} /\ Vms(r) = {}
         /\ HeadSound(r) /\ Listed(r) = 0
<1> DEFINE empty == <<>>
           r == [m EXCEPT !.list = empty]
<1>0. empty \in Seq(ListNode(A)) /\ empty = <<>>
  OBVIOUS
<1> HIDE DEF empty
<1>1. r \in Memories(A) /\ r.list = empty /\ r.nodes = m.nodes /\ r.vms = m.vms
  BY <1>0 DEF Memories
<1> HIDE DEF r
<1>2. r.list = <<>> /\ Len(r.list) = 0 /\ 1 .. Len(r.list) = {}
  BY <1>0, <1>1
<1>3. r = [m EXCEPT !.list = <<>>]
  BY <1>0 DEF r
<1> QED
  BY <1>1, <1>2, <1>3 DEF Nodes, Vms, HeadSound, Listed

\* Steps that leave the list and the handle alone, and where they lead.
LEMMA ListFrame ==
  [Next]_vars =>
    \/ InitStarves \/ qvd_init \/ qvd_free
    \/ ParseSucceeds \/ MallocList \/ MallocListFails \/ AppendVm \/ ReturnList
    \/ /\ UNCHANGED <<listVars, handle>>
       /\ \/ UNCHANGED <<pc, calls>>
          \/ /\ pc = "idle" /\ pc' \in {"idle", "list", "stop", "undefined"}
             /\ calls' = calls + 1
          \/ /\ pc \in {"list", "stop", "parse"} /\ pc' \in {"idle", "parse", "undefined"}
             /\ UNCHANGED calls
<1> USE DEF Call, Idle, Return
<1>1. CASE InitFails \/ InitUndefined
  BY <1>1 DEF InitFails, InitUndefined
<1>2. CASE Set
  BY <1>2 DEF Set, qvd_set_home, qvd_set_cert_files
<1>3. ASSUME NEW request \in {"list", "stop"}, StartRequest(request)
      PROVE  /\ UNCHANGED <<listVars, handle>>
             /\ pc = "idle" /\ pc' \in {"list", "stop", "idle"} /\ calls' = calls + 1
  BY <1>3 DEF StartRequest
<1>4. CASE TransferUndefined \/ TransferFails \/ TransferEnds
  BY <1>4 DEF TransferUndefined, TransferFails, TransferEnds, clientVars
<1>5. CASE StartConnect \/ ConnectGoesOn
  BY <1>5 DEF StartConnect, ConnectGoesOn
<1>6. CASE EndConnection \/ UNCHANGED vars
  BY <1>6 DEF EndConnection, clientVars, vars
<1>7. CASE ParseFails
  BY <1>7 DEF ParseFails, clientVars
<1> QED
  BY <1>1, <1>2, <1>3, <1>4, <1>5, <1>6, <1>7
  DEF Next, Create, Request, qvd_list_of_vm, qvd_stop_vm, RequestGoesOn, Library

LEMMA CallAddress ==
  ASSUME NEW c \in 0 .. MAX_CALLS, NEW n \in 0 .. MAX_VMS PROVE <<c, n>> \in Addresses
BY DEF Addresses

LEMMA ListStep == ControlInv /\ BufferInv /\ ListInv /\ [Next]_vars => ListInv'
<1> SUFFICES ASSUME ControlInv, BufferInv, ListInv, [Next]_vars PROVE ListInv'
  OBVIOUS
<1>0. /\ memory \in Memories(Addresses) /\ HeadSound(memory) /\ NULL \notin Addresses
      /\ numvms \in 0 .. MAX_VMS /\ i \in 0 .. MAX_VMS /\ MAX_VMS \in Nat /\ MAX_CALLS \in Nat
      /\ 0 \in 0 .. MAX_VMS /\ handle \in BOOLEAN /\ starved \in BOOLEAN
      /\ ControlInv' /\ calls \in 0 .. MAX_CALLS /\ calls' \in 0 .. MAX_CALLS
      /\ Len(memory.list) \in Nat /\ Len(memory.list) <= 1 + MAX_VMS
  <2>1. memory \in Memories(Addresses)
    BY DEF ListInv
  <2>2. Len(memory.list) \in Nat
    BY <2>1, MemoryFacts
  <2>3. ControlInv' /\ calls' \in 0 .. MAX_CALLS
    BY ControlStep DEF ControlInv
  <2> QED
    BY <2>1, <2>2, <2>3, NullIsNoAddress, ClientAssumption DEF ListInv, ControlInv
<1>1. CASE InitStarves
  <2>1. /\ UNCHANGED <<numvms, memory, i, handle>> /\ starved' /\ ~handle
        /\ pc = "idle" /\ pc' = "idle"
    BY <1>1, Zenon DEF InitStarves, Call, Idle, Return
  <2> QED
    BY <2>1 DEF ListInv, ListAlive, WalksAList
<1>2. CASE qvd_init
  <2> DEFINE a == <<calls', 0>>
  <2>1. /\ memory' = QvdVmListInit(memory, a) /\ numvms' = 0 /\ i' = 0 /\ pc' = "idle"
        /\ kept' = [list |-> memory'.list, numvms |-> 0]
    BY <1>2 DEF qvd_init, Return
  <2>2. a \in Addresses
    BY <1>0, CallAddress
  <2> HIDE DEF a
  <2>3. /\ memory' \in Memories(Addresses) /\ memory'.list # <<>> /\ Len(memory'.list) = 1
        /\ HeadSound(memory') /\ Listed(memory') = 0
        /\ Nodes(memory') = {a} /\ Vms(memory') = {NULL} /\ a \in memory'.nodes
    BY <1>0, <2>1, <2>2, InitFacts
  <2>4. ListAllocated(memory')
    BY <2>3, AllocatedFacts
  <2>5. handle' /\ kept'.list = memory'.list /\ kept'.numvms = 0
    BY <1>2, <2>1 DEF qvd_init
  <2> QED
    BY <1>0, <2>1, <2>3, <2>4, <2>5 DEF ListInv, ListAlive, WalksAList
<1>3. CASE qvd_free
  <2>1. /\ ~handle' /\ handle /\ UNCHANGED <<numvms, i, starved>>
        /\ pc = "idle"
    BY <1>3, Zenon DEF qvd_free, Call, Idle
  <2>2. CASE memory.list = <<>>
    <3>1. memory' = memory /\ pc' = "crashed" /\ starved
      BY <1>3, <2>1, <2>2 DEF qvd_free, ListInv
    <3> QED
      BY <2>1, <2>2, <3>1 DEF ListInv, ListAlive, WalksAList
  <2>3. CASE memory.list # <<>>
    <3> DEFINE r == QvdVmListFree(memory)
    <3>1. memory' = [r EXCEPT !.list = <<>>] /\ pc' = "idle"
      BY <1>3, <2>3 DEF qvd_free, Return
    <3>2. r \in Memories(Addresses)
      BY <1>0, <2>3, FreeFacts
    <3> HIDE DEF r
    <3>3. memory' \in Memories(Addresses) /\ memory'.list = <<>> /\ Len(memory'.list) = 0
          /\ HeadSound(memory')
      BY <3>1, <3>2, ClearFacts
    <3> QED
      BY <1>0, <2>1, <3>1, <3>3 DEF ListInv, ListAlive, WalksAList
  <2> QED
    BY <2>2, <2>3
<1>4. CASE ParseSucceeds
  <2>1. /\ pc = "parse" /\ handle /\ UNCHANGED <<handle, i, starved, kept>>
        /\ Len(buffer.data) = 1 /\ numvms' = buffer.data[1].vms
    BY <1>4 DEF ParseSucceeds, Parses, ControlInv, Requesting
  <2>2. numvms' \in 0 .. MAX_VMS
    <3>1. buffer.data \in Seq(Pieces)
      BY DEF BufferInv
    <3>2. buffer.data[1] \in Pieces
      BY <2>1, <3>1
    <3> QED
      BY <2>1, <3>2 DEF Pieces
  <2>3. CASE memory.list = <<>>
    <3>1. memory' = memory /\ pc' = "crashed" /\ starved
      BY <1>4, <2>1, <2>3 DEF ParseSucceeds, ListInv
    <3> QED
      BY <2>1, <2>2, <2>3, <3>1 DEF ListInv, ListAlive, WalksAList
  <2>4. CASE memory.list # <<>>
    <3>1. memory' = QvdVmListFree(memory) /\ pc' = "malloc"
      BY <1>4, <2>4 DEF ParseSucceeds
    <3>2. memory' \in Memories(Addresses) /\ memory'.list = memory.list
      BY <1>0, <2>4, <3>1, FreeFacts
    <3>3. HeadSound(memory') /\ Len(memory'.list) <= 1 + MAX_VMS
      BY <1>0, <3>2 DEF HeadSound
    <3> QED
      BY <1>0, <2>1, <2>2, <2>4, <3>1, <3>2, <3>3 DEF ListInv, ListAlive, WalksAList
  <2> QED
    BY <2>3, <2>4
<1>5. CASE MallocList
  <2> DEFINE a == <<calls, 0>>
  <2>1. /\ memory' = QvdVmListInit(memory, a) /\ i' = 0 /\ pc' = "append" /\ handle
        /\ UNCHANGED <<numvms, handle, starved>>
    BY <1>5 DEF MallocList, ControlInv, Requesting
  <2>2. a \in Addresses
    BY <1>0, CallAddress
  <2> HIDE DEF a
  <2>3. /\ memory' \in Memories(Addresses) /\ memory'.list # <<>> /\ Len(memory'.list) = 1
        /\ HeadSound(memory') /\ Listed(memory') = 0
        /\ Nodes(memory') = {a} /\ Vms(memory') = {NULL} /\ a \in memory'.nodes
    BY <1>0, <2>1, <2>2, InitFacts
  <2>4. ListAllocated(memory')
    BY <2>3, AllocatedFacts
  <2> QED
    BY <1>0, <2>1, <2>3, <2>4 DEF ListInv, ListAlive, WalksAList
<1>6. CASE MallocListFails
  <2>1. /\ memory' = [memory EXCEPT !.list = <<>>] /\ pc' = "idle" /\ handle /\ handle'
        /\ starved' /\ UNCHANGED <<numvms, i>>
    BY <1>6 DEF MallocListFails, Return, ControlInv, Requesting
  <2>2. /\ memory' \in Memories(Addresses) /\ memory'.list = <<>> /\ Len(memory'.list) = 0
        /\ HeadSound(memory') /\ Nodes(memory') = {} /\ Vms(memory') = {}
    BY <1>0, <2>1, ClearFacts
  <2>3. ListAllocated(memory')
    BY <2>2, AllocatedFacts
  <2> QED
    BY <1>0, <2>1, <2>2, <2>3 DEF ListInv, ListAlive, WalksAList
<1>7. CASE AppendVm
  <2> DEFINE a == <<calls, i + 1>>
  <2>1. /\ pc = "append" /\ pc' = "append" /\ i < numvms /\ i' = i + 1
        /\ UNCHANGED <<numvms, handle>> /\ handle
    BY <1>7 DEF AppendVm, ControlInv, Requesting
  <2>2. a \in Addresses /\ i' \in 0 .. MAX_VMS /\ i' <= numvms
    BY <1>0, <2>1, CallAddress
  <2>3. memory.list # <<>> /\ Len(memory.list) <= 1 + i /\ ListAllocated(memory)
    BY <2>1 DEF ListInv, ListAlive
  <2>4. Nodes(memory) \subseteq memory.nodes /\ Vms(memory) \subseteq memory.vms \cup {NULL}
    BY <1>0, <2>3, AllocatedFacts
  <2>5. CASE memory' = QvdVmListAppendVm(QvdVmNew(memory, a), a) /\ starved' = starved
    <3> HIDE DEF a
    <3>1. /\ memory' \in Memories(Addresses) /\ memory'.list # <<>> /\ HeadSound(memory')
          /\ Len(memory'.list) \in Nat /\ Len(memory'.list) <= Len(memory.list) + 1
          /\ Listed(memory') = Listed(memory) + 1
          /\ memory'.vms = memory.vms \cup {a}
          /\ Vms(memory') = (Vms(memory) \ {NULL}) \cup {a}
          /\ \/ memory'.nodes = memory.nodes /\ Nodes(memory') = Nodes(memory)
             \/ memory'.nodes = memory.nodes \cup {a} /\ Nodes(memory') = Nodes(memory) \cup {a}
      BY <1>0, <2>2, <2>3, <2>5, AppendFacts
    <3>2. ListAllocated(memory')
      <4>1. Nodes(memory') \subseteq memory'.nodes
        BY <2>4, <3>1
      <4>2. Vms(memory') \subseteq memory'.vms \cup {NULL}
        BY <2>4, <3>1
      <4> QED
        BY <3>1, <4>1, <4>2, AllocatedFacts
    <3>3. Len(memory'.list) <= 1 + i' /\ Len(memory'.list) <= 1 + MAX_VMS
      BY <1>0, <2>1, <2>2, <2>3, <3>1
    <3>4. ~starved' => Listed(memory') = i'
      BY <2>1, <2>5, <3>1 DEF ListInv
    <3> QED
      BY <1>0, <2>1, <2>2, <2>5, <3>1, <3>2, <3>3, <3>4 DEF ListInv, ListAlive, WalksAList
  <2>6. CASE starved' = TRUE /\ memory' = memory
    <3>1. starved' /\ Len(memory'.list) <= 1 + i'
      BY <1>0, <2>1, <2>3, <2>6
    <3> QED
      BY <1>0, <2>1, <2>2, <2>3, <2>6, <3>1 DEF ListInv, ListAlive, WalksAList
  <2>7. CASE starved' = TRUE /\ memory' = QvdVmNew(memory, a)
    <3> HIDE DEF a
    <3>1. /\ memory' \in Memories(Addresses) /\ memory'.list = memory.list
          /\ memory'.nodes = memory.nodes /\ memory'.vms = memory.vms \cup {a}
      BY <1>0, <2>2, <2>7 DEF QvdVmNew, Memories
    <3>2. starved' /\ Len(memory'.list) <= 1 + i'
      BY <1>0, <2>1, <2>3, <2>7, <3>1
    <3>3. ListAllocated(memory') /\ HeadSound(memory')
      BY <1>0, <2>3, <3>1 DEF ListAllocated, HeadSound
    <3> QED
      BY <1>0, <2>1, <2>2, <2>3, <3>1, <3>2, <3>3 DEF ListInv, ListAlive, WalksAList
  <2> QED
    BY <1>7, <2>5, <2>6, <2>7 DEF AppendVm
<1>8. CASE ReturnList
  <2>1. /\ pc = "append" /\ pc' = "idle" /\ i = numvms /\ handle
        /\ kept' = [list |-> memory.list, numvms |-> numvms]
        /\ UNCHANGED <<memory, numvms, i, starved, handle>>
    BY <1>8 DEF ReturnList, Return, ControlInv, Requesting
  <2>2. kept'.list = memory.list /\ kept'.numvms = numvms
    BY <2>1
  <2> QED
    BY <2>1, <2>2 DEF ListInv, ListAlive, WalksAList
<1>9. CASE /\ UNCHANGED <<listVars, handle>>
           /\ \/ pc' = pc
              \/ /\ pc \in {"idle", "list", "stop", "parse"}
                 /\ pc' \in {"idle", "list", "stop", "parse", "undefined"}
  BY <1>9 DEF ListInv, ListAlive, WalksAList, listVars
<1> QED
  BY <1>1, <1>2, <1>3, <1>4, <1>5, <1>6, <1>7, <1>8, <1>9, ListFrame

LEMMA ListInitial == Init => ListInv
<1> SUFFICES ASSUME Init PROVE ListInv
  OBVIOUS
<1>1. /\ memory = NoMemory /\ numvms = 0 /\ i = 0 /\ ~handle /\ pc = "idle"
  BY DEF Init
<1>2. /\ NoMemory \in Memories(Addresses) /\ NoMemory.list = <<>>
      /\ Len(NoMemory.list) = 0 /\ HeadSound(NoMemory)
  BY DEF NoMemory, Memories, HeadSound
<1> QED
  BY <1>1, <1>2, ClientAssumption DEF ListInv, ListAlive, WalksAList

\* The parts that TypeOK and the theorems about the list rest on.
IInv == ControlInv /\ SocketInv /\ BufferInv /\ ListInv

LEMMA IInvAlways == Spec => []IInv
<1>1. Init => IInv
  BY ControlInit, ConnectInitial, BufferInitial, ListInitial DEF IInv
<1>2. IInv /\ [Next]_vars => IInv'
  BY ControlStep, SocketStep, BufferStep, ListStep DEF IInv
<1> QED
  BY <1>1, <1>2, PTL DEF Spec

\* The buffer never holds more bodies than it has units, whatever lengths are
\* announced, nor the list more nodes than an answer had machines.
THEOREM TypeCorrect == Spec => []TypeOK
<1>1. IInv => TypeOK
  <2> SUFFICES ASSUME IInv PROVE TypeOK
    OBVIOUS
  <2>1. memory.list \in ListNodes /\ memory.nodes \subseteq Addresses
        /\ memory.vms \subseteq Addresses
    BY DEF IInv, ListInv, Memories, ListNode, ListNodes
  <2>2. buffer.size \in Nat /\ Len(buffer.data) <= BUFFER_SIZE /\ last_body \in 0 .. calls
    BY DEF IInv, BufferInv
  <2>3. /\ fds \subseteq (1 .. pairs) \X {0, 1}
        /\ nx \subseteq fds \cap ((1 .. pairs) \X {0})
    BY DEF IInv, SocketInv
  <2>4. numvms \in 0 .. MAX_VMS /\ i \in 0 .. MAX_VMS /\ Len(memory.list) <= 1 + MAX_VMS
    BY DEF IInv, ListInv
  <2> QED
    BY <2>1, <2>2, <2>3, <2>4 DEF TypeOK, IInv, ControlInv, HomePaths, Requesting
<1> QED
  BY <1>1, IInvAlways, PTL

\* No node of the handle's list, and no vm in it, has been freed, whichever calls
\* came before and whichever allocation failed.
THEOREM ListAliveAlways == Spec => []ListAlive
<1>1. IInv => ListAlive
  BY DEF IInv, ListInv
<1> QED
  BY <1>1, IInvAlways, PTL

\* The library only follows a list pointer that is NULL after an allocation failed.
THEOREM WalksAListAlways == Spec => []WalksAList
<1>1. IInv => WalksAList
  BY DEF IInv, ListInv
<1> QED
  BY <1>1, IInvAlways, PTL

\* Between calls the list has as many machines as numvms says, while every
\* allocation succeeds.
THEOREM CountMatchesAlways == Spec => []CountMatches
<1>1. IInv => CountMatches
  BY DEF IInv, ListInv, CountMatches, Idle
<1> QED
  BY <1>1, IInvAlways, PTL

\* A list request that returns NULL leaves the list and numvms as they were, while
\* every allocation succeeds.
THEOREM FailedCallKeepsListAlways == Spec => []FailedCallKeepsList
<1>1. IInv => FailedCallKeepsList
  BY DEF IInv, ListInv, FailedCallKeepsList, Idle
<1> QED
  BY <1>1, IInvAlways, PTL

-----------------------------------------------------------------------------
(* What is lost *)

Before(S, n) == \A a \in S : a[1] < n

\* A handle that is freed takes its list along.
Released == ~handle => memory.list = <<>>

LEMMA ReleasedStep == ControlInv /\ ListInv /\ Released /\ [Next]_vars => Released'
<1> SUFFICES ASSUME ControlInv, ListInv, Released, [Next]_vars PROVE Released'
  OBVIOUS
<1>1. CASE InitStarves
  BY <1>1 DEF InitStarves, Released
<1>2. CASE qvd_init
  BY <1>2 DEF qvd_init, Released
<1>3. CASE qvd_free
  <2>1. memory'.list = <<>>
    <3>1. CASE memory.list = <<>>
      BY <1>3, <3>1 DEF qvd_free
    <3>2. CASE memory.list # <<>>
      <4>1. QvdVmListFree(memory) \in Memories(Addresses)
        BY <3>2, NullIsNoAddress, FreeFacts DEF ListInv
      <4>2. memory' = [QvdVmListFree(memory) EXCEPT !.list = <<>>]
        BY <1>3, <3>2 DEF qvd_free
      <4> QED
        BY <4>1, <4>2, ClearFacts
    <3> QED
      BY <3>1, <3>2
  <2> QED
    BY <2>1 DEF Released
<1>4. CASE ParseSucceeds \/ MallocList \/ MallocListFails \/ AppendVm \/ ReturnList
  BY <1>4 DEF ParseSucceeds, MallocList, MallocListFails, AppendVm, ReturnList,
     ControlInv, Requesting, Released
<1>5. CASE UNCHANGED <<listVars, handle>>
  BY <1>5 DEF Released, listVars
<1> QED
  BY <1>1, <1>2, <1>3, <1>4, <1>5, ListFrame

\* What is in S and not in L was allocated in calls of which S has nothing else.
Apart(S, L) == \A a \in S \ L : \A b \in S : a[1] = b[1] => a = b

\* While no allocation fails, what is allocated and not in the list are last nodes
\* and vms of lists that earlier calls made, one of a call; the next list cannot
\* share their call, since it is made in a later one.
LossInv ==
  /\ Before(memory.nodes, calls + 1) /\ Before(memory.vms, calls + 1)
  /\ pc \in Requesting \ {"append"} => Before(memory.nodes, calls) /\ Before(memory.vms, calls)
  /\ ~starved =>
       IF pc = "malloc" THEN Apart(memory.nodes, {}) /\ Apart(memory.vms, {})
       ELSE Apart(memory.nodes, Nodes(memory)) /\ Apart(memory.vms, Vms(memory))
  /\ pc = "append" /\ ~starved =>
       Before(memory.nodes \ Nodes(memory), calls) /\ Before(memory.vms \ Vms(memory), calls)

\* A walk that frees all of L in S but one leaves nothing that shares its call.
LEMMA FreedApart ==
  ASSUME NEW S, NEW L, NEW R, NEW x, Apart(S, L), R \subseteq S, R \cap L \subseteq {x}
  PROVE  Apart(R, {})
<1> SUFFICES ASSUME NEW a \in R, NEW b \in R, a[1] = b[1] PROVE a = b
  BY DEF Apart
<1>1. CASE a \in L /\ b \in L
  BY <1>1
<1>2. CASE a \notin L
  BY <1>2 DEF Apart
<1>3. CASE b \notin L
  BY <1>3 DEF Apart
<1> QED
  BY <1>1, <1>2, <1>3

\* What joins the list is of a call that nothing outside the list is of.
LEMMA JoinedApart ==
  ASSUME NEW S, NEW L, NEW a, NEW n \in Nat, Apart(S, L), a[1] = n,
         \A b \in S : b[1] \in Nat, Before(S \ L, n)
  PROVE  Apart(S \cup {a}, L \cup {a}) /\ Before((S \cup {a}) \ (L \cup {a}), n)
<1>1. ASSUME NEW b \in (S \cup {a}) \ (L \cup {a}), NEW c \in S \cup {a}, b[1] = c[1]
      PROVE  b = c
  <2>1. b \in S \ L /\ b[1] < n /\ b[1] \in Nat
    BY DEF Before
  <2>2. c \in S
    BY <1>1, <2>1
  <2> QED
    BY <1>1, <2>1, <2>2 DEF Apart
<1> QED
  BY <1>1 DEF Apart, Before

LEMMA LossStep == ControlInv /\ ListInv /\ Released /\ LossInv /\ [Next]_vars => LossInv'
<1> SUFFICES ASSUME ControlInv, ListInv, Released, LossInv, [Next]_vars PROVE LossInv'
  OBVIOUS
<1>0. /\ memory \in Memories(Addresses) /\ HeadSound(memory) /\ NULL \notin Addresses
      /\ memory.nodes \subseteq Addresses /\ memory.vms \subseteq Addresses
      /\ \A b \in memory.nodes \cup memory.vms : b[1] \in Nat
      /\ calls \in 0 .. MAX_CALLS /\ calls \in Nat /\ MAX_VMS \in Nat /\ 0 \in 0 .. MAX_VMS
      /\ Before(memory.nodes, calls + 1) /\ Before(memory.vms, calls + 1)
  <2>1. memory \in Memories(Addresses)
    BY DEF ListInv
  <2>2. memory.nodes \subseteq Addresses /\ memory.vms \subseteq Addresses
    BY <2>1, MemoryFacts
  <2>3. \A b \in Addresses : b[1] \in Nat
    BY ClientAssumption DEF Addresses
  <2> QED
    BY <2>1, <2>2, <2>3, NullIsNoAddress, ClientAssumption DEF ListInv, ControlInv, LossInv
<1>1. CASE InitStarves
  <2>1. /\ memory' = memory /\ starved' /\ pc' = "idle" /\ calls' = calls + 1
    BY <1>1, Zenon DEF InitStarves, Call, Return
  <2> QED
    BY <1>0, <2>1 DEF LossInv, Before, Requesting
<1>2. CASE qvd_init
  <2> DEFINE a == <<calls', 0>>
  <2>1. /\ memory' = QvdVmListInit(memory, a) /\ pc' = "idle" /\ pc = "idle" /\ ~handle
        /\ calls' = calls + 1 /\ starved' = starved
    BY <1>2 DEF qvd_init, Return, Call, Idle
  <2>2. a \in Addresses /\ a[1] = calls'
    <3>1. calls' \in 0 .. MAX_CALLS
      BY <1>2, ControlStep DEF ControlInv
    <3> QED
      BY <1>0, <3>1, CallAddress
  <2> HIDE DEF a
  <2>3. /\ Nodes(memory') = {a} /\ Vms(memory') = {NULL}
        /\ memory'.nodes = memory.nodes \cup {a} /\ memory'.vms = memory.vms
    BY <1>0, <2>1, <2>2, InitFacts
  <2>4. Nodes(memory) = {} /\ Vms(memory) = {}
    BY <2>1 DEF Released, Nodes, Vms
  <2>5. ~starved => Apart(memory.nodes, {}) /\ Apart(memory.vms, {})
    BY <2>1, <2>4 DEF LossInv
  <2>6. ~starved' => Apart(memory'.nodes, Nodes(memory'))
    <3>1. calls' \in Nat /\ Before(memory.nodes \ {}, calls')
      BY <1>0, <2>1 DEF Before
    <3>2. ~starved => Apart(memory.nodes \cup {a}, {} \cup {a})
      BY <1>0, <2>2, <2>5, <3>1, JoinedApart
    <3> QED
      BY <2>1, <2>3, <3>2
  <2>7. ~starved' => Apart(memory'.vms, Vms(memory'))
    BY <2>1, <2>3, <2>5 DEF Apart
  <2>8. Before(memory'.nodes, calls' + 1) /\ Before(memory'.vms, calls' + 1)
    BY <1>0, <2>1, <2>2, <2>3 DEF Before
  <2> QED
    BY <2>1, <2>6, <2>7, <2>8 DEF LossInv, Requesting
<1>3. CASE qvd_free \/ ParseSucceeds
  <2>1. /\ pc \in {"idle", "parse"} /\ pc' \in {"idle", "crashed", "malloc"}
        /\ starved' = starved
        /\ pc = "idle" => calls' = calls + 1 /\ pc' # "malloc"
        /\ pc = "parse" => calls' = calls
    BY <1>3 DEF qvd_free, ParseSucceeds, Call, Idle, Return
  <2>2. pc = "parse" => Before(memory.nodes, calls) /\ Before(memory.vms, calls)
    BY DEF LossInv, Requesting
  <2>3. CASE memory.list = <<>>
    <3>1. memory' = memory /\ pc' = "crashed"
      BY <1>3, <2>3 DEF qvd_free, ParseSucceeds
    <3> QED
      BY <1>0, <2>1, <3>1 DEF LossInv, Before, Requesting
  <2>4. CASE memory.list # <<>>
    <3> DEFINE r == QvdVmListFree(memory)
    <3>1. /\ r \in Memories(Addresses) /\ r.nodes \subseteq memory.nodes
          /\ r.vms \subseteq memory.vms
          /\ \E n \in Nodes(memory) : r.nodes \cap Nodes(memory) \subseteq {n}
          /\ \E v \in Vms(memory) : r.vms \cap Vms(memory) \subseteq {v}
      BY <1>0, <2>4, FreeFacts
    <3>2. \/ memory' = r /\ pc' = "malloc"
          \/ memory' = [r EXCEPT !.list = <<>>] /\ pc' = "idle"
      BY <1>3, <2>4 DEF qvd_free, ParseSucceeds, Return
    <3> HIDE DEF r
    <3>3. /\ memory'.nodes = r.nodes /\ memory'.vms = r.vms
          /\ pc' = "idle" => Nodes(memory') = {} /\ Vms(memory') = {}
      BY <3>1, <3>2, ClearFacts
    <3>4. ~starved => Apart(memory.nodes, Nodes(memory)) /\ Apart(memory.vms, Vms(memory))
      BY <2>1 DEF LossInv
    <3>5. ~starved => Apart(memory'.nodes, {}) /\ Apart(memory'.vms, {})
      BY <3>1, <3>3, <3>4, FreedApart
    <3>6. Before(memory'.nodes, calls' + 1) /\ Before(memory'.vms, calls' + 1)
      BY <1>0, <2>1, <3>1, <3>3 DEF Before
    <3>7. pc' = "malloc" => Before(memory'.nodes, calls') /\ Before(memory'.vms, calls')
      BY <2>1, <2>2, <3>1, <3>3 DEF Before
    <3> QED
      BY <2>1, <3>2, <3>3, <3>5, <3>6, <3>7 DEF LossInv, Requesting
  <2> QED
    BY <2>3, <2>4
<1>4. CASE MallocList
  <2> DEFINE a == <<calls, 0>>
  <2>1. /\ memory' = QvdVmListInit(memory, a) /\ pc = "malloc" /\ pc' = "append"
        /\ calls' = calls /\ starved' = starved
    BY <1>4 DEF MallocList
  <2>2. a \in Addresses /\ a[1] = calls
    BY <1>0, CallAddress
  <2> HIDE DEF a
  <2>3. /\ Nodes(memory') = {a} /\ Vms(memory') = {NULL}
        /\ memory'.nodes = memory.nodes \cup {a} /\ memory'.vms = memory.vms
    BY <1>0, <2>1, <2>2, InitFacts
  <2>4. /\ Before(memory.nodes, calls) /\ Before(memory.vms, calls)
        /\ ~starved => Apart(memory.nodes, {}) /\ Apart(memory.vms, {})
    BY <2>1 DEF LossInv, Requesting
  <2>5. ~starved => /\ Apart(memory.nodes \cup {a}, {} \cup {a})
                    /\ Before((memory.nodes \cup {a}) \ ({} \cup {a}), calls)
    <3>1. Before(memory.nodes \ {}, calls)
      BY <2>4 DEF Before
    <3> QED
      BY <1>0, <2>2, <2>4, <3>1, JoinedApart
  <2>6. ~starved => Apart(memory.vms, {NULL}) /\ Before(memory.vms \ {NULL}, calls)
    BY <2>4 DEF Apart, Before
  <2>7. Before(memory'.nodes, calls' + 1) /\ Before(memory'.vms, calls' + 1)
    BY <1>0, <2>1, <2>2, <2>3 DEF Before
  <2> QED
    BY <2>1, <2>3, <2>5, <2>6, <2>7 DEF LossInv
<1>5. CASE MallocListFails
  <2>1. /\ memory' = [memory EXCEPT !.list = <<>>] /\ pc' = "idle" /\ starved'
        /\ calls' = calls
    BY <1>5, Zenon DEF MallocListFails, Return
  <2>2. memory'.nodes = memory.nodes /\ memory'.vms = memory.vms
    BY <1>0, <2>1, ClearFacts
  <2> QED
    BY <1>0, <2>1, <2>2 DEF LossInv, Requesting
<1>6. CASE AppendVm
  <2> DEFINE a == <<calls, i + 1>>
  <2>1. /\ pc = "append" /\ pc' = "append" /\ calls' = calls /\ i < numvms
    BY <1>6 DEF AppendVm
  <2>2. a \in Addresses /\ a[1] = calls
    <3>1. i + 1 \in 0 .. MAX_VMS
      BY <1>0, <2>1 DEF ListInv
    <3> QED
      BY <1>0, <3>1, CallAddress
  <2>3. CASE memory' = QvdVmListAppendVm(QvdVmNew(memory, a), a) /\ starved' = starved
    <3> HIDE DEF a
    <3>1. memory.list # <<>>
      BY <2>1 DEF ListInv
    <3>2. /\ memory'.vms = memory.vms \cup {a}
          /\ Vms(memory') = (Vms(memory) \ {NULL}) \cup {a}
          /\ \/ memory'.nodes = memory.nodes /\ Nodes(memory') = Nodes(memory)
             \/ memory'.nodes = memory.nodes \cup {a} /\ Nodes(memory') = Nodes(memory) \cup {a}
      BY <1>0, <2>2, <2>3, <3>1, AppendFacts
    <3>3. ~starved =>
            /\ Apart(memory.nodes, Nodes(memory)) /\ Apart(memory.vms, Vms(memory))
            /\ Before(memory.nodes \ Nodes(memory), calls)
            /\ Before(memory.vms \ Vms(memory), calls)
      BY <2>1 DEF LossInv
    <3>4. ~starved => /\ Apart(memory'.nodes, Nodes(memory'))
                      /\ Before(memory'.nodes \ Nodes(memory'), calls)
      <4>1. ~starved => /\ Apart(memory.nodes \cup {a}, Nodes(memory) \cup {a})
                        /\ Before((memory.nodes \cup {a}) \ (Nodes(memory) \cup {a}), calls)
        BY <1>0, <2>2, <3>3, JoinedApart
      <4> QED
        BY <3>2, <3>3, <4>1
    <3>5. ~starved => /\ Apart(memory.vms, Vms(memory) \ {NULL})
                      /\ Before(memory.vms \ (Vms(memory) \ {NULL}), calls)
      <4>1. memory.vms \ (Vms(memory) \ {NULL}) = memory.vms \ Vms(memory)
        BY <1>0
      <4> QED
        BY <3>3, <4>1 DEF Apart
    <3>6. ~starved => /\ Apart(memory'.vms, Vms(memory'))
                      /\ Before(memory'.vms \ Vms(memory'), calls)
      <4> DEFINE L == Vms(memory) \ {NULL}
      <4> HIDE DEF L
      <4>1. ~starved => Apart(memory.vms, L) /\ Before(memory.vms \ L, calls)
        BY <3>5 DEF L
      <4>2. ~starved => /\ Apart(memory.vms \cup {a}, L \cup {a})
                        /\ Before((memory.vms \cup {a}) \ (L \cup {a}), calls)
        BY <1>0, <2>2, <4>1, JoinedApart
      <4>3. Vms(memory') = L \cup {a}
        BY <3>2 DEF L
      <4> QED
        BY <3>2, <4>2, <4>3
    <3>7. Before(memory'.nodes, calls + 1) /\ Before(memory'.vms, calls + 1)
      BY <1>0, <2>2, <3>2 DEF Before
    <3> QED
      BY <2>1, <2>3, <3>4, <3>6, <3>7 DEF LossInv
  <2>4. CASE starved' = TRUE /\ (memory' = memory \/ memory' = QvdVmNew(memory, a))
    <3> HIDE DEF a
    <3>1. /\ memory'.nodes = memory.nodes
          /\ memory'.vms = memory.vms \/ memory'.vms = memory.vms \cup {a}
      BY <1>0, <2>4 DEF QvdVmNew, Memories
    <3>2. starved'
      BY <2>4
    <3>3. Before(memory'.nodes, calls + 1) /\ Before(memory'.vms, calls + 1)
      BY <1>0, <2>2, <3>1 DEF Before
    <3> QED
      BY <2>1, <3>2, <3>3 DEF LossInv
  <2> QED
    BY <1>6, <2>3, <2>4 DEF AppendVm
<1>7. CASE ReturnList
  <2>1. pc = "append" /\ pc' = "idle" /\ UNCHANGED <<memory, calls, starved>>
    BY <1>7 DEF ReturnList, Return
  <2> QED
    BY <2>1 DEF LossInv, Requesting
<1>8. CASE UNCHANGED <<listVars, pc, calls>>
  BY <1>8 DEF LossInv, listVars
<1>9. CASE /\ UNCHANGED listVars /\ pc = "idle" /\ calls' = calls + 1
           /\ pc' \in {"idle", "list", "stop", "undefined"}
  <2>1. Before(memory.nodes, calls' + 1) /\ Before(memory.vms, calls' + 1)
    BY <1>0, <1>9 DEF Before
  <2> QED
    BY <1>0, <1>9, <2>1 DEF LossInv, listVars
<1>10. CASE /\ UNCHANGED <<listVars, calls>> /\ pc \in {"list", "stop", "parse"}
            /\ pc' \in {"idle", "parse", "undefined"}
  BY <1>10 DEF LossInv, listVars, Requesting
<1> QED
  BY <1>1, <1>2, <1>3, <1>4, <1>5, <1>6, <1>7, <1>8, <1>9, <1>10, ListFrame

LEMMA LossInitial == Init => Released /\ LossInv
<1> SUFFICES ASSUME Init PROVE Released /\ LossInv
  OBVIOUS
<1>1. memory = NoMemory /\ pc = "idle"
  BY DEF Init
<1>2. NoMemory.nodes = {} /\ NoMemory.vms = {} /\ NoMemory.list = <<>>
  BY DEF NoMemory
<1> QED
  BY <1>1, <1>2 DEF Released, LossInv, Before, Apart, Requesting

\* No sequence of calls loses two nodes, or two vms, of the list one call has made,
\* while every allocation succeeds.
THEOREM OneNodeLostAlways == Spec => []OneNodeLost
<1>1. ASSUME NEW S, NEW c, Apart(S, {}) PROVE Cardinality({a \in S : a[1] = c}) <= 1
  <2> DEFINE T == {a \in S : a[1] = c}
  <2>1. CASE T = {}
    BY <2>1, FS_EmptySet
  <2>2. CASE T # {}
    <3>1. PICK x : x \in T
      BY <2>2
    <3>2. T = {x}
      BY <1>1, <3>1 DEF Apart
    <3>3. Cardinality({x}) = 1
      BY FS_Singleton
    <3> QED
      BY <3>2, <3>3
  <2> QED
    BY <2>1, <2>2
<1>2. IInv /\ Released /\ LossInv => OneNodeLost
  <2> SUFFICES ASSUME IInv, Released, LossInv, ~handle, ~starved
               PROVE  \A c \in 0 .. MAX_CALLS :
                        /\ Cardinality({a \in memory.nodes : a[1] = c}) <= 1
                        /\ Cardinality({a \in memory.vms : a[1] = c}) <= 1
    BY DEF OneNodeLost
  <2>1. memory.list = <<>> /\ pc # "malloc"
    BY DEF IInv, Released, ControlInv, Requesting
  <2>2. Nodes(memory) = {} /\ Vms(memory) = {}
    BY <2>1 DEF Nodes, Vms
  <2>3. Apart(memory.nodes, {}) /\ Apart(memory.vms, {})
    BY <2>1, <2>2 DEF LossInv
  <2> QED
    BY <1>1, <2>3
<1>3. IInv /\ Released /\ LossInv /\ [Next]_vars => (Released /\ LossInv)'
  BY ReleasedStep, LossStep DEF IInv
<1> QED
  BY <1>2, <1>3, IInvAlways, LossInitial, PTL DEF Spec
=============================================================================
