---------------------------- MODULE ClientLoop ----------------------------
(***************************************************************************)
(* _qvd_client_loop of qvdclientcore.c: the select loop that relays bytes  *)
(* between the remote host (connFd, behind curl and TLS) and the NX        *)
(* library (proxyFd, one end of a socket pair) until one side closes or    *)
(* fails, or until the application calls qvd_end_connection.               *)
(*                                                                         *)
(*     remote --connFd--> proxyWrite --proxyFd--> NX                       *)
(*     remote <--connFd-- proxyRead  <--proxyFd-- NX                       *)
(*                                                                         *)
(* One thread runs the loop; NX runs on that same thread, inside           *)
(* NXTransExecute.  The remote host and the caller of qvd_end_connection   *)
(* run concurrently.  Each system or library call is one step.             *)
(*                                                                         *)
(* The bytes of each direction are numbered from 1, so a stream is a       *)
(* counter of how much of it was produced, and a history variable holds    *)
(* the bytes that came out at the other end.                               *)
(***************************************************************************)
EXTENDS Integers, Sequences, QvdBuffer

CONSTANTS
  CONN, PROXY,    \* the two descriptors the loop is called with
  MAX_CURLE_UNSUPPORTED_PROTOCOL,
  RECORD_MAX,     \* longest TLS record (external: 16 KB)
  NX_SOCKET,      \* bytes the socket pair holds in each direction (external)
  WINDOW,         \* bytes the connection takes before curl_easy_send blocks
  REMOTE_LEN,     \* bound: bytes the remote host produces
  NX_LEN          \* bound: bytes NX produces

ASSUME FdAssumption ==
  CONN \in Nat \ {0} /\ PROXY \in Nat \ {0} /\ CONN # PROXY

ASSUME SizeAssumption ==
  /\ MAX_CURLE_UNSUPPORTED_PROTOCOL \in Nat \ {0}
  /\ RECORD_MAX \in Nat \ {0}
  /\ NX_SOCKET \in Nat \ {0}
  /\ WINDOW \in Nat \ {0}
  /\ REMOTE_LEN \in Nat
  /\ NX_LEN \in Nat

VARIABLES
  \* The loop's locals.
  pc,             \* the call the loop makes next
  connFd, proxyFd,
  rfds, wfds,
  ret,            \* select's return value: 0 or more, or -1
  numunsupportedprotocolerrs,
  result,
  returned,       \* what the function returned, once pc = "returned"
  proxyWrite,     \* from the remote host, for NX
  proxyRead,      \* from NX, for the remote host
  \* qvd->end_connection, written by other threads and callbacks.
  end_connection,
  \* The remote host, and the connection to it.
  remote,         \* "open", "closed" (it sent its end of stream) or "broken"
  remoteSent,     \* bytes it has sent
  tlsPending,     \* bytes decrypted by TLS and not yet handed to curl_easy_recv
  received,       \* bytes curl_easy_recv has stored in proxyWrite
  toRemote,       \* the bytes curl_easy_send took, in order
  remoteTaken,    \* how many of those the remote host has read
  \* NX, and the socket pair.
  nx,             \* "open" or "closed"
  nxSent,         \* bytes NX has written to the socket pair
  nxRead,         \* bytes read(2) has stored in proxyRead
  toNx,           \* the bytes write(2) put in the socket pair, in order
  nxTaken         \* how many of those NX has read

fdVars     == <<connFd, proxyFd>>
selectVars == <<rfds, wfds, ret>>
statusVars == <<numunsupportedprotocolerrs, result, returned>>
connIn     == <<remoteSent, tlsPending, received>>
connOut    == <<toRemote, remoteTaken>>
nxIn       == <<toNx, nxTaken>>
nxOut      == <<nxSent, nxRead>>
peers      == <<remote, nx>>

vars == <<pc, fdVars, selectVars, statusVars, proxyWrite, proxyRead,
          end_connection, peers, connIn, connOut, nxIn, nxOut>>

Least(a, b) == IF a <= b THEN a ELSE b

\* The next k bytes of a stream of which n have been consumed.
NextBytes(n, k) == [i \in 1 .. k |-> n + i]

\* Sent by the remote host and still in the network or the kernel.
Wire == remoteSent - received - tlsPending

\* The remote host ended the stream and everything in front of its end was read.
AtEndOfStream == remote = "closed" /\ Wire = 0 /\ tlsPending = 0

\* curl_easy_recv finds nothing decrypted and the connection gone.
Lost == remote = "broken" /\ tlsPending = 0

\* Written by NX and still in the socket pair.
NxWaiting == nxSent - nxRead

-----------------------------------------------------------------------------
Init ==
  /\ pc = "prepare"
  /\ connFd = CONN /\ proxyFd = PROXY
  /\ rfds = {} /\ wfds = {} /\ ret = 0
  /\ numunsupportedprotocolerrs = 0 /\ result = 0 /\ returned = 0
  /\ proxyWrite = QvdBufferInit /\ proxyRead = QvdBufferInit
  /\ end_connection = FALSE
  /\ remote = "open" /\ nx = "open"
  /\ remoteSent = 0 /\ tlsPending = 0 /\ received = 0
  /\ toRemote = <<>> /\ remoteTaken = 0
  /\ nxSent = 0 /\ nxRead = 0
  /\ toNx = <<>> /\ nxTaken = 0

-----------------------------------------------------------------------------
(* The descriptor sets, select and NX *)

\* Mutant: the connection is never asked for writability.
BuildReadSet ==
  /\ rfds' = {f \in {proxyFd} : proxyFd > 0 /\ QvdBufferCanRead(proxyRead)}
             \cup {f \in {connFd} : connFd > 0 /\ QvdBufferCanRead(proxyWrite)}
  /\ wfds' = {}
  /\ ret' = 0

\* The sets the loop builds.  proxyFd is never put in wfds: the code says
\* select does not work on it, and relies on it being non-blocking.
BuildSets ==
  /\ rfds' = {f \in {proxyFd} : proxyFd > 0 /\ QvdBufferCanRead(proxyRead)}
             \cup {f \in {connFd} : connFd > 0 /\ QvdBufferCanRead(proxyWrite)}
  /\ wfds' = {f \in {connFd} : connFd > 0 /\ QvdBufferCanWrite(proxyRead)}
  /\ ret' = 0

\* NXTransPrepare is non-zero: select and let NX run.
PrepareTransport ==
  /\ pc = "prepare"
  /\ BuildSets
  /\ pc' = "select"
  /\ UNCHANGED <<fdVars, statusVars, proxyWrite, proxyRead, end_connection,
                 peers, connIn, connOut, nxIn, nxOut>>

\* NXTransPrepare is zero: no select, and the sets stay as the loop built them.
PrepareNoTransport ==
  /\ pc = "prepare"
  /\ BuildSets
  /\ pc' = "check"
  /\ UNCHANGED <<fdVars, statusVars, proxyWrite, proxyRead, end_connection,
                 peers, connIn, connOut, nxIn, nxOut>>

\* select looks at sockets: bytes that TLS holds decrypted do not show there.
Readable(f) ==
  \/ f = CONN /\ (Wire > 0 \/ remote # "open")
  \/ f = PROXY /\ (NxWaiting > 0 \/ nx = "closed")

Writable(f) ==
  f = CONN /\ (Len(toRemote) - remoteTaken < WINDOW \/ remote = "broken")

\* NXTransSelect: some descriptor is ready, one of NX's own is, or time is up.
SelectReturns ==
  /\ pc = "select"
  /\ rfds' = {f \in rfds : Readable(f)}
  /\ wfds' = {f \in wfds : Writable(f)}
  /\ pc' = "execute"
  /\ UNCHANGED <<ret, fdVars, statusVars, proxyWrite, proxyRead, end_connection,
                 peers, connIn, connOut, nxIn, nxOut>>

\* NXTransSelect fails; select leaves the sets alone.
SelectFails ==
  /\ pc = "select"
  /\ ret' = -1
  /\ pc' = "execute"
  /\ UNCHANGED <<rfds, wfds, fdVars, statusVars, proxyWrite, proxyRead,
                 end_connection, peers, connIn, connOut, nxIn, nxOut>>

\* What NX does inside NXTransExecute: read, write and close its end.
NxTakes ==
  /\ pc = "execute" /\ nx = "open"
  /\ nxTaken < Len(toNx)
  /\ nxTaken' = nxTaken + 1
  /\ UNCHANGED <<pc, fdVars, selectVars, statusVars, proxyWrite, proxyRead,
                 end_connection, peers, connIn, connOut, toNx, nxOut>>

NxSends ==
  /\ pc = "execute" /\ nx = "open"
  /\ nxSent < NX_LEN /\ NxWaiting < NX_SOCKET
  /\ nxSent' = nxSent + 1
  /\ UNCHANGED <<pc, fdVars, selectVars, statusVars, proxyWrite, proxyRead,
                 end_connection, peers, connIn, connOut, nxIn, nxRead>>

NxCloses ==
  /\ pc = "execute" /\ nx = "open"
  /\ nx' = "closed"
  /\ UNCHANGED <<pc, fdVars, selectVars, statusVars, proxyWrite, proxyRead,
                 end_connection, remote, connIn, connOut, nxIn, nxOut>>

ExecuteReturns ==
  /\ pc = "execute"
  /\ pc' = "check"
  /\ UNCHANGED <<fdVars, selectVars, statusVars, proxyWrite, proxyRead,
                 end_connection, peers, connIn, connOut, nxIn, nxOut>>

-----------------------------------------------------------------------------
(* After select.  errno is read after NXTransExecute ran, and that may have   *)
(* set it: a failed select is taken for a retry or for an error either way.   *)

Return(value) == pc' = "returned" /\ returned' = value

\* do ... while (connFd > 0 && proxyFd > 0); return result
LoopTest ==
  IF connFd' > 0 /\ proxyFd' > 0
  THEN pc' = "prepare" /\ UNCHANGED returned
  ELSE Return(result')

CheckRetries ==
  /\ pc = "check" /\ ret = -1
  /\ UNCHANGED <<fdVars, numunsupportedprotocolerrs, result>>
  /\ LoopTest
  /\ UNCHANGED <<selectVars, proxyWrite, proxyRead, end_connection,
                 peers, connIn, connOut, nxIn, nxOut>>

CheckFails ==
  /\ pc = "check" /\ ret = -1
  /\ Return(1)
  /\ UNCHANGED <<fdVars, selectVars, numunsupportedprotocolerrs, result, proxyWrite,
                 proxyRead, end_connection, peers, connIn, connOut, nxIn, nxOut>>

CheckEnded ==
  /\ pc = "check" /\ ret # -1
  /\ end_connection
  /\ Return(0)
  /\ UNCHANGED <<fdVars, selectVars, numunsupportedprotocolerrs, result, proxyWrite,
                 proxyRead, end_connection, peers, connIn, connOut, nxIn, nxOut>>

\* Mutant: the application's request is not looked at.
CheckProceedsAnyway ==
  /\ pc = "check" /\ ret # -1
  /\ pc' = "recv"
  /\ UNCHANGED <<fdVars, selectVars, statusVars, proxyWrite, proxyRead,
                 end_connection, peers, connIn, connOut, nxIn, nxOut>>

CheckProceeds ==
  /\ pc = "check" /\ ret # -1
  /\ ~end_connection
  /\ pc' = "recv"
  /\ UNCHANGED <<fdVars, selectVars, statusVars, proxyWrite, proxyRead,
                 end_connection, peers, connIn, connOut, nxIn, nxOut>>

-----------------------------------------------------------------------------
(* Read from curl and store in proxyWrite *)

MayRecv == connFd > 0 /\ QvdBufferCanRead(proxyWrite) /\ CONN \in rfds

RecvSkips ==
  /\ pc = "recv" /\ ~MayRecv
  /\ pc' = "read"
  /\ UNCHANGED <<fdVars, selectVars, statusVars, proxyWrite, proxyRead,
                 end_connection, peers, connIn, connOut, nxIn, nxOut>>

\* CURLE_OK with bytes: what is left of the current TLS record, or the next
\* record, cut to the room there is; the rest of the record stays in TLS.
RecvBytes ==
  /\ pc = "recv" /\ MayRecv /\ Room(proxyWrite) > 0
  /\ \E record \in 1 .. RECORD_MAX :
       /\ \/ tlsPending > 0 /\ record = tlsPending
          \/ tlsPending = 0 /\ remote # "broken" /\ record <= Wire
       /\ LET k == Least(record, Room(proxyWrite)) IN
            /\ proxyWrite' = QvdBufferRead(proxyWrite, NextBytes(received, k))
            /\ received' = received + k
            /\ tlsPending' = record - k
  /\ numunsupportedprotocolerrs' = 0
  /\ pc' = "read"
  /\ UNCHANGED <<fdVars, selectVars, result, returned, proxyRead, end_connection,
                 peers, remoteSent, connOut, nxIn, nxOut>>

\* Mutant: no byte read is not taken for the end of the stream.
RecvEndIgnored ==
  /\ pc = "recv" /\ MayRecv
  /\ AtEndOfStream \/ Room(proxyWrite) <= 0
  /\ numunsupportedprotocolerrs' = 0
  /\ pc' = "read"
  /\ UNCHANGED <<fdVars, selectVars, result, returned, proxyWrite, proxyRead,
                 end_connection, peers, connIn, connOut, nxIn, nxOut>>

\* CURLE_OK with no byte: the end of the stream, or no room to read into.
RecvEnd ==
  /\ pc = "recv" /\ MayRecv
  /\ AtEndOfStream \/ Room(proxyWrite) <= 0
  /\ connFd' = -1
  /\ numunsupportedprotocolerrs' = 0
  /\ pc' = "read"
  /\ UNCHANGED <<proxyFd, selectVars, result, returned, proxyWrite, proxyRead,
                 end_connection, peers, connIn, connOut, nxIn, nxOut>>

\* CURLE_AGAIN: nothing came, or only part of a record.
RecvAgain ==
  /\ pc = "recv" /\ MayRecv
  /\ tlsPending = 0 /\ remote # "broken" /\ ~AtEndOfStream
  /\ pc' = "read"
  /\ UNCHANGED <<fdVars, selectVars, statusVars, proxyWrite, proxyRead,
                 end_connection, peers, connIn, connOut, nxIn, nxOut>>

\* CURLE_UNSUPPORTED_PROTOCOL, what curl answers when its connection is gone.
CountUnsupported ==
  /\ numunsupportedprotocolerrs' = numunsupportedprotocolerrs + 1
  /\ IF numunsupportedprotocolerrs' >= MAX_CURLE_UNSUPPORTED_PROTOCOL
     THEN connFd' = -1 /\ result' = 0
     ELSE UNCHANGED <<connFd, result>>

RecvUnsupported ==
  /\ pc = "recv" /\ MayRecv
  /\ AtEndOfStream \/ Lost
  /\ CountUnsupported
  /\ pc' = "read"
  /\ UNCHANGED <<proxyFd, selectVars, returned, proxyWrite, proxyRead,
                 end_connection, peers, connIn, connOut, nxIn, nxOut>>

\* Any other error.
RecvFails ==
  /\ pc = "recv" /\ MayRecv
  /\ Lost
  /\ connFd' = -1
  /\ result' = -1
  /\ pc' = "read"
  /\ UNCHANGED <<proxyFd, selectVars, numunsupportedprotocolerrs, returned, proxyWrite,
                 proxyRead, end_connection, peers, connIn, connOut, nxIn, nxOut>>

-----------------------------------------------------------------------------
(* Read from NX and store in proxyRead *)

MayRead == proxyFd > 0 /\ QvdBufferCanRead(proxyRead) /\ PROXY \in rfds

ReadSkips ==
  /\ pc = "read" /\ ~MayRead
  /\ pc' = "write"
  /\ UNCHANGED <<fdVars, selectVars, statusVars, proxyWrite, proxyRead,
                 end_connection, peers, connIn, connOut, nxIn, nxOut>>

ReadBytes ==
  /\ pc = "read" /\ MayRead /\ Room(proxyRead) > 0
  /\ NxWaiting > 0
  /\ LET k == Least(NxWaiting, Room(proxyRead)) IN
       /\ proxyRead' = QvdBufferRead(proxyRead, NextBytes(nxRead, k))
       /\ nxRead' = nxRead + k
  /\ pc' = "write"
  /\ UNCHANGED <<fdVars, selectVars, statusVars, proxyWrite, end_connection,
                 peers, connIn, connOut, nxIn, nxSent>>

\* EAGAIN: only when there was no select to say that NX had written.
ReadAgain ==
  /\ pc = "read" /\ MayRead
  /\ NxWaiting = 0 /\ nx = "open"
  /\ pc' = "write"
  /\ UNCHANGED <<fdVars, selectVars, statusVars, proxyWrite, proxyRead,
                 end_connection, peers, connIn, connOut, nxIn, nxOut>>

\* read returns 0 (end of stream, or no room to read into), or fails with
\* anything but EAGAIN, EWOULDBLOCK or EINTR: the same to the loop.
ReadEnds ==
  /\ pc = "read" /\ MayRead
  /\ (NxWaiting = 0 /\ nx = "closed") \/ Room(proxyRead) <= 0
  /\ proxyFd' = -1
  /\ pc' = "write"
  /\ UNCHANGED <<connFd, selectVars, statusVars, proxyWrite, proxyRead,
                 end_connection, peers, connIn, connOut, nxIn, nxOut>>

-----------------------------------------------------------------------------
(* Write to NX from proxyWrite, without asking select *)

MayWrite == proxyFd > 0 /\ QvdBufferCanWrite(proxyWrite)

NxSocketRoom == NX_SOCKET - (Len(toNx) - nxTaken)

WriteSkips ==
  /\ pc = "write" /\ ~MayWrite
  /\ pc' = "send"
  /\ UNCHANGED <<fdVars, selectVars, statusVars, proxyWrite, proxyRead,
                 end_connection, peers, connIn, connOut, nxIn, nxOut>>

WriteBytes ==
  /\ pc = "write" /\ MayWrite /\ nx = "open"
  /\ \E n \in 1 .. Least(Len(Live(proxyWrite)), NxSocketRoom) :
       /\ toNx' = toNx \o SubSeq(Live(proxyWrite), 1, n)
       /\ proxyWrite' = QvdBufferWrite(proxyWrite, n)
  /\ pc' = "send"
  /\ UNCHANGED <<fdVars, selectVars, statusVars, proxyRead, end_connection,
                 peers, connIn, connOut, nxTaken, nxOut>>

\* EAGAIN, the socket pair is full.
WriteAgain ==
  /\ pc = "write" /\ MayWrite /\ nx = "open"
  /\ NxSocketRoom <= 0
  /\ pc' = "send"
  /\ UNCHANGED <<fdVars, selectVars, statusVars, proxyWrite, proxyRead,
                 end_connection, peers, connIn, connOut, nxIn, nxOut>>

\* NX closed its end: EPIPE.
WriteFails ==
  /\ pc = "write" /\ MayWrite /\ nx = "closed"
  /\ proxyFd' = -1
  /\ pc' = "send"
  /\ UNCHANGED <<connFd, selectVars, statusVars, proxyWrite, proxyRead,
                 end_connection, peers, connIn, connOut, nxIn, nxOut>>

-----------------------------------------------------------------------------
(* Write to curl from proxyRead, then the test at the end of the loop *)

\* Mutant: only the set that select filled is looked at, not the descriptor.
MaySendOnceSelected == QvdBufferCanWrite(proxyRead) /\ CONN \in wfds

MaySend == connFd > 0 /\ QvdBufferCanWrite(proxyRead) /\ CONN \in wfds

WindowRoom == WINDOW - (Len(toRemote) - remoteTaken)

SendSkips ==
  /\ pc = "send" /\ ~MaySend
  /\ UNCHANGED <<fdVars, numunsupportedprotocolerrs, result>>
  /\ LoopTest
  /\ UNCHANGED <<selectVars, proxyWrite, proxyRead, end_connection,
                 peers, connIn, connOut, nxIn, nxOut>>

SendBytes ==
  /\ pc = "send" /\ MaySend /\ remote # "broken"
  /\ \E n \in 1 .. Least(Len(Live(proxyRead)), WindowRoom) :
       /\ toRemote' = toRemote \o SubSeq(Live(proxyRead), 1, n)
       /\ proxyRead' = QvdBufferWrite(proxyRead, n)
  /\ numunsupportedprotocolerrs' = 0
  /\ UNCHANGED <<fdVars, result>>
  /\ LoopTest
  /\ UNCHANGED <<selectVars, proxyWrite, end_connection,
                 peers, connIn, remoteTaken, nxIn, nxOut>>

SendAgain ==
  /\ pc = "send" /\ MaySend /\ remote # "broken"
  /\ UNCHANGED <<fdVars, numunsupportedprotocolerrs, result>>
  /\ LoopTest
  /\ UNCHANGED <<selectVars, proxyWrite, proxyRead, end_connection,
                 peers, connIn, connOut, nxIn, nxOut>>

SendUnsupported ==
  /\ pc = "send" /\ MaySend
  /\ AtEndOfStream \/ Lost
  /\ CountUnsupported
  /\ UNCHANGED proxyFd
  /\ LoopTest
  /\ UNCHANGED <<selectVars, proxyWrite, proxyRead, end_connection,
                 peers, connIn, connOut, nxIn, nxOut>>

\* Any other error: the descriptor is given up but result is left alone.
SendFails ==
  /\ pc = "send" /\ MaySend /\ remote # "open"
  /\ connFd' = -1
  /\ UNCHANGED <<proxyFd, numunsupportedprotocolerrs, result>>
  /\ LoopTest
  /\ UNCHANGED <<selectVars, proxyWrite, proxyRead, end_connection,
                 peers, connIn, connOut, nxIn, nxOut>>

-----------------------------------------------------------------------------
(* The remote host, and the application's other threads *)

Running == pc # "returned"

RemoteSends ==
  /\ Running /\ remote = "open" /\ remoteSent < REMOTE_LEN
  /\ remoteSent' = remoteSent + 1
  /\ UNCHANGED <<pc, fdVars, selectVars, statusVars, proxyWrite, proxyRead,
                 end_connection, peers, tlsPending, received, connOut, nxIn, nxOut>>

RemoteTakes ==
  /\ Running /\ remote # "broken" /\ remoteTaken < Len(toRemote)
  /\ remoteTaken' = remoteTaken + 1
  /\ UNCHANGED <<pc, fdVars, selectVars, statusVars, proxyWrite, proxyRead,
                 end_connection, peers, connIn, toRemote, nxIn, nxOut>>

\* The host ends its stream, or the connection is reset under the client.
RemoteGoes ==
  /\ Running
  /\ \/ remote = "open" /\ remote' = "closed"
     \/ remote # "broken" /\ remote' = "broken"
  /\ UNCHANGED <<pc, fdVars, selectVars, statusVars, proxyWrite, proxyRead,
                 end_connection, nx, connIn, connOut, nxIn, nxOut>>

qvd_end_connection ==
  /\ Running /\ ~end_connection
  /\ end_connection' = TRUE
  /\ UNCHANGED <<pc, fdVars, selectVars, statusVars, proxyWrite, proxyRead,
                 peers, connIn, connOut, nxIn, nxOut>>

-----------------------------------------------------------------------------
Select  == PrepareTransport \/ PrepareNoTransport \/ SelectReturns \/ SelectFails
Check   == CheckRetries \/ CheckFails \/ CheckEnded \/ CheckProceeds
Recv    == RecvSkips \/ RecvBytes \/ RecvEnd \/ RecvAgain \/ RecvUnsupported
           \/ RecvFails
Read    == ReadSkips \/ ReadBytes \/ ReadAgain \/ ReadEnds
Write   == WriteSkips \/ WriteBytes \/ WriteAgain \/ WriteFails
Send    == SendSkips \/ SendBytes \/ SendAgain \/ SendUnsupported \/ SendFails

LoopStep == Select \/ ExecuteReturns \/ Check \/ Recv \/ Read \/ Write \/ Send

NxStep == NxTakes \/ NxSends \/ NxCloses

Environment == RemoteSends \/ RemoteTakes \/ RemoteGoes \/ qvd_end_connection

Next == LoopStep \/ NxStep \/ Environment

Spec == Init /\ [][Next]_vars

\* What the loop is assumed to go on doing, whatever the peers do.  A call
\* returns (select has a timeout; the others do not block).  NX is running
\* again and again and select does not fail for ever.  A call that may answer
\* "try again" does not do so for ever once bytes or room are there.
Fairness ==
  /\ WF_vars(LoopStep)
  /\ SF_vars(PrepareTransport) /\ SF_vars(SelectReturns)
  /\ SF_vars(RecvBytes) /\ SF_vars(ReadBytes)
  /\ SF_vars(WriteBytes) /\ SF_vars(SendBytes)

\* The peers go on reading: NX what it is given when it is let run, and the
\* remote host what is sent to it.  Nothing in the code sees to that, so it is
\* no part of Fairness but a premise of the properties that need it.
PeersTake == SF_vars(NxTakes) /\ WF_vars(RemoteTakes)

FairSpec == Spec /\ Fairness

-----------------------------------------------------------------------------
(* Safety *)

Phases == {"prepare", "select", "execute", "check", "recv", "read", "write",
           "send", "returned"}

Sound(b) == b \in QvdBuffers /\ b.offset <= b.size /\ b.size <= BUFFER_SIZE

\* Every variable has its type; no read is ever stored past the end of a
\* buffer, and no side is ever ahead of the one that feeds it.
TypeOK ==
  /\ pc \in Phases
  /\ connFd \in {CONN, -1} /\ proxyFd \in {PROXY, -1}
  /\ rfds \subseteq {CONN, PROXY} /\ wfds \subseteq {CONN}
  /\ ret \in {0, -1}
  /\ numunsupportedprotocolerrs \in Nat
  /\ result \in {0, -1} /\ returned \in {0, 1, -1}
  /\ Sound(proxyWrite) /\ Sound(proxyRead)
  /\ end_connection \in BOOLEAN
  /\ remote \in {"open", "closed", "broken"} /\ nx \in {"open", "closed"}
  /\ remoteSent \in Nat /\ tlsPending \in Nat /\ received \in Nat
  /\ received + tlsPending <= remoteSent
  /\ toRemote \in Seq(Nat) /\ remoteTaken \in 0 .. Len(toRemote)
  /\ nxSent \in Nat /\ nxRead \in 0 .. nxSent
  /\ toNx \in Seq(Nat) /\ nxTaken \in 0 .. Len(toNx)

\* Of a stream of which "taken" bytes entered buffer b, the sequence "out"
\* left it: out is the stream's beginning, in order and with nothing missing
\* or repeated, and the live bytes of b are exactly what comes next.
InOrder(b, taken, out) ==
  /\ \A i \in 1 .. Len(out) : out[i] = i
  /\ taken = Len(out) + (b.size - b.offset)
  /\ \A i \in b.offset .. b.size - 1 : b.data[i] = Len(out) + (i - b.offset) + 1

\* Through short reads, short writes, retries and resets of proxyWrite, what
\* NX is given is the remote host's stream, and the buffer holds its next bytes.
NxGetsRemoteStream == InOrder(proxyWrite, received, toNx)

\* The same of proxyRead, from NX to the remote host.
RemoteGetsNxStream == InOrder(proxyRead, nxRead, toRemote)

\* The space in front of offset is never reused, so a full buffer that has
\* nothing left to write could neither be read into nor drained: both reads and
\* writes would be skipped for ever and the loop would hang.  It cannot happen.
NoWedge ==
  \A b \in {proxyWrite, proxyRead} : QvdBufferCanRead(b) \/ QvdBufferCanWrite(b)

\* A read with no room returns 0 bytes just like the end of the stream.  The
\* loop gives a descriptor up only when the peer behind it has really gone.
FdClosedOnlyIfPeerGone ==
  /\ connFd = -1 => remote # "open"
  /\ proxyFd = -1 => nx = "closed"

\* A receive error is what the function returns: nothing later in the same
\* pass, which still writes to both sides, turns it back into a success.
FailureReported ==
  [][result = -1 => result' = -1 /\ (pc' = "returned" => returned' = -1)]_vars

\* connFd may be given up in the middle of a pass while the sets select filled
\* still hold it: no byte is received or sent on it after that.
ConnSilentAfterClose ==
  [][connFd = -1 => UNCHANGED <<received, toRemote>>]_vars

-----------------------------------------------------------------------------
(* Each direction implements the abstract pipe *)

ToNx == INSTANCE BytePipe WITH Capacity <- BUFFER_SIZE, accepted <- received,
                               delivered <- toNx, shut <- pc = "returned"

ToRemote == INSTANCE BytePipe WITH Capacity <- BUFFER_SIZE, accepted <- nxRead,
                                   delivered <- toRemote, shut <- pc = "returned"

\* Seen from its ends, proxyWrite with the calls that fill and drain it is a
\* bounded pipe that loses bytes only by being shut when the function returns.
ToNxPipe == ToNx!Spec

\* The same of proxyRead.
ToRemotePipe == ToRemote!Spec

-----------------------------------------------------------------------------
(* Liveness, under Fairness *)

\* qvd_end_connection is honoured: the loop returns, whatever the traffic is
\* and whether or not the peers read what they are given.
EndHonoured == end_connection ~> pc = "returned"

\* NX reads nothing and proxyWrite is full: connFd is in no set that is read.
HeldByNx == nx = "open" /\ ~QvdBufferCanRead(proxyWrite)

\* The remote host reads nothing and proxyRead is full: proxyFd is not read,
\* and there is nothing to write to it either.
HeldByRemote ==
  remote = "open" /\ ~QvdBufferCanRead(proxyRead) /\ ~QvdBufferCanWrite(proxyWrite)

\* When the remote host or NX goes, the loop returns, also if the other one has
\* stopped reading, unless its back-pressure hides that: the buffer towards it
\* is then full from some time on and for ever.  And NX's going is hidden only
\* as long as there is no byte for NX.
EndsAfterClose ==
  /\ []<>~HeldByNx => (remote # "open" ~> pc = "returned")
  /\ []<>~HeldByRemote => (nx = "closed" ~> pc = "returned")

\* What the remote host sends reaches NX, unless the loop returns.
NxDelivery ==
  PeersTake => \A i \in 1 .. REMOTE_LEN :
                 remoteSent >= i ~> Len(toNx) >= i \/ pc = "returned"

\* What NX sends reaches the remote host, unless the loop returns.
RemoteDelivery ==
  PeersTake => \A i \in 1 .. NX_LEN :
                 nxSent >= i ~> Len(toRemote) >= i \/ pc = "returned"

-----------------------------------------------------------------------------
(* What the comment above the function says and the code does not do *)

\* "We read from connFd and store it in the proxyWrite buffer and then write it
\* ingo proxyFd (NX)": with NX still there, no request to end and no error,
\* what was stored was also written by the time the function returns 0.
StoredIsWritten ==
  pc = "returned" /\ returned = 0 /\ nx = "open" /\ ~end_connection
    => Len(toNx) = received
=============================================================================
