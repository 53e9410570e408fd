------------------------------- MODULE Client -------------------------------
(***************************************************************************)
(* The public calls of qvdclientcore.c, made on one handle at a time in    *)
(* any order an application may choose: qvd_init, qvd_list_of_vm,          *)
(* qvd_stop_vm, qvd_connect_to_vm (module Connect), the setters a later    *)
(* call depends on, and qvd_free.  What one call leaves in the handle, the *)
(* response buffer, the curl options and the list (module VmList), is what *)
(* the next one finds.  Any allocation of the list may fail.               *)
(*                                                                         *)
(* A response body is a record: "list" is a JSON array of vms, "json" is   *)
(* JSON that is no array, "text" is anything else.  The response buffer is *)
(* the sequence of the bodies in it, each with the call it was received    *)
(* in; sizes are counted in units of a vm's description.                   *)
(***************************************************************************)
EXTENDS Connect, VmList, FiniteSets

CONSTANTS
  MAX_CALLS,       \* bound: public calls made
  MAX_VMS,         \* bound: machines in one answer
  BUFFER_SIZE,     \* capacity of qvd->buffer, in units
  Homes            \* what the application passes to qvd_set_home

ASSUME ClientAssumption ==
  /\ MAX_CALLS \in Nat /\ MAX_VMS \in Nat /\ BUFFER_SIZE \in Nat \ {0}
  /\ "unset" \notin Homes

VARIABLES
  pc,              \* the call that runs and where it is, "idle" between calls
  calls,           \* public calls made so far
  handle,          \* whether the application has a handle
  curls,           \* curl handles that exist
  buffer,          \* qvd->buffer
  use_client_cert,
  sslcert,         \* CURLOPT_SSLCERT of qvd->curl is set
  numvms, payment_required,
  memory,          \* the list and what is allocated for it
  i,               \* the loop index of qvd_list_of_vm
  returned,        \* how the last call ended
  starved,         \* an allocation has failed
  \* What the properties remember.
  last_body,       \* the call in which the handle last received a body
  kept             \* numvms and the list after the last call that made one

certVars   == <<use_client_cert, sslcert>>
listVars   == <<numvms, memory, i, starved, kept>>
bodyVars   == <<buffer, last_body>>
clientVars == <<calls, handle, curls, bodyVars, certVars, payment_required, listVars>>
vars       == <<pc, returned, clientVars, connectVars>>

\* Where a program that went wrong is: killed by a pointer that is none, or gone
\* on after writing where it should not.
Ended == pc \in {"crashed", "undefined"} \/ step = "crashed"

Idle == pc = "idle" /\ step = "idle"

Call == Idle /\ calls < MAX_CALLS /\ calls' = calls + 1

Return(value) == pc' = "idle" /\ returned' = value

-----------------------------------------------------------------------------
(* The response buffer *)

Nothing == [kind |-> "nothing", vms |-> 0]
Text    == [kind |-> "text", vms |-> 0]
Bodies  == {Nothing, Text, [kind |-> "json", vms |-> 0]}
             \cup {[kind |-> "list", vms |-> n] : n \in 0 .. MAX_VMS}

Units(body) == IF body = Nothing THEN 0 ELSE 1 + body.vms

EmptyBuffer == [data |-> <<>>, size |-> 0]

\* An empty body always does, even when the buffer is past its end.
Fits(body) == body = Nothing \/ Units(body) <= BUFFER_SIZE - buffer.size

\* Mutant: all of it is copied, whatever room there is.
AppendPastEnd(b, body) ==
  [data |-> IF body = Nothing THEN b.data
            ELSE Append(b.data, [kind |-> body.kind, vms |-> body.vms, from |-> calls]),
   size |-> b.size + Units(body)]

\* What does not fit is cut off, and size still grows by all of it.
QvdBufferAppend(b, body) ==
  LET room == BUFFER_SIZE - b.size
      kind == IF Units(body) <= room THEN body.kind ELSE "text"
  IN [data |-> IF body = Nothing \/ room = 0 THEN b.data
               ELSE Append(b.data, [kind |-> kind, vms |-> body.vms, from |-> calls]),
      size |-> b.size + Units(body)]

\* _qvd_write_buffer_callback.  curl does not call it when there is no body.
Receive(body) ==
  /\ buffer' = QvdBufferAppend(buffer, body)
  /\ last_body' = IF body = Nothing THEN last_body ELSE calls

\* Mutant: jansson is told to stop after the first document.
ParsesPrefix(b) == b.data # <<>> /\ b.data[1].kind \in {"list", "json"}

\* json_loads: one document, and nothing behind it.
Parses(b) == Len(b.data) = 1 /\ b.data[1].kind \in {"list", "json"}

-----------------------------------------------------------------------------
(* qvd_init and qvd_free *)

Init ==
  /\ ConnectInit
  /\ pc = "idle" /\ calls = 0 /\ handle = FALSE /\ curls = 0
  /\ buffer = EmptyBuffer /\ last_body = 0
  /\ use_client_cert = FALSE /\ sslcert = FALSE
  /\ numvms = 0 /\ payment_required = FALSE
  /\ memory = NoMemory /\ i = 0 /\ returned = "nothing" /\ starved = FALSE
  /\ kept = [list |-> <<>>, numvms |-> 0]

\* No credentials, a string that is too long, or no curl handle: what was
\* allocated is freed.
InitFails ==
  /\ Call /\ ~handle
  /\ Return("null")
  /\ UNCHANGED <<handle, curls, bodyVars, certVars, payment_required, listVars, connectVars>>

\* A host name that is too long, or no memory for the handle: the message goes
\* to the handle there is not.
InitUndefined ==
  /\ Call /\ ~handle
  /\ pc' = "undefined"
  /\ UNCHANGED <<returned, handle, curls, bodyVars, certVars, payment_required, listVars,
                 connectVars>>

\* A new curl handle, with none of the options that later calls set.
_qvd_init_curl == curls' = curls + 1 /\ sslcert' = FALSE /\ connect_only' = FALSE

\* No memory for the list: the handle is freed and its curl handle is not.
InitStarves ==
  /\ Call /\ ~handle
  /\ Return("null") /\ _qvd_init_curl /\ starved' = TRUE
  /\ UNCHANGED <<handle, bodyVars, use_client_cert, payment_required, numvms, memory, i, kept,
                 step, homeVars, end_connection, result, socketVars>>

\* end_connection is not set.
qvd_init ==
  /\ Call /\ ~handle
  /\ Return("handle") /\ handle' = TRUE /\ _qvd_init_curl
  /\ buffer' = EmptyBuffer /\ last_body' = 0
  /\ use_client_cert' = FALSE
  /\ numvms' = 0 /\ payment_required' = FALSE /\ i' = 0
  /\ memory' = QvdVmListInit(memory, <<calls', 0>>)
  /\ kept' = [list |-> memory'.list, numvms |-> 0]
  /\ home' = "unset" /\ end_connection' \in BOOLEAN
  /\ UNCHANGED <<starved, step, nx_home, home_at_start, result, socketVars>>

\* The NX library gives up its descriptors; the list is walked, NULL or not.
qvd_free ==
  /\ Call /\ handle
  /\ handle' = FALSE /\ curls' = curls - 1
  /\ fds' = fds \ nx /\ nx' = {}
  /\ IF memory.list = <<>> THEN pc' = "crashed" /\ UNCHANGED <<returned, memory>>
     ELSE Return("nothing") /\ memory' = [QvdVmListFree(memory) EXCEPT !.list = <<>>]
  /\ UNCHANGED <<bodyVars, certVars, payment_required, numvms, i, starved, kept, step,
                 homeVars, connect_only, end_connection, result, pairs>>

-----------------------------------------------------------------------------
(* Setters *)

qvd_set_home(path) ==
  /\ Call /\ handle
  /\ Return("nothing") /\ home' = path
  /\ UNCHANGED <<handle, curls, bodyVars, certVars, payment_required, listVars, step,
                 nx_home, home_at_start, connect_only, end_connection, result, socketVars>>

\* Enabled with two files that can be read, disabled with NULL or with one that
\* cannot.
qvd_set_cert_files(enable) ==
  /\ Call /\ handle
  /\ Return("nothing") /\ use_client_cert' = enable
  /\ UNCHANGED <<handle, curls, bodyVars, sslcert, payment_required, listVars, connectVars>>

\* The options of the curl handle are set, and never taken back.
_qvd_use_client_cert == sslcert' = (sslcert \/ use_client_cert)

-----------------------------------------------------------------------------
(* Requests *)

\* The certificate directory and NX_HOME, then the url and the client's
\* certificate, which the two requests treat alike; only a list sets NX_HOME.
StartRequest(request) ==
  /\ Call /\ handle
  /\ \E ok \in BOOLEAN :
       /\ _qvd_set_certdir(home, home', ok)
       /\ nx_home' = IF ok /\ request = "list" THEN home' ELSE nx_home
       /\ \/ ok /\ pc' = request /\ returned' = "nothing" /\ _qvd_use_client_cert
          \/ Return("null") /\ UNCHANGED sslcert
  /\ UNCHANGED <<handle, curls, bodyVars, use_client_cert, payment_required, listVars,
                 step, home_at_start, connect_only, end_connection, result, socketVars>>

qvd_list_of_vm == StartRequest("list")

qvd_stop_vm == StartRequest("stop")

\* A handle that has connected transfers nothing any more.
Answers ==
  IF connect_only THEN {[code |-> 0, body |-> Nothing]}
  ELSE {[code |-> c, body |-> b] : c \in {401, 402}, b \in {Nothing, Text}}
         \cup {[code |-> 200, body |-> b] : b \in Bodies}

\* A body for a buffer that is already past its end goes to the memory behind it.
TransferUndefined ==
  /\ pc \in {"list", "stop"} /\ ~connect_only /\ buffer.size > BUFFER_SIZE
  /\ pc' = "undefined"
  /\ UNCHANGED <<returned, clientVars, connectVars>>

\* Mutant: the write callback says it has taken everything.
ShortWriteIgnored == {}

\* Bodies the write callback does not take whole: curl gives the transfer up.
TooLong == {a.body : a \in {b \in Answers : ~Fits(b.body)}}

\* The connection breaks, before or after some of the body, or the body does not
\* fit.
TransferFails ==
  /\ pc \in {"list", "stop"}
  /\ \E body \in {Nothing} \cup (IF connect_only THEN {} ELSE {Text}) \cup TooLong :
       /\ body # Nothing => buffer.size <= BUFFER_SIZE
       /\ Receive(body)
  /\ Return("null")
  /\ UNCHANGED <<calls, handle, curls, certVars, payment_required, listVars, connectVars>>

\* Authentication failed, or there is no subscription: no list.  A stop looks at
\* the first only.
Refuses(code) == code = 401 \/ (code = 402 /\ pc = "list")

TransferEnds ==
  /\ pc \in {"list", "stop"}
  /\ \E a \in Answers :
       /\ a.body \notin TooLong /\ (a.body # Nothing => buffer.size <= BUFFER_SIZE)
       /\ Receive(a.body)
       /\ payment_required' = (payment_required \/ (a.code = 402 /\ pc = "list"))
       /\ CASE Refuses(a.code) -> Return("null")
            [] ~Refuses(a.code) /\ pc = "stop" -> Return("stopped")
            [] OTHER -> pc' = "parse" /\ UNCHANGED returned
  /\ UNCHANGED <<calls, handle, curls, certVars, listVars, connectVars>>

\* Mutant: the old list is freed before the answer is parsed.
ParseFailsFreed ==
  /\ pc = "parse" /\ ~Parses(buffer) /\ memory.list # <<>>
  /\ Return("null") /\ memory' = QvdVmListFree(memory)
  /\ UNCHANGED <<calls, handle, curls, bodyVars, certVars, payment_required, numvms, i,
                 starved, kept, connectVars>>

\* Mutant: and the pointer to it is cleared.
ParseFailsCleared ==
  /\ pc = "parse" /\ ~Parses(buffer) /\ memory.list # <<>>
  /\ Return("null") /\ memory' = [QvdVmListFree(memory) EXCEPT !.list = <<>>]
  /\ UNCHANGED <<calls, handle, curls, bodyVars, certVars, payment_required, numvms, i,
                 starved, kept, connectVars>>

\* Mutant: the machines are counted before the answer is known to be a list.
ParseFailsCounted ==
  /\ pc = "parse" /\ ~Parses(buffer)
  /\ Return("null") /\ numvms' = 0
  /\ UNCHANGED <<calls, handle, curls, bodyVars, certVars, payment_required, memory, i,
                 starved, kept, connectVars>>

ParseFails ==
  /\ pc = "parse" /\ ~Parses(buffer)
  /\ Return("null")
  /\ UNCHANGED <<clientVars, connectVars>>

\* The old list is freed before there is a new one.
ParseSucceeds ==
  /\ pc = "parse" /\ Parses(buffer)
  /\ numvms' = buffer.data[1].vms
  /\ IF memory.list = <<>> THEN pc' = "crashed" /\ UNCHANGED memory
     ELSE pc' = "malloc" /\ memory' = QvdVmListFree(memory)
  /\ UNCHANGED <<returned, calls, handle, curls, bodyVars, certVars, payment_required, i,
                 starved, kept, connectVars>>

MallocList ==
  /\ pc = "malloc"
  /\ pc' = "append" /\ memory' = QvdVmListInit(memory, <<calls, 0>>) /\ i' = 0
  /\ UNCHANGED <<returned, calls, handle, curls, bodyVars, certVars, payment_required,
                 numvms, starved, kept, connectVars>>

\* qvd->vmlist is NULL from now on.
MallocListFails ==
  /\ pc = "malloc"
  /\ Return("null") /\ memory' = [memory EXCEPT !.list = <<>>] /\ starved' = TRUE
  /\ UNCHANGED <<calls, handle, curls, bodyVars, certVars, payment_required, numvms, i,
                 kept, connectVars>>

\* One machine: its vm or its node may not be allocated, and the loop goes on.
AppendVm ==
  /\ pc = "append" /\ i < numvms
  /\ i' = i + 1
  /\ LET a == <<calls, i + 1>> IN
     \/ memory' = QvdVmListAppendVm(QvdVmNew(memory, a), a) /\ UNCHANGED starved
     \/ starved' = TRUE /\ UNCHANGED memory
     \/ starved' = TRUE /\ NeedsNode(memory) /\ memory' = QvdVmNew(memory, a)
  /\ UNCHANGED <<pc, returned, calls, handle, curls, bodyVars, certVars,
                 payment_required, numvms, kept, connectVars>>

ReturnList ==
  /\ pc = "append" /\ i = numvms
  /\ Return("list") /\ kept' = [list |-> memory.list, numvms |-> numvms]
  /\ UNCHANGED <<calls, handle, curls, bodyVars, certVars, payment_required, numvms,
                 memory, i, starved, connectVars>>

-----------------------------------------------------------------------------
(* Connections *)

StartConnect ==
  /\ Call /\ handle /\ qvd_connect_to_vm
  /\ Return("nothing")
  /\ UNCHANGED <<handle, curls, bodyVars, certVars, payment_required, listVars>>

\* The handshake receives into the response buffer, and leaves its size.  What it
\* receives is never JSON, be it the end of the stream, which leaves an empty string.
ConnectGoesOn ==
  \E heard \in (IF step = "handshake" THEN BOOLEAN ELSE {FALSE}) :
    /\ ConnectStep(heard)
    /\ IF heard
       THEN /\ buffer' = [buffer EXCEPT !.data = <<[kind |-> "text", vms |-> 0, from |-> calls]>>]
            /\ last_body' = calls
       ELSE UNCHANGED bodyVars
    /\ IF step = "certdir" /\ step' = "handshake" THEN _qvd_use_client_cert
                                                  ELSE UNCHANGED sslcert
    /\ UNCHANGED <<pc, returned, calls, handle, curls, use_client_cert, payment_required,
                   listVars>>

\* From another thread or a callback.
EndConnection ==
  /\ ~Ended /\ handle /\ ~end_connection
  /\ qvd_end_connection
  /\ UNCHANGED <<pc, returned, clientVars>>

-----------------------------------------------------------------------------
Create == InitFails \/ InitUndefined \/ InitStarves \/ qvd_init

Set == \/ \E path \in Homes : qvd_set_home(path)
       \/ \E enable \in BOOLEAN : qvd_set_cert_files(enable)

Request == qvd_list_of_vm \/ qvd_stop_vm

RequestGoesOn ==
  \/ TransferUndefined \/ TransferFails \/ TransferEnds
  \/ ParseFails \/ ParseSucceeds \/ MallocList \/ MallocListFails
  \/ AppendVm \/ ReturnList

Library == RequestGoesOn \/ ConnectGoesOn \/ EndConnection

Next == Create \/ qvd_free \/ Set \/ Request \/ StartConnect \/ Library

Spec == Init /\ [][Next]_vars

-----------------------------------------------------------------------------
(* Properties *)

Addresses == (0 .. MAX_CALLS) \X (0 .. MAX_VMS)

ListNodes == Seq([node : Addresses, data : Addresses \cup {NULL}])

\* Types; the response buffer holds no more bodies than it has units, and a list
\* no more nodes than the answer had machines.
TypeOK ==
  /\ pc \in {"idle", "list", "stop", "parse", "malloc", "append", "crashed", "undefined"}
  /\ step \in Steps /\ calls \in 0 .. MAX_CALLS /\ handle \in BOOLEAN /\ curls \in Nat
  /\ home \in Homes \cup {HOME, APPDATA, "unset"}
  /\ nx_home \in Homes \cup {HOME, APPDATA, "unset"}
  /\ connect_only \in BOOLEAN /\ end_connection \in BOOLEAN /\ result \in -1 .. 8
  /\ fds \subseteq (1 .. pairs) \X {0, 1} /\ nx \subseteq fds \cap ((1 .. pairs) \X {0})
  /\ buffer.size \in Nat /\ Len(buffer.data) <= BUFFER_SIZE
  /\ use_client_cert \in BOOLEAN /\ sslcert \in BOOLEAN
  /\ numvms \in 0 .. MAX_VMS /\ payment_required \in BOOLEAN /\ i \in 0 .. MAX_VMS
  /\ memory.list \in ListNodes /\ Len(memory.list) <= 1 + MAX_VMS
  /\ memory.nodes \subseteq Addresses /\ memory.vms \subseteq Addresses
  /\ starved \in BOOLEAN /\ last_body \in 0 .. calls

\* The list of the handle is never one that was freed: no node of it, and no vm
\* in it, whatever calls came before and whichever of them failed.
ListAlive == handle /\ pc # "malloc" => ListAllocated(memory)

\* Only a failed allocation can leave the library a list pointer it must not
\* follow: qvd_free and a second list walk a list that is there.
WalksAList == pc = "crashed" => starved

\* A list that is returned has as many machines as numvms says, which is what the
\* command line client goes by before it takes the first.
CountMatches == handle /\ Idle /\ ~starved => Listed(memory) = numvms

\* A list request that returns NULL leaves the list and numvms as they were: the
\* old list is given up only once the new answer has been parsed.
FailedCallKeepsList ==
  handle /\ Idle /\ returned = "null" /\ ~starved
    => memory.list = kept.list /\ numvms = kept.numvms

\* A list that is returned was in the last body the handle received, and that
\* body was the only one: two answers are never read as one, and no list is
\* returned again once a later answer, or a handshake, brought anything.  (Only a
\* list that fills the buffer is: what comes after it is reported and lost.)
ListIsLastBody ==
  returned = "list" /\ Idle
    => /\ Len(buffer.data) = 1 /\ buffer.data[1].vms = numvms
       /\ buffer.size <= BUFFER_SIZE => buffer.data[1].from = last_body

\* A response that does not fit is reported as a failure by the request it came
\* with, before any later one can write past the end of the buffer.
OverflowReported ==
  [][buffer'.size > BUFFER_SIZE /\ buffer'.size # buffer.size
       => pc' = "idle" /\ returned' = "null"]_vars

\* Freeing a list leaves its last node and vm allocated, but never more: no
\* sequence of calls loses two nodes of the list one call has made.
OneNodeLost ==
  ~handle /\ ~starved /\ ~Ended =>
    \A c \in 0 .. MAX_CALLS : /\ Cardinality({a \in memory.nodes : a[1] = c}) <= 1
                              /\ Cardinality({a \in memory.vms : a[1] = c}) <= 1

\* Between connections every NX transport has been told of the end, its peer being
\* closed, and an end still open belongs to a transport that was never made.
PeersClosed == step = "idle" => \A e \in nx : <<e[1], 1>> \notin fds

\* A request to end that is made once the connection has started is not forgotten
\* before the connection returns.
EndNotLost ==
  [][end_connection /\ step \notin {"idle", "certdir"} => end_connection']_vars

\* NX and the certificates use the same home, whether it comes from the
\* application or from an earlier call, provided it was a directory when the
\* connection was asked for.
NxHomeIsOurs ==
  step = "relay" /\ home_at_start \in Directories => nx_home = home

\* "Returns 1 if client certificates are used and 0 otherwise": a request made
\* with client certificates disabled does not use one.
NoCertOnceDisabled == pc \in {"list", "stop"} => (sslcert => use_client_cert)
=============================================================================
