----------------------------- MODULE Handshake -----------------------------
(***************************************************************************)
(* _qvd_switch_protocols of qvdclientcore.c: the client asks the server to *)
(* connect it to a virtual machine and waits, while the machine starts,    *)
(* for the answer that upgrades the connection or for one that refuses.    *)
(*                                                                         *)
(* The wait has two loops.  The outer one polls every second, for at most  *)
(* LIMIT seconds.  Once it has seen a final status (2xx to 5xx) the inner  *)
(* one waits for the rest of that answer, to show it as an error.          *)
(*                                                                         *)
(* An answer is a sequence of tokens, each a run of bytes that matters to  *)
(* the code: "HTTP/1.1", the status code, the Content-Length header (with  *)
(* a number or with something else), the empty line and pieces of body.  A *)
(* receive returns any number of them, so a search over the buffer finds   *)
(* what the split lets it find.                                            *)
(***************************************************************************)
EXTENDS Integers, Sequences, FiniteSets

CONSTANTS
  Scripts,         \* what the server may have to say, token by token
  LIMIT,           \* seconds the outer loop waits, 600 in the code
  BUFFER_TOKENS,   \* bound: room of qvd->buffer.data, in tokens
  CONTENT_LENGTH,  \* the body's length the header announces, in tokens
  BODY,            \* bytes of a token
  UNSET,           \* what content_length may hold before it is assigned
  LEFT             \* what earlier calls on the handle may have left in the buffer

SEPARATOR == 4     \* bytes of the empty line, counted with the content

Statuses == {"101", "102", "final"}
Tokens == {"HTTP/1.1", "length", "badlength", "blank", "body", "nul"} \cup Statuses

\* All the answers together fit the buffer: the tests of bytes_received against
\* BUFFER_SIZE hold, and neither loop is left through them.
ASSUME ScriptAssumption ==
  /\ Scripts \subseteq Seq(Tokens \ {"nul"})
  /\ BUFFER_TOKENS \in Nat
  /\ \A s \in Scripts : Len(s) < BUFFER_TOKENS

ASSUME LimitAssumption ==
  /\ LIMIT \in Nat /\ BODY \in Nat \ {0} /\ CONTENT_LENGTH \in Nat
  /\ UNSET \subseteq Int /\ LEFT \subseteq Seq(Tokens)

VARIABLES
  \* The client.
  pc,
  watched,         \* whether the socket is still in myset
  elapsed,         \* seconds since start_time
  data,            \* qvd->buffer.data
  bytes_received,
  content_length,
  returned,        \* what the function returned, once pc = "returned"
  \* The server and the connection.
  script, sent,    \* its answers, and how many tokens of them it has sent
  server,          \* "open", "closed" or "broken"
  taken            \* how many tokens curl_easy_recv has returned

client == <<watched, elapsed, data, bytes_received, content_length, returned>>
peer   == <<script, sent, server>>
vars   == <<pc, client, peer, taken>>

-----------------------------------------------------------------------------
(* The buffer as the C string functions see it *)

\* data with a piece copied to it after its first "at" tokens.
Store(at, piece) ==
  [i \in 1 .. BUFFER_TOKENS |->
     IF i \in at + 1 .. at + Len(piece) THEN piece[i - at] ELSE data[i]]

\* What strlen, strstr and strcasestr look at.
Visible(d) == {i \in 1 .. BUFFER_TOKENS : \A j \in 1 .. i : d[j] # "nul"}

\* strstr(data, "HTTP/1.1 <status>")
HasStatus(d, status) ==
  \E i \in Visible(d) : i + 1 \in Visible(d) /\ d[i] = "HTTP/1.1" /\ d[i + 1] = status

\* strlen(strstr(data, "\r\n\r\n")), or -1 when there is no empty line.
ContentSize(d) ==
  LET blanks == {i \in Visible(d) : d[i] = "blank"} IN
  IF blanks = {} THEN -1
  ELSE LET first == CHOOSE i \in blanks : \A j \in blanks : i <= j IN
       SEPARATOR + BODY * Cardinality({i \in Visible(d) : i > first})

\* The first header found decides; without one nothing is assigned.
ParsedLength(d) ==
  LET headers == {i \in Visible(d) : d[i] \in {"length", "badlength"}} IN
  IF headers = {} THEN {content_length}
  ELSE LET first == CHOOSE i \in headers : \A j \in headers : i <= j IN
       {IF d[first] = "length" THEN BODY * CONTENT_LENGTH ELSE -1}

Readable == sent > taken \/ server # "open"

AtEnd == server = "closed" /\ sent = taken

\* What curl_easy_recv may return with CURLE_OK: nothing only at the end.
Pieces == {SubSeq(script, taken + 1, taken + k) :
             k \in (IF AtEnd THEN 0 ELSE 1) .. sent - taken}

Return(value) == pc' = "returned" /\ returned' = value

-----------------------------------------------------------------------------
\* The buffer is the handle's: it holds what the lists and the handshakes of
\* earlier calls brought, whole answers among it, and zeros after that.
Leftovers ==
  {[i \in 1 .. BUFFER_TOKENS |-> IF i \in 1 .. Len(left) THEN left[i] ELSE "nul"] :
     left \in LEFT}

Init ==
  /\ pc = "perform" /\ watched = FALSE /\ elapsed = 0 /\ returned = 0
  /\ data \in Leftovers
  /\ bytes_received = 0 /\ content_length \in UNSET
  /\ script \in Scripts /\ sent = 0 /\ server = "open" /\ taken = 0

\* Connect and send the request.  The request may also be too long for url, and
\* CURLE_AGAIN is an error here.
RequestSent ==
  /\ pc = "perform" /\ server # "broken"
  /\ pc' = "clock"
  /\ watched' = TRUE /\ elapsed' = 0
  /\ UNCHANGED <<data, bytes_received, content_length, returned, peer, taken>>

RequestFails ==
  /\ pc = "perform"
  /\ Return(1)
  /\ UNCHANGED <<watched, elapsed, data, bytes_received, content_length, peer, taken>>

-----------------------------------------------------------------------------
(* The outer loop *)

\* Mutant: the limit is never looked at.
CheckNothing ==
  /\ pc = "clock"
  /\ pc' = "select" /\ UNCHANGED returned
  /\ UNCHANGED <<watched, elapsed, data, bytes_received, content_length, peer, taken>>

CheckClock ==
  /\ pc = "clock"
  /\ IF elapsed > LIMIT THEN Return(2) ELSE pc' = "select" /\ UNCHANGED returned
  /\ UNCHANGED <<watched, elapsed, data, bytes_received, content_length, peer, taken>>

SelectReady ==
  /\ pc = "select" /\ watched /\ Readable
  /\ pc' = "recv"
  /\ UNCHANGED <<client, peer, taken>>

\* select clears the sets when it times out, and myset is never filled again:
\* from then on it only sleeps.
SelectTimesOut ==
  /\ pc = "select" /\ ~(watched /\ Readable)
  /\ watched' = FALSE
  /\ elapsed' = elapsed + 1
  /\ pc' = "recv"
  /\ UNCHANGED <<data, bytes_received, content_length, returned, peer, taken>>

\* A signal interrupts select, which leaves myset as it was.
SelectInterrupted ==
  /\ pc = "select"
  /\ pc' = "recv"
  /\ UNCHANGED <<client, peer, taken>>

\* Mutant: each attempt counts the time anew.
RecvAgainRestarts ==
  /\ pc = "recv" /\ server = "open"
  /\ pc' = "clock" /\ elapsed' = 0
  /\ UNCHANGED <<watched, data, bytes_received, content_length, returned, peer, taken>>

\* Nothing came, or only part of a TLS record.
RecvAgain ==
  /\ pc = "recv" /\ server = "open"
  /\ pc' = "clock"
  /\ UNCHANGED <<client, peer, taken>>

RecvFails ==
  /\ pc = "recv" /\ (server = "broken" \/ AtEnd)
  /\ Return(2)
  /\ UNCHANGED <<watched, elapsed, data, bytes_received, content_length, peer, taken>>

\* Mutant: the piece is not terminated.
RecvPieceUnterminated ==
  /\ pc = "recv"
  /\ \E piece \in Pieces :
       /\ data' = Store(0, piece)
       /\ bytes_received' = Len(piece)
       /\ taken' = taken + Len(piece)
  /\ pc' = "inspect"
  /\ UNCHANGED <<watched, elapsed, content_length, returned, peer>>

\* The piece goes to the front of data and is terminated; at the end of the
\* stream it is empty.
RecvPiece ==
  /\ pc = "recv"
  /\ \E piece \in Pieces :
       /\ data' = Store(0, Append(piece, "nul"))
       /\ bytes_received' = Len(piece)
       /\ taken' = taken + Len(piece)
  /\ pc' = "inspect"
  /\ UNCHANGED <<watched, elapsed, content_length, returned, peer>>

\* Mutant: any informational status is taken for the upgrade.
UpgradedByAnyStatus == HasStatus(data, "101") \/ HasStatus(data, "102")

Upgraded == HasStatus(data, "101")

\* Mutant: a progress message is taken for a final status.
RefusedByAnyStatus == HasStatus(data, "final") \/ HasStatus(data, "102")

\* 2xx, 3xx, 4xx or 5xx: the code looks for each of the four.
Refused == HasStatus(data, "final")

InspectUpgrade ==
  /\ pc = "inspect" /\ Upgraded
  /\ Return(0)
  /\ UNCHANGED <<watched, elapsed, data, bytes_received, content_length, peer, taken>>

\* Progress (102, which calls the application's callback) or nothing known.
InspectWaits ==
  /\ pc = "inspect" /\ ~Upgraded /\ ~Refused
  /\ pc' = "clock"
  /\ UNCHANGED <<client, peer, taken>>

InspectFinal ==
  /\ pc = "inspect" /\ ~Upgraded /\ Refused
  /\ content_length' \in ParsedLength(data)
  /\ pc' = "innerSelect"
  /\ UNCHANGED <<watched, elapsed, data, bytes_received, returned, peer, taken>>

-----------------------------------------------------------------------------
(* The inner loop: select has no timeout *)

InnerSelectReady ==
  /\ pc = "innerSelect" /\ watched /\ Readable
  /\ pc' = "innerRecv"
  /\ UNCHANGED <<client, peer, taken>>

\* A signal interrupts it.
InnerSelectInterrupted ==
  /\ pc = "innerSelect"
  /\ pc' = "innerRecv"
  /\ UNCHANGED <<client, peer, taken>>

\* Any answer but CURLE_OK, CURLE_AGAIN too: only the rest of a stream that the
\* server has closed is sure to be there.
InnerRecvFails ==
  /\ pc = "innerRecv" /\ (sent = taken \/ server # "closed")
  /\ Return(7)
  /\ UNCHANGED <<watched, elapsed, data, bytes_received, content_length, peer, taken>>

\* Mutant: more content is waited for than the answer has.
MoreThanEnough(size, length) == size > length + SEPARATOR

Enough(size, length) == size >= length

\* The piece goes after what is there, and nothing terminates it.  Enough
\* content ends the wait; with no empty line there is no content to show, and
\* the pointer that is printed is not one (undefined: the process dies).
InnerRecvPiece ==
  /\ pc = "innerRecv"
  /\ \E piece \in Pieces :
       /\ data' = Store(bytes_received, piece)
       /\ bytes_received' = bytes_received + Len(piece)
       /\ taken' = taken + Len(piece)
  /\ LET size == ContentSize(data') IN
     IF Enough(size, content_length)
     THEN IF size = -1 THEN pc' = "crashed" /\ UNCHANGED returned ELSE Return(8)
     ELSE pc' = "innerSelect" /\ UNCHANGED returned
  /\ UNCHANGED <<watched, elapsed, content_length, peer>>

-----------------------------------------------------------------------------
(* The server, and time *)

Ended == pc \in {"returned", "crashed"}

ServerSends ==
  /\ ~Ended /\ server = "open" /\ sent < Len(script)
  /\ sent' = sent + 1
  /\ UNCHANGED <<pc, client, script, server, taken>>

ServerGoes ==
  /\ ~Ended /\ server = "open"
  /\ server' \in {"closed", "broken"}
  /\ UNCHANGED <<pc, client, script, sent, taken>>

Tick ==
  /\ ~Ended /\ pc # "perform" /\ elapsed <= LIMIT
  /\ elapsed' = elapsed + 1
  /\ UNCHANGED <<pc, watched, data, bytes_received, content_length, returned, peer, taken>>

Outer == \/ CheckClock \/ SelectReady \/ SelectTimesOut \/ RecvAgain \/ RecvFails
         \/ RecvPiece \/ InspectUpgrade \/ InspectWaits \/ InspectFinal

\* Signals that interrupt a select need never come.
Inner == InnerSelectReady \/ InnerRecvFails \/ InnerRecvPiece

ClientStep == RequestSent \/ RequestFails \/ Outer \/ Inner

Interrupted == SelectInterrupted \/ InnerSelectInterrupted

Next == ClientStep \/ Interrupted \/ ServerSends \/ ServerGoes \/ Tick

Spec == Init /\ [][Next]_vars

\* The client goes on whenever it is not blocked, and time passes.
Fairness == WF_vars(ClientStep) /\ WF_vars(Tick)

FairSpec == Spec /\ Fairness

-----------------------------------------------------------------------------
(* Properties *)

OuterPhases == {"clock", "select", "recv", "inspect"}
InnerPhases == {"innerSelect", "innerRecv"}

TokensReceived == {script[i] : i \in 1 .. taken}

\* Types; what curl returned was sent, and the outer loop overruns its limit by
\* no more than the select it is in.
TypeOK ==
  /\ pc \in {"perform", "returned", "crashed"} \cup OuterPhases \cup InnerPhases
  /\ watched \in BOOLEAN /\ elapsed \in 0 .. LIMIT + 2
  /\ data \in [1 .. BUFFER_TOKENS -> Tokens]
  /\ bytes_received \in 0 .. BUFFER_TOKENS
  /\ content_length \in UNSET \cup {-1, BODY * CONTENT_LENGTH}
  /\ returned \in {0, 1, 2, 7, 8}
  /\ script \in Scripts /\ sent \in 0 .. Len(script) /\ taken \in 0 .. sent
  /\ server \in {"open", "closed", "broken"}

\* The connection is handed to the relay only if the server upgraded it in this
\* call: neither a way of cutting the answers into pieces, nor the answer that
\* upgraded an earlier connection of the handle and is still in the buffer, makes
\* a progress message, a refusal or a few bytes of either pass for an upgrade.
UpgradedOnlyBy101 == pc = "returned" /\ returned = 0 => "101" \in TokensReceived

\* And a refusal is reported only if the server refused.
RefusedOnlyByFinal ==
  pc \in InnerPhases \/ (pc = "returned" /\ returned \in {7, 8})
    => "final" \in TokensReceived

\* The outer wait is bounded, whatever the server says or does not say.
OuterWaitEnds == pc \in OuterPhases ~> pc \notin OuterPhases

\* When the server has sent a whole refusal and closed the connection, some of it
\* is still to be received and select watches the socket, the refusal is reported:
\* 8 is returned, however the rest is cut, whatever is in the buffer behind it and
\* whether content_length was announced or is a garbage value that is not negative
\* and no more than the content.
RefusalReported ==
  (/\ pc = "innerSelect" /\ watched
   /\ server = "closed" /\ sent = Len(script) /\ taken < sent
   /\ content_length \in 0 .. BODY * Cardinality({i \in 1 .. sent : script[i] = "body"}))
    ~> pc = "returned" /\ returned = 8

\* "Timeout while waiting for remote desktop to come up": the wait ends.
WaitEnds == <>Ended
=============================================================================
