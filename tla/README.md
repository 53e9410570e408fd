# A TLA+ model of libqvdclient

libqvdclient connects to a QVD server over HTTPS, lists the user's virtual
machines, and relays an NX session to one of them. This directory holds TLA+
modules translated from `src/`, the TLC configurations that check them on small
instances, and proofs that TLAPS checks for every value of the constants.

## The system

Everything is C, in one process. An application (or the command line client)
calls the library on a handle, `qvdclient`; one call blocks at a time, except
that `qvd_end_connection` may come from another thread or a callback.

| Component | Source | State | Operations | Interacts with |
|---|---|---|---|---|
| Buffer | `qvdbuffer.c`, `qvdbuffer.h` | `data`, `offset`, `size` | `Init`, `CanRead`, `CanWrite`, `Reset`, `Read`, `Write`, `Append` | the loop owns two of them; the handle owns one for responses |
| Client loop | `_qvd_client_loop` (662-864) | `connFd`, `proxyFd`, two buffers, select sets, `result`, an error count | one pass: prepare, select, let NX run, check, receive, read, write, send | curl (remote host), the NX library (socket pair), `end_connection` |
| Handshake | `_qvd_switch_protocols` (874-1025) | `myset`, `start_time`, `bytes_received`, `content_length`, `qvd->buffer.data` | request; outer wait with a limit; inner wait for the rest of a refusal | curl, the server, the progress callback |
| Connect | `qvd_connect_to_vm` (378-430), `_qvd_proxy_connect` (603-645) | descriptors, `end_connection` | certificate directory, handshake, NX transport, loop, close | all of the above |
| Client API | `qvd_init`, `qvd_list_of_vm`, `qvd_stop_vm`, `qvd_free`, setters | the handle: credentials, curl options, response buffer, list | one request each | curl write callback, jansson, the VM list |
| VM list | `qvdvm.c` | a linked list headed by `qvd->vmlist` | new, init, append, free | Client API |
| Certificates | 513-557, 1045-1209 | the cache `certificate[]`, the files in the certificate directory | verify callback for each certificate of a chain, save | OpenSSL, the application's callback |
| Debug log | `debug.c` | level, file, initialised or not | initialise on first use, print | everything |
| Command line | `qvdclient.c` | options | parse, list, choose, connect, twice with `-2` | Client API |
| External | NX transport, libcurl and TLS, the QVD server, kernel sockets | | | modelled only as environment |

Which behaviours are hard, and what makes each component correct:

* **Buffer.** Short writes leave a rest that later reads are appended to, and
  nothing is moved down. Correct: the live bytes are always the next bytes of
  the stream; a drained buffer is reusable; no read passes the end.
* **Client loop.** Four actors: the loop, NX (on the same thread, between two of
  its calls), the remote host, and the caller of `qvd_end_connection`. `select`
  answers go stale within a pass, a zero-length read means two things, TLS holds
  bytes back, either peer may go at any moment. Correct: both streams arrive in
  order and complete while the loop runs; the loop ends after a request to end,
  and after a close that back-pressure from the other peer does not hide for
  ever; errors are reported; no use of a connection given up.
* **Handshake.** Answers come in arbitrary pieces and late; three ways of waiting
  (with a timeout, without, and not at all). Correct: an upgrade and a refusal
  are told apart; the wait is bounded.
* **Connect.** A request to end at any point, failures between descriptors being
  opened and closed. Correct: every descriptor is closed once; the request is
  honoured.
* **Client API, VM list.** Long sequences of legal calls on one handle: the
  response buffer, the curl options and the list are left over from one call to
  the next; allocation may fail. Correct: each call means the same whatever came
  before; nothing is used after being freed, nothing leaks.
* **Certificates.** A cache that outlives the connection, a save that may fail
  half way. Correct: what the user is shown is what the peer sent, and what is
  saved is what was accepted.
* **Debug log.** Initialisation that calls the functions that initialise.
  Correct: it ends, once, with some file.

* **Command line.** Options that change which calls are made, on what the library
  left in the handle. Correct: a connection is to a machine of the list, nothing
  is called after a failure that must not be, the handle is freed.

`PROJECT.json` lists each hazard at its line with the properties that watch it.

## Modules

```
QvdBuffer <-- ClientLoop <-- MCClientLoop         BytePipe <-- ClientLoop (two INSTANCEs)
                  ^
                  +--- ClientLoopProofs           Handshake <-- MCHandshake
                             |                        ^
                             v (INSTANCE)             +--- HandshakeProofs
CertDir <-- Connect --+   Connect <-------------------------- (INSTANCE)
   ^        VmList ---+--> Client <-- MCClient
   |          ^              ^  ^
   |          |              |  +---- Cli, DebugLog <-- MCCli
   |     VmListProofs <-- ClientProofs <-- CliProofs (also extends Cli)
   |
   +------- Certificates <-- MCCertificates, CertificatesProofs
```

**QvdBuffer** has no variables: a buffer is a record `[data, offset, size]` and
each C function is an operator on it. A byte is its position in its stream,
because the relay copies bytes without looking at them; this makes order and
loss visible in the data itself. `BUFFER_SIZE` is a constant (65536 in the code).

**ClientLoop** is `_qvd_client_loop`, one action for each outcome of each call,
with `pc` naming the call that comes next:

| `pc` | Code | Actions |
|---|---|---|
| `prepare` | 680-708 | `PrepareTransport`, `PrepareNoTransport` (both build the sets) |
| `select` | 712 | `SelectReturns`, `SelectFails` |
| `execute` | 713 | `NxTakes`, `NxSends`, `NxCloses` any number of times, `ExecuteReturns` |
| `check` | 715-728 | `CheckRetries`, `CheckFails`, `CheckEnded`, `CheckProceeds` |
| `recv` | 736-783 | `RecvSkips`, `RecvBytes`, `RecvEnd`, `RecvAgain`, `RecvUnsupported`, `RecvFails` |
| `read` | 786-806 | `ReadSkips`, `ReadBytes`, `ReadAgain`, `ReadEnds` |
| `write` | 809-816 | `WriteSkips`, `WriteBytes`, `WriteAgain`, `WriteFails` |
| `send` | 819-861 | `SendSkips`, `SendBytes`, `SendAgain`, `SendUnsupported`, `SendFails`, each with the test that ends the loop |

The environment, `RemoteSends`, `RemoteTakes`, `RemoteGoes` and
`qvd_end_connection`, may act between any two calls. NX acts only in `execute`,
because the library is single-threaded and runs inside `NXTransExecute`.
`tlsPending` counts bytes that TLS has decrypted and not handed out: a receive
returns at most one record, cut to the room there is, and `select` sees only
what is still in the socket. `errno` is read after `NXTransExecute` has run, so
after a failed select both `CheckRetries` and `CheckFails` are possible. The
loop's timeout is not measured: `select` may return at any time.

**BytePipe** is what one direction promises: a pipe of bounded capacity that
delivers every accepted byte once and in order until it is shut. ClientLoop
implements it twice (`ToNx`: accepted is `received`, delivered is `toNx`;
`ToRemote`: accepted is `nxRead`, delivered is `toRemote`; both are shut when
the function has returned).

**Handshake** is `_qvd_switch_protocols`. An answer is a sequence of tokens
(`HTTP/1.1`, a status code, the length header, the empty line, body), a receive
returns any non-empty run of what was sent, or "try again" with part of a TLS
record, and `data` is the array with its terminators. It is the handle's, so it
starts with what earlier calls left (`Leftovers`): a list, or the answers of
earlier handshakes with their status lines and empty lines. The outer receive
terminates what it stores, the inner one does not, so what was left may become
visible, as it does to `strstr` and `strlen` in C. Either select may be
interrupted by a signal (`Interrupted`). `watched` says whether `myset` still holds
the socket. `content_length` starts with an arbitrary value (`UNSET`) since the
C variable is not initialised. The empty line is counted with the content
(`SEPARATOR`), as `strlen(content)` does. Time is a count of seconds that
advances at any point and with each timeout.

**Connect** is `qvd_connect_to_vm` with `_qvd_proxy_connect`: `step` names the
call that comes next (`certdir`, `handshake`, `socket`, `pair`, `transport`,
`relay`, `close`) and each outcome is an action. The handshake is a call that
returns a value and tells whether a receive succeeded, with the response buffer
written (`HandshakeOutcome`; what it leaves there, answers or an empty string, is
never JSON, which is all Client asks). The relay is a call that returns at any
time. That these two steps stand for the whole of Handshake and of ClientLoop is
proved (the two theorems `ImplementsConnect`); that the relay returns at all once
it is asked to end is `EndHonoured` of ClientLoop, and Client and Connect claim
nothing of the kind. A descriptor is
a pair of the socket pair's number and the end, so that those of earlier
connections stay visible.

**VmList** has operators on a memory: the list as the sequence of its nodes, and
the addresses of nodes and vms that are allocated. Addresses are not used twice,
so a list that was freed can be told from one that was not. `QvdVmListFree` leaves
the pointer where it was, as C does, and stops before the last node.

**Client** is the handle. One public call runs at a time; `pc` says where a
request is (`list` and `stop`: curl is performing; `parse`, `malloc`, `append`:
the rest of `qvd_list_of_vm`), `step` where a connection is. A request first
chooses the certificate directory and sets the client certificate
(`StartRequest`), then one of `TransferUndefined`, `TransferFails`,
`TransferEnds` stands for the transfer, with the answer in the response buffer by
`QvdBufferAppend`, and with the tests of the response code. The buffer is a
sequence of bodies, each with the call it came in, and a size that may pass
`BUFFER_SIZE`; JSON is parsed if exactly one body is there and is JSON.
`connect_only`, `sslcert`, `end_connection`, `home` and NX_HOME are left over
between calls as they are in the code. `pc = "crashed"` is a NULL list that is
walked, `pc = "undefined"` a write behind the buffer or a message to a handle
that does not exist; nothing is claimed of what comes after. `EndConnection` may
happen between any two steps.

**CertDir** is the choice `_qvd_set_certdir` makes, as a relation between
`qvd->home` before and after, the directory used and the result. Client and
Connect take it as one step; Certificates takes each `stat` and `mkdir` and shows
that the relation is what comes out (`CertDirAsPromised`). `_qvd_dir_exists`
reads a structure that a failed `stat` did not fill, so a path that does not
exist may pass (`MayPass`).

**Certificates** has the directories and files as its file system, the cache
`certificate[]` as a function of the depth, and a verification that goes down a
chain: at each depth OpenSSL's own opinion, or the user's, then the save with an
`open` and a `write` that may fail, where the process may end (`Restart`).
OpenSSL is external: the last certificate of a chain must be found by its subject
in the directory, others are vouched for by the next, and a `Flawed` one never is.

**DebugLog** has the two static variables of `debug.c` and its two environment
variables. `Message` is `qvd_printf`; that it calls itself through a file that
cannot be opened shows as `exhausted`. `opened` counts how often the log file was
opened, which setting the level always does again and nothing undoes.

**Cli** is `main` and `qvd_connection`: `where` names the next statement, and each
call of the library is the action of Client of that name, in conjunction with a
`Message`. The options are a record of those that change which calls are made;
`-d` may be given any number of times and sets the level each time
(`DebugOption`). Another application may call `qvd_set_debug` at any other time,
and opens the log file again with each call.

The definitions whose comment begins with `Mutant` are not part of the model:
each is a plausible wrong version of the definition that follows it, and
replacing one by the other makes the property named in `PROJECT.json` fail. One
of them is historical: a comment in `_qvd_proxy_connect` remembers "the bug in
which the buffer was writing at the reading pointer" (`FillAtOffset`).

## Runs

| Run | Configuration | Result | Question |
|---|---|---|---|
| `loop_safety` | `MCClientLoopSafety.cfg` | holds | Is anything lost, repeated, reordered or wedged while the loop runs? Are descriptors and result consistent? Is each direction a bounded pipe? |
| `loop_ends` | `MCClientLoopEnds.cfg` | holds | Does the loop end after `qvd_end_connection`, whatever the peers do, and after a close that the other peer's back-pressure does not hide for ever, and does NX's stream reach a remote host that reads? |
| `loop_delivery` | `MCClientLoopDelivery.cfg` | holds | Does the remote host's stream reach NX when TLS holds nothing back and the peers read? |
| `loop_tls` | `MCClientLoopTls.cfg` | violated | The same, with records longer than the room left in the buffer |
| `loop_tail` | `MCClientLoopTail.cfg` | violated | Is everything that was stored also written before a successful return? |
| `handshake` | `MCHandshake.cfg` | holds | Are upgrade and refusal told apart however the answer is cut and whatever earlier calls left in the buffer, is the outer wait bounded, is 8 returned for a complete refusal from a server that closes? |
| `handshake_hang` | `MCHandshakeHang.cfg` | violated | Does the wait always end? |
| `client` | `MCClient.cfg` | holds | Whatever was called before, and whatever failed: is the list allocated, complete and of the last response, is an overflow reported, are descriptors and NX_HOME right, is a request to end kept? |
| `client_cert` | `MCClientCert.cfg` | violated | Is a client certificate that was disabled not used? |
| `certificates` | `MCCertificates.cfg` | holds | Is each decision the user's or OpenSSL's, is what he is shown what was sent, is what is saved what he accepted, does the directory exist? |
| `cli` | `MCCli.cfg` | holds | Does the command line client connect to a machine of its list, stop at the first failure, free what it made, and have a log to write to? |
| `cli_log` | `MCCliLog.cfg` | violated | Does a log file that cannot be opened leave the program running? |

What the violated ones show:

* `loop_tail`: NX's socket is full, a byte waits in `proxyWrite`, the remote host
  ends the stream, `connFd` becomes -1, and the test at the end of the loop ends
  it with 0. The byte is gone although NX would have taken it.
* `loop_tls`: with one slot left in the buffer a record of two bytes is read; the
  second byte stays inside TLS. The buffer is then drained, but `select` watches
  a socket with nothing in it: the byte waits until the remote host sends more.
  It takes back-pressure from NX, since an empty buffer (64 KB) has room for any
  record (16 KB).
* `handshake_hang`: after a final status the inner `select` has no timeout and
  comes before the test for completeness. It blocks when the whole answer came
  in one piece and the server keeps the connection open, and blocks for good
  when an earlier one-second timeout had cleared the set. When the stream ends
  before the announced length, it spins.
* `client_cert`: a request with `qvd_set_cert_files` enabled sets CURLOPT_SSLCERT
  on the curl handle; after `qvd_set_cert_files(qvd, NULL, NULL)`
  `_qvd_use_client_cert` returns 0 and leaves it set, so the next request uses it.
* `cli_log`: the first message initialises the log, cannot open the file, and
  prints that; the level is still -1, so printing initialises the log.

Some properties are as strong as the code allows and no stronger, and the
exceptions they make are worth knowing. `ListIsLastBody` allows an old list to be
returned when a later answer has no body, and also when the list had filled the
buffer to its last unit, so that nothing of a later answer was stored (that
answer fails its own request; the next one, if its body is empty, parses the old
list). `OneNodeLost` allows each list to lose
its last node. `WalksAList` and `CountMatches` need every allocation to succeed.
`PeersClosed` allows a socket pair whose transport was not made to stay open.
`EndNotLost` begins after line 401. `NxHomeIsOurs` needs the home to have been a
directory when the connection was asked for. `ShownIsSent` is about a process
that talks to one server, because the cache is never renewed. `NotAskedAgain` is
about certificates at depth 0, because OpenSSL does not find the others.
`EndsAfterClose` allows a closed peer to go unnoticed while the other one reads no
more and its buffer stays full (`HeldByNx`, `HeldByRemote`): the loop looks at one
peer only when it has room for what that peer sends, so the close is hidden for as
long as the other one likes; without the exception TLC finds the property violated
in either direction. `RefusalReported` begins in the inner loop, with the socket
watched, a closed server and something still to be received, and allows a
`content_length` that was announced or is garbage between 0 and the length of the
content: with a longer one the code waits on, and with -1 it may print through a
pointer that is not one before the empty line has come. `LogReady` allows the
log file to be opened once for each `-d`, and without bound by a negative
QVD_DEBUG alone.

### Bounds

`loop_safety`: `BUFFER_SIZE` 3 and streams of 4 bytes from the remote host and 3
from NX, with `NX_SOCKET` and `WINDOW` 1, are enough for: a short write that leaves `offset` inside the buffer, a refill
behind it, a full buffer, a reset with traffic after it, a record longer than the
room left, and a full socket on either side. `loop_ends` uses `BUFFER_SIZE` 1
(always full or empty) and 2 bytes each way, the least that can keep either
buffer full behind a peer that does not read;
`loop_delivery` needs one direction only, with 3 bytes through a buffer of 2.
`REMOTE_LEN` and `NX_LEN` bound how much is produced; the proofs have no bound.
`MAX_CURLE_UNSUPPORTED_PROTOCOL` is 1, as in the code. `handshake` takes one
script of each kind of answer, alone and after a progress message, all shorter
than the buffer (`BUFFER_TOKENS`), and `LIMIT` 2 seconds instead of 600: enough
for a timeout before, between and after the pieces. `LEFT` starts with the buffer
of a new handle, one full of a list, one with a refusal, and one with an earlier
upgrade behind its progress message: longer than the pieces of any new answer, so
that it shows if a terminator is missing.

`client`: `MAX_CALLS` 5 public calls are an initialisation, setters or a
connection, and two or three requests or a second handle; `BUFFER_SIZE` 3 units
holds a list of two machines and `MAX_VMS` 3 makes one that does not fit; the
home set by the application may be missing. Writing behind the buffer needs an
initialisation and three answers, within the bound. `client_cert` uses smaller
ones. `certificates`: `MAX_CONNECTIONS` 3 connections, which is a certificate
saved, another in its place, and a return to the first; `MAX_CERTS` 2 with a chain
of three; `HOME` is no directory and APPDATA is. `cli`: twelve calls are all that
`main` makes; `MCOptions` has every combination of the options that change the
calls, with `-c` and `-d`, none to two of them, only in a few.

`MCClientLoop` and `MCHandshake` add a step that stutters when the function has
returned, so any other stop is reported as a deadlock. (A handshake blocked in the
inner select is none, since a signal may always come; `WaitEnds` is about it.)
`MCClient` and `MCCli` add one for a program that has ended or has made its calls;
`Certificates` needs none.

### Fairness

Loop: `WF(LoopStep)`, since each call returns (select has a timeout, the
descriptors are non-blocking). `SF(PrepareTransport)`, `SF(SelectReturns)`: NX is
running again and again and select does not fail for ever. `SF` of `RecvBytes`,
`ReadBytes`, `WriteBytes`, `SendBytes`: a call that may also answer "try again",
for half a record or a busy TLS layer, does not do so for ever while bytes and
room are there. Nothing is assumed of the peers: not that they send, close or
read, nor of `qvd_end_connection`. That the peers read (`PeersTake`: `SF(NxTakes)`,
since NX runs only within the loop, and `WF(RemoteTakes)`) is a premise of
`NxDelivery` and `RemoteDelivery`, which say nothing of a peer that stops reading;
`EndHonoured` and `EndsAfterClose` do without. Handshake: `WF` of the client's steps (the inner select is
a step only when it is ready) and of the clock; nothing of the server, nor of
signals. Client, Certificates and Cli have safety properties only, and assume no
fairness.

## Proofs

Every type invariant, safety invariant and action property of the runs that hold
is a theorem, for all values of the constants. The proof modules, and what each
rests on:

**ClientLoopProofs**, for every `BUFFER_SIZE`, record size, socket capacity,
stream length and error threshold:

* `TypeCorrect`, inductive as it stands. That no read passes the end of a buffer
  comes from `ReadSound`; that `offset` never passes `size` from `WriteSound`.
* `NxGetsRemoteStreamAlways`, `RemoteGetsNxStreamAlways`, `NoWedgeAlways`. The
  invariant of a direction is `InOrder` (what went out is the beginning of the
  stream, the live bytes are its continuation) with `Reusable` (a buffer with
  nothing to write is at its front); neither gives the absence of wedges alone.
  Four lemmas about any buffer (`ReadSound`, `ReadInOrder`, `WriteSound`,
  `WriteInOrder`) and one about short writes (`ShortWrite`) do the work; `ToNxFrame`
  and `ToRemoteFrame` show that only two actions touch each direction.
* `FdClosedOnlyIfPeerGoneAlways`, `FailureReportedAlways`, from `DescriptorInv`:
  a pass starts with both descriptors open, and an error recorded in `result`
  comes with `connFd` given up, so the early returns of the next pass cannot
  hide it.
* `ConnSilent`, an action property, from types and the guards of the four calls.
* `ToNxPipeHolds`, `ToRemotePipeHolds`: each step of the loop is a step of
  BytePipe or leaves its variables alone. `FillBound` and `DrainBound` give the
  capacity; `ReturnedStays` that a shut pipe stays shut.
* `ImplementsConnect`: with `step` mapped to `relay` until the function has
  returned, each step of the loop is `LoopReturns` or `qvd_end_connection` of
  Connect, or changes nothing that Connect sees.

**HandshakeProofs**, for all answers that fit in the buffer, however they are cut,
any limit, and anything left in the buffer and in `content_length`:

* `TypeCorrect`. `TypeOK` bounds the clock and the bytes in the buffer, which takes
  that a select begins within the limit and that no more is in the buffer than was
  received (`TypeInv`).
* `UpgradedOnlyBy101Always`, `RefusedOnlyByFinalAlways`. The array may hold anything
  at all from earlier calls, a 101 included, so nothing can be said of it as a whole.
  The invariant (`VisibleReceived`) is about what the outer search sees, and only
  when it looks: all that is before the first terminator was received in this call.
  `PieceVisible` is why: a piece stored at the front and terminated hides whatever is
  behind it. Without the terminator of line 940 the lemma fails, and so does
  the run (`RecvPieceUnterminated`). A refusal is decided by the outer search too;
  what the inner one sees only decides when it returns.
* `ImplementsConnect`: every way to return satisfies `HandshakeOutcome`, with
  `heard` true exactly if something was received. It needs both theorems above, and
  that nothing is received before the request is sent (`QuietInv`).

**VmListProofs** has the lemmas about lists of any length at any addresses:
`InitFacts`, `AppendFacts` and `FreeFacts` say what each operation does to the
list and to what is allocated.

**ClientProofs**, for any number of calls, machines, homes and directories, any
buffer size and any failures. The invariant has a part for each part of the
handle, and each is kept by every step given the parts before it:

* `ControlInv`: one call runs at a time and needs the handle; a connection is
  under way only on a curl handle that no longer serves requests. It gives
  `EndNotLostHolds`, an action property.
* `SocketInv`: NX holds one end of a pair, and the other end is open only while
  that pair's relay runs. It gives `PeersClosedAlways`.
* `HomeInv`: a home that is a directory is kept through a connection. It gives
  `NxHomeAlways`.
* `BufferInv`: while a handle makes requests the buffer has at most as many
  bodies as units, and the one received last is the last one in it, unless that
  one was cut off. It gives `ListIsLastBodyAlways`, and `OverflowReportedHolds`, an
  action property.
* `ListInv`: the list pointer is NULL only after a failed allocation; a list that
  is there is allocated, as long as numvms, and that of the last request that
  returned one, except while a request builds a new one. It gives `ListAliveAlways`,
  `WalksAListAlways`, `CountMatchesAlways`, `FailedCallKeepsListAlways`, and, with
  the parts above, `TypeCorrect`.
* `LossInv`: while no allocation fails, what is allocated and not in the list are
  last nodes of earlier lists, one for a call; the next list cannot share their
  call. It gives `OneNodeLostAlways`, with `Released` (a freed handle has no list).

**CliProofs**, for any options and anything typed. `CliStep` shows that main makes
only steps of Client, but for two paths that forget the handle, so `ControlInv`,
`BufferInv` and `ListInv` still hold and `LibraryAlways` and `LibraryStepsAlways` state
what they give: Client's invariants, and its two action properties.
Four parts say what main adds: `ChosenInv` (the machine is from the list this
handle was given last, and nothing changes that list before the connection:
`ConnectsToListedAlways`), `RoomInv` (a list is asked for with an empty buffer and
a machine is stopped with one within bounds: `NoOverrunAlways`), `LeakInv` (each call
of `qvd_connection` leaves at most one handle behind: `FreedAtEndAlways`) and `LogInv`
(a level above 0 comes with a file; after a `-d` the level is never negative again,
so only another `-d` opens the log file; without one it has not been opened while
the level is negative, but for a negative QVD_DEBUG: `LogReadyAlways`).

**CertificatesProofs**, for any directories, chains, cache size and failures:

* `CertDirAlways`: the `stat` and `mkdir` calls together make the choice that
  CertDir states as one step, which Client and Connect take. `CertDirInv` keeps the
  home that was chosen in view between the calls.
* `AnswersDecideAlways`: the depths passed are exactly those someone answered for.
* `ShownIsSentAlways`: in a process that talks to one server the cache is a part of
  that server's chain.
* `SavedWasShownAlways`: what is about to be written was shown.
* `NotAskedAgainAlways`: what is remembered is in its file, and an open file is not
  remembered. `TypeCorrect` needs that the user is asked, and a file written, only
  with a certificate in the cache (`Verifying`).

Each invariant was checked on the instance of a run before it was proved. One proof
corrected the model: `BufferInv` was false as first stated, since an empty body was
taken to overflow a buffer already past its end, while `QvdBufferAppend` is never
called for it; and in the case that remained, a buffer filled to its last unit by a
list, the list is returned again after a later answer was lost, which
`ListIsLastBody` now says.

The assumptions are those named in the modules, nothing else: a positive buffer
size, two different positive descriptors, positive capacities; answers that fit
in the response buffer; chains that are not empty; options of their types; and
"unset" no path. `MAX_CALLS`, `MAX_CONNECTIONS`, `REMOTE_LEN` and `NX_LEN` bound the
runs, and the theorems hold for every value of them.

Only model-checked: the liveness properties, `EndHonoured`, `EndsAfterClose`,
`RemoteDelivery` and `NxDelivery` of the loop, `OuterWaitEnds` and `RefusalReported` of
the handshake. They rest on fairness, and neither
that nor ENABLED is within reach of the prover. The violated properties are
shown by their counterexamples. `LibraryAlways`, `LibraryStepsAlways` and the two
`ImplementsConnect` theorems are not properties of a run.


## Not modelled

The setters that only store text or a flag for the request line, and the base64
of the credentials: strings that no decision of the library depends on. Reading
the options, the help, message texts, `qvd_curl_dump` and traces: output. The
`TRACE`, `DEBUG`, Android and Apple builds. The contents of the request; the
length of the loop's timeout; the width of `numunsupportedprotocolerrs` (it never
passes 1). In Handshake, answers longer than the response buffer. In Client,
machines without all their fields, the memory of the parsed JSON, and the strings
of a vm. In Certificates, the descriptors that a failed write leaves open, and
paths that are cut to their maximum. In Cli, a user who never types an id of the
list, and a log that fails while it is in use.

Below the level of the models, and seen while writing them: `curl_easy_getinfo`
stores a long in an int (888); a receive that fills the response buffer is
terminated one past its end (940); `json_unpack`'s result is not looked at (320)
and the parsed JSON is not released (298); `qvd_set_geometry` and `qvd_set_link`
terminate `os` (471, 475); a bearer token is copied with the size of a larger
array (124); a test in `_qvd_set_certdir` compares an array with NULL (519); the
loop's timeout is a thousand times what its comment says (`qvdclient.h:89`);
the end of validity that the user is shown is read from the certificate at hand,
everything else from the cached one (1181);
`payment_required` is never reset (286).

The handle of Client and the loop of ClientLoop meet in Connect through what the
loop returns and when; the bytes of the relay are not part of Client's state, as
the product of the two would be far too large and they share no variable but
`end_connection`.

## Plan

What is left, most important first:

1. The composition as one statement: a connection of Client whose handshake and
   relay are those of Handshake and ClientLoop, from the two `ImplementsConnect`
   theorems, with the response buffer that the handshake leaves behind.
2. The safety halves of liveness: that a loop asked to end makes no second pass
   after `CheckEnded` is reached, that the clock of the handshake is only read
   within its limit, as step properties that the fair properties rest on.
3. Certificates with several servers: which certificate the user is shown in their
   place, as a relation between the cache and the chains that were presented.
