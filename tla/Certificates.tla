---------------------------- MODULE Certificates ----------------------------
(***************************************************************************)
(* The server's certificates in qvdclientcore.c: the directory they are    *)
(* kept in, the callback OpenSSL asks about each certificate of a chain,   *)
(* the cache certificate[] it shows them from, and the file it saves one   *)
(* to that the user has accepted.  The cache belongs to the process and    *)
(* outlives handles and connections; the directory outlives the process,   *)
(* which may end at any point.                                             *)
(*                                                                         *)
(* A certificate is a pair of its subject and what else is in it; a chain  *)
(* is a sequence of them, the server's own first, so that the one at depth *)
(* d is chain[d + 1].  A file is named after a directory, a subject and a  *)
(* depth.                                                                  *)
(***************************************************************************)
EXTENDS CertDir, Integers, Sequences, FiniteSets

CONSTANTS
  Subjects, Contents,
  Chains,          \* what servers present
  Flawed,          \* certificates OpenSSL finds fault with, known or not
  Homes,           \* what the application passes to qvd_set_home
  MAX_CERTS,       \* 20 in the code
  MAX_CONNECTIONS  \* bound: connections made

Certs == Subjects \X Contents

ASSUME CertificatesAssumption ==
  /\ Chains \subseteq Seq(Certs) /\ <<>> \notin Chains
  /\ MAX_CERTS \in Nat \ {0} /\ MAX_CONNECTIONS \in Nat
  /\ "unset" \notin Homes

NULL == <<>>

VARIABLES
  pc,
  \* The handle.
  home,            \* qvd->home
  certpath,        \* the home that qvd->certpath is below
  ssl_no_cert_check,
  callback,        \* ssl_verify_callback is set
  \* The process.
  certificate,     \* the cache, by depth
  used,            \* the local variable home of _qvd_set_certdir
  chain, depth,    \* the chain that is verified, and how far down it is
  \* The file system.
  dirs,            \* <<home, "conf">> and <<home, "certs">> that exist
  files,           \* the content of each file: a certificate, or NULL if cut short
  \* What the properties remember.
  asked_home,      \* qvd->home when the directory was asked for
  connections,     \* connections made
  one_server,      \* every chain this process has seen is the same one
  trusted,         \* depths that OpenSSL vouched for in this connection
  approved,        \* depths the user said yes to in this connection
  outcome,         \* of the last verification
  shown,           \* <<certificate, depth>> the user said yes to, ever
  remembered       \* <<home, certificate>> saved whole at depth 0, and not since
                   \* written over

fileVars   == <<dirs, files>>
handleVars == <<home, certpath, ssl_no_cert_check, callback>>
ghostVars  == <<asked_home, connections, one_server, trusted, approved, outcome, shown,
                remembered>>
vars       == <<pc, handleVars, certificate, used, chain, depth, fileVars, ghostVars>>

Subject(cert) == cert[1]

Sent == chain[depth + 1]

-----------------------------------------------------------------------------
(* The handle and the process *)

NewHandle ==
  /\ home' = "unset" /\ certpath' = "unset"
  /\ ssl_no_cert_check' = FALSE /\ callback' = FALSE

NoCache == [d \in 0 .. MAX_CERTS - 1 |-> NULL]

Init ==
  /\ pc = "idle"
  /\ home = "unset" /\ certpath = "unset" /\ ssl_no_cert_check = FALSE /\ callback = FALSE
  /\ certificate = NoCache /\ used = "unset" /\ chain = <<>> /\ depth = 0
  /\ dirs = {} /\ files = [name \in {} |-> NULL]
  /\ asked_home = "unset" /\ connections = 0 /\ one_server = TRUE
  /\ trusted = {} /\ approved = {} /\ outcome = "none" /\ shown = {} /\ remembered = {}

\* qvd_free and qvd_init.
Reinitialise ==
  /\ pc = "idle"
  /\ NewHandle
  /\ UNCHANGED <<pc, certificate, used, chain, depth, fileVars, ghostVars>>

\* The process ends, wherever it is, and another one starts.
Restart ==
  /\ pc' = "idle" /\ NewHandle /\ certificate' = NoCache
  /\ one_server' = TRUE /\ outcome' = "none" /\ used' = "unset" /\ asked_home' = "unset"
  /\ trusted' = {} /\ approved' = {} /\ chain' = <<>> /\ depth' = 0
  /\ UNCHANGED <<fileVars, connections, shown, remembered>>

qvd_set_home(path) ==
  /\ pc = "idle"
  /\ home' = path
  /\ UNCHANGED <<pc, certpath, ssl_no_cert_check, callback, certificate, used, chain, depth,
                 fileVars, ghostVars>>

qvd_set_no_cert_check ==
  /\ pc = "idle" /\ ssl_no_cert_check' = TRUE
  /\ UNCHANGED <<pc, home, certpath, callback, certificate, used, chain, depth, fileVars,
                 ghostVars>>

qvd_set_strict_cert_check ==
  /\ pc = "idle" /\ ssl_no_cert_check' = FALSE
  /\ UNCHANGED <<pc, home, certpath, callback, certificate, used, chain, depth, fileVars,
                 ghostVars>>

qvd_set_unknown_cert_callback ==
  /\ pc = "idle" /\ callback' = TRUE
  /\ UNCHANGED <<pc, home, certpath, ssl_no_cert_check, certificate, used, chain, depth,
                 fileVars, ghostVars>>

-----------------------------------------------------------------------------
(* _qvd_set_certdir *)

ChooseHome ==
  /\ pc = "idle" /\ connections < MAX_CONNECTIONS
  /\ \E chosen \in Directories \cup Homes \cup {"unset", HOME, APPDATA} :
       HomeChosen(home, chosen, home') /\ used' = chosen
  /\ asked_home' = home /\ pc' = "conf"
  /\ UNCHANGED <<certpath, ssl_no_cert_check, callback, certificate, chain, depth, fileVars,
                 connections, one_server, trusted, approved, outcome, shown, remembered>>

\* What mkdir needs.
Parent(sub) == IF sub = "conf" THEN used \in Directories ELSE <<used, "conf">> \in dirs

\* Mutant: the error of mkdir is not looked at.
MkdirUnchecked(sub, next) ==
  /\ pc = sub /\ pc' = next
  /\ dirs' = IF Parent(sub) THEN dirs \cup {<<used, sub>>} ELSE dirs
  /\ certpath' = IF sub = "certs" THEN used ELSE certpath
  /\ UNCHANGED <<home, ssl_no_cert_check, callback, certificate, used, chain, depth, files,
                 ghostVars>>

\* _qvd_create_dir succeeds: the directory is there or can be made.
CreateDir(sub, next) ==
  /\ pc = sub /\ pc' = next
  /\ <<used, sub>> \in dirs \/ Parent(sub)
  /\ dirs' = dirs \cup {<<used, sub>>}
  /\ certpath' = IF sub = "certs" THEN used ELSE certpath
  /\ UNCHANGED <<home, ssl_no_cert_check, callback, certificate, used, chain, depth, files,
                 ghostVars>>

\* stat or mkdir fails, or something else has that name: the call returns.
CreateDirFails(sub) ==
  /\ pc = sub /\ pc' = "idle"
  /\ UNCHANGED <<handleVars, certificate, used, chain, depth, fileVars, ghostVars>>

-----------------------------------------------------------------------------
(* A connection *)

\* _qvd_sslctxfun: with no check there is no callback, and anything is accepted.
_qvd_sslctxfun ==
  /\ pc = "connect"
  /\ connections' = connections + 1 /\ trusted' = {} /\ approved' = {}
  /\ chain' \in Chains /\ depth' = Len(chain') - 1
  /\ one_server' = (one_server /\ chain \in {<<>>, chain'})
  /\ IF ssl_no_cert_check THEN pc' = "idle" /\ outcome' = "unchecked"
                          ELSE pc' = "verify" /\ outcome' = "none"
  /\ UNCHANGED <<handleVars, certificate, used, fileVars, asked_home, shown, remembered>>

\* No connection could be made.
ConnectFails ==
  /\ pc = "connect"
  /\ pc' = "idle" /\ connections' = connections + 1
  /\ UNCHANGED <<handleVars, certificate, used, chain, depth, fileVars, asked_home,
                 one_server, trusted, approved, outcome, shown, remembered>>

\* OpenSSL looks for a subject under the numbers 0, 1, ... until one is missing,
\* in the directory of CURLOPT_CAPATH.
Known(cert) ==
  \E n \in 0 .. MAX_CERTS :
    /\ \A k \in 0 .. n : <<certpath, Subject(cert), k>> \in DOMAIN files
    /\ files[<<certpath, Subject(cert), n>>] = cert

\* The last certificate of a chain is the one that must be known; the others are
\* signed by the next.  Either may have a flaw of its own.
Preverified(d) ==
  /\ chain[d + 1] \notin Flawed
  /\ d = Len(chain) - 1 => Known(chain[d + 1])

\* The one at this depth is accepted: OpenSSL goes on to the one it has signed.
Accept ==
  IF depth = 0 THEN pc' = "idle" /\ outcome' = "accepted" /\ UNCHANGED depth
               ELSE pc' = "verify" /\ depth' = depth - 1 /\ UNCHANGED outcome

Refuse == pc' = "idle" /\ outcome' = "refused" /\ UNCHANGED depth

\* Mutant: one more certificate is kept than there is room for.
CachePastEnd ==
  IF depth \in 0 .. MAX_CERTS /\ (depth < MAX_CERTS => certificate[depth] = NULL)
  THEN [d \in DOMAIN certificate \cup {depth} |-> IF d = depth THEN Sent ELSE certificate[d]]
  ELSE certificate

\* The cache keeps the first certificate that was ever seen at a depth.
Cached ==
  IF depth < MAX_CERTS /\ certificate[depth] = NULL
  THEN [certificate EXCEPT ![depth] = Sent] ELSE certificate

\* Mutant: without a callback there is no objection.
NoObjection == Preverified(depth) \/ ~callback

\* What the callback returns as 1 without asking.
Validated == Preverified(depth)

\* From depth MAX_CERTS on the cache has nothing to show.
_qvd_verify_cert_callback ==
  /\ pc = "verify"
  /\ certificate' = Cached
  /\ trusted' = IF Preverified(depth) THEN trusted \cup {depth} ELSE trusted
  /\ \/ Validated /\ Accept
     \/ ~Validated /\ ~callback /\ Refuse
     \/ /\ ~Validated /\ callback
        /\ pc' = IF depth < MAX_CERTS THEN "ask" ELSE "undefined"
        /\ UNCHANGED <<outcome, depth>>
  /\ UNCHANGED <<handleVars, used, chain, fileVars, asked_home, connections, one_server,
                 approved, shown, remembered>>

\* Mutant: the user is shown the last certificate of the chain.
ShownLast == certificate[Len(chain) - 1]

Shown == certificate[depth]

\* The user is shown what the cache holds at this depth, and says no.
UserRefuses ==
  /\ pc = "ask"
  /\ Refuse
  /\ UNCHANGED <<handleVars, certificate, used, chain, fileVars, asked_home, connections,
                 one_server, trusted, approved, shown, remembered>>

UserAccepts ==
  /\ pc = "ask"
  /\ pc' = "open"
  /\ approved' = approved \cup {depth} /\ shown' = shown \cup {<<Shown, depth>>}
  /\ UNCHANGED <<handleVars, certificate, used, chain, depth, fileVars, asked_home,
                 connections, one_server, trusted, outcome, remembered>>

-----------------------------------------------------------------------------
(* _qvd_save_certificate: its result is not looked at *)

\* Mutant: what the server sent is saved.
SavedSent == Sent

Saved == certificate[depth]

\* Mutant: the number in the name of the file starts at 1.
FileNameFromOne == <<certpath, Subject(Saved), depth + 1>>

FileName == <<certpath, Subject(Saved), depth>>

\* Nothing that was written there is remembered.
Forgotten == {certpath} \X {r[2] : r \in {r \in remembered : Subject(r[2]) = Subject(Saved)}}

\* The file is made, or emptied.
OpenFile ==
  /\ pc = "open"
  /\ pc' = "write"
  /\ files' = [name \in DOMAIN files \cup {FileName} |->
                 IF name = FileName THEN NULL ELSE files[name]]
  /\ remembered' = IF depth = 0 THEN remembered \ Forgotten ELSE remembered
  /\ UNCHANGED <<handleVars, certificate, used, chain, depth, dirs, asked_home, connections,
                 one_server, trusted, approved, outcome, shown>>

OpenFileFails ==
  /\ pc = "open"
  /\ Accept
  /\ UNCHANGED <<handleVars, certificate, used, chain, fileVars, asked_home, connections,
                 one_server, trusted, approved, shown, remembered>>

\* Whether close succeeds makes no difference.
WriteFile ==
  /\ pc = "write"
  /\ Accept
  /\ files' = [files EXCEPT ![FileName] = Saved]
  /\ remembered' = IF depth = 0 THEN remembered \cup {<<certpath, Saved>>} ELSE remembered
  /\ UNCHANGED <<handleVars, certificate, used, chain, dirs, asked_home, connections,
                 one_server, trusted, approved, shown>>

\* Nothing, or not all of it, is written, and the file is not closed.
WriteFileFails ==
  /\ pc = "write"
  /\ Accept
  /\ UNCHANGED <<handleVars, certificate, used, chain, fileVars, asked_home, connections,
                 one_server, trusted, approved, shown, remembered>>

-----------------------------------------------------------------------------
Settings ==
  \/ Reinitialise
  \/ \E path \in Homes : qvd_set_home(path)
  \/ qvd_set_no_cert_check \/ qvd_set_strict_cert_check
  \/ qvd_set_unknown_cert_callback

_qvd_create_dir ==
  \/ CreateDir("conf", "certs") \/ CreateDir("certs", "connect")
  \/ CreateDirFails("conf") \/ CreateDirFails("certs")

_qvd_save_certificate == OpenFile \/ OpenFileFails \/ WriteFile \/ WriteFileFails

Next ==
  \/ Settings \/ Restart
  \/ ChooseHome \/ _qvd_create_dir
  \/ _qvd_sslctxfun \/ ConnectFails
  \/ _qvd_verify_cert_callback \/ UserRefuses \/ UserAccepts
  \/ _qvd_save_certificate

Spec == Init /\ [][Next]_vars

-----------------------------------------------------------------------------
(* Properties *)

Paths == Directories \cup Homes \cup {HOME, APPDATA, "unset"}

\* Types; the cache has one certificate for each depth it has room for.
TypeOK ==
  /\ pc \in {"idle", "conf", "certs", "connect", "verify", "ask", "open", "write", "undefined"}
  /\ home \in Paths /\ certpath \in Paths /\ used \in Paths
  /\ ssl_no_cert_check \in BOOLEAN /\ callback \in BOOLEAN
  /\ certificate \in [0 .. MAX_CERTS - 1 -> Certs \cup {NULL}]
  /\ chain \in Chains \cup {<<>>} /\ depth \in Nat /\ (chain # <<>> => depth < Len(chain))
  /\ dirs \subseteq Paths \X {"conf", "certs"}
  /\ DOMAIN files \subseteq Paths \X Subjects \X (0 .. MAX_CERTS - 1)
  /\ \A name \in DOMAIN files : files[name] \in Certs \cup {NULL}
  /\ outcome \in {"none", "unchecked", "accepted", "refused"}

\* What Client and Connect rely on: when the calls that look for the certificate
\* directory go on, it exists, below a home that _qvd_set_certdir may choose.
CertDirAsPromised ==
  pc = "connect" =>
    /\ <<certpath, "certs">> \in dirs /\ certpath \in Directories
    /\ _qvd_set_certdir(asked_home, home, TRUE)

\* A server is accepted only if OpenSSL vouched for each certificate or the user
\* did, in this connection; and it is refused only for one that neither did,
\* whatever becomes of the files.
AnswersDecide ==
  pc = "idle" =>
    /\ outcome = "accepted" => 0 .. Len(chain) - 1 \subseteq trusted \cup approved
    /\ outcome = "refused" => depth \notin trusted \cup approved

\* A process that talks to one server shows the user the certificate he is asked
\* about.  (With two servers the cache may show him the other one's.)
ShownIsSent == pc = "ask" /\ one_server => Shown = Sent

\* A file that was written whole holds a certificate that the user was shown and
\* accepted, in this process or an earlier one, and is named after it.
SavedWasShown ==
  \A name \in DOMAIN files : files[name] # NULL =>
    <<files[name], name[3]>> \in shown /\ Subject(files[name]) = name[2]

\* The user is not asked again about a server's own certificate that was saved,
\* until a save with the same name has emptied the file.
NotAskedAgain ==
  pc = "ask" /\ Len(chain) = 1 /\ Sent \notin Flawed
    => <<certpath, Sent>> \notin remembered
=============================================================================
