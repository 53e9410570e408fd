------------------------- MODULE CertificatesProofs -------------------------
(***************************************************************************)
(* Proofs about Certificates, for every set of directories, every chain a  *)
(* server may present, every size of the cache, and whatever files fail to *)
(* be made or written and wherever the process ends.                       *)
(*                                                                         *)
(* No invariant of the module is inductive as it stands: each speaks of    *)
(* the one moment that matters, and the invariants here say what leads up  *)
(* to it.                                                                  *)
(***************************************************************************)
EXTENDS Certificates, TLAPS

\* A verification has a chain, and the user is asked about, and the file system
\* given, what the cache has.
Verifying ==
  /\ pc \in {"verify", "ask", "open", "write"} => chain # <<>>
  /\ pc \in {"ask", "open", "write"} => depth < MAX_CERTS /\ certificate[depth] # NULL

TypeInv == TypeOK /\ Verifying

\* Between ChooseHome and the connection the home stays the one that was chosen,
\* and what was made in it is a directory in a directory.
CertDirInv ==
  /\ \A dir \in dirs : dir[1] \in Directories
  /\ pc \in {"conf", "certs", "connect"} => HomeChosen(asked_home, used, home)
  /\ pc \in {"certs", "connect"} => used \in Directories
  /\ pc = "connect" => certpath = used /\ <<used, "certs">> \in dirs

\* The depths passed so far are exactly those that someone answered for.
Answered == trusted \cup approved

AnswersInv ==
  /\ pc \in {"verify", "ask"} => Answered = depth + 1 .. Len(chain) - 1
  /\ pc \in {"open", "write"} => Answered = depth .. Len(chain) - 1
  /\ pc \in {"verify", "ask", "open", "write"} => outcome = "none"
  /\ outcome = "accepted" => 0 .. Len(chain) - 1 \subseteq Answered
  /\ outcome = "refused" => depth \notin Answered

\* The cache of a process that talks to one server is a part of its chain.
CacheInv ==
  one_server => \A d \in 0 .. MAX_CERTS - 1 : certificate[d] # NULL =>
                  d < Len(chain) /\ certificate[d] = chain[d + 1]

\* What is about to be written was shown.
SavedInv ==
  /\ SavedWasShown
  /\ pc \in {"open", "write"} => <<Shown, depth>> \in shown

\* What is remembered is still in its file; what is asked about is not known; and
\* the file that is open was not remembered.
RememberedInv ==
  /\ remembered \subseteq Paths \X Certs
  /\ \A r \in remembered : /\ <<r[1], Subject(r[2]), 0>> \in DOMAIN files
                           /\ files[<<r[1], Subject(r[2]), 0>>] = r[2]
  /\ pc = "ask" => ~Preverified(depth)
  /\ pc = "write" => /\ FileName \in DOMAIN files
                     /\ depth = 0 => remembered \cap Forgotten = {}

IInv == TypeInv /\ CertDirInv /\ AnswersInv /\ CacheInv /\ SavedInv /\ RememberedInv

-----------------------------------------------------------------------------
(* Lemmas *)

\* A certificate is not the NULL pointer, and has a subject.
LEMMA CertFacts == \A c \in Certs : c # NULL /\ Subject(c) \in Subjects
<1> SUFFICES ASSUME NEW c \in Certs PROVE c # NULL /\ Subject(c) \in Subjects
  OBVIOUS
<1>1. PICK s \in Subjects, k \in Contents : c = <<s, k>>
  BY DEF Certs
<1>2. Len(c) = 2 /\ Len(NULL) = 0
  BY <1>1 DEF NULL
<1> QED
  BY <1>1, <1>2 DEF Subject

\* The chain of a connection has a certificate at every depth.
LEMMA ChainFacts ==
  ASSUME NEW c \in Chains
  PROVE  /\ c # <<>> /\ c \in Seq(Certs) /\ Len(c) \in Nat /\ Len(c) >= 1
         /\ \A d \in 0 .. Len(c) - 1 : c[d + 1] \in Certs
BY CertificatesAssumption

\* The cache has the certificate the user is asked about.
LEMMA AskedFacts ==
  ASSUME TypeInv, pc \in {"ask", "open", "write"}
  PROVE  /\ depth \in 0 .. MAX_CERTS - 1
         /\ certificate[depth] \in Certs /\ certificate[depth] # NULL
BY CertificatesAssumption DEF TypeInv, TypeOK, Verifying

-----------------------------------------------------------------------------
(* Types *)

LEMMA TypeStep == TypeInv /\ [Next]_vars => TypeInv'
<1> SUFFICES ASSUME TypeInv, [Next]_vars PROVE TypeInv'
  OBVIOUS
<1> USE CertificatesAssumption
        DEF TypeInv, TypeOK, Verifying, handleVars, fileVars, ghostVars
<1>1. CASE Reinitialise
  BY <1>1 DEF Reinitialise, NewHandle, Paths
<1>2. CASE Restart
  BY <1>2 DEF Restart, NewHandle, NoCache, Paths
<1>3. ASSUME NEW path \in Homes, qvd_set_home(path) PROVE TypeInv'
  BY <1>3 DEF qvd_set_home, Paths
<1>4. CASE qvd_set_no_cert_check
  BY <1>4 DEF qvd_set_no_cert_check
<1>5. CASE qvd_set_strict_cert_check
  BY <1>5 DEF qvd_set_strict_cert_check
<1>6. CASE qvd_set_unknown_cert_callback
  BY <1>6 DEF qvd_set_unknown_cert_callback
<1>7. CASE ChooseHome
  BY <1>7 DEF ChooseHome, HomeChosen, Paths
<1>8. ASSUME NEW sub \in {"conf", "certs"}, NEW next \in {"certs", "connect"},
             CreateDir(sub, next)
      PROVE  TypeInv'
  BY <1>8 DEF CreateDir
<1>9. ASSUME NEW sub \in {"conf", "certs"}, CreateDirFails(sub) PROVE TypeInv'
  BY <1>9 DEF CreateDirFails
<1>10. CASE _qvd_sslctxfun
  BY <1>10, ChainFacts DEF _qvd_sslctxfun
<1>11. CASE ConnectFails
  BY <1>11 DEF ConnectFails
<1>12. CASE _qvd_verify_cert_callback
  BY <1>12, ChainFacts, CertFacts
  DEF _qvd_verify_cert_callback, Cached, Sent, Validated, Accept, Refuse
<1>13. CASE UserRefuses
  BY <1>13 DEF UserRefuses, Refuse
<1>14. CASE UserAccepts
  BY <1>14 DEF UserAccepts
<1>15. CASE OpenFile
  BY <1>15, CertFacts DEF OpenFile, FileName, Saved
<1>16. CASE OpenFileFails
  BY <1>16 DEF OpenFileFails, Accept
<1>17. CASE WriteFile
  BY <1>17 DEF WriteFile, Saved, Accept
<1>18. CASE WriteFileFails
  BY <1>18 DEF WriteFileFails, Accept
<1>19. CASE UNCHANGED vars
  BY <1>19 DEF vars
<1> QED
  BY <1>1, <1>2, <1>3, <1>4, <1>5, <1>6, <1>7, <1>8, <1>9, <1>10, <1>11, <1>12,
     <1>13, <1>14, <1>15, <1>16, <1>17, <1>18, <1>19
  DEF Next, Settings, _qvd_create_dir, _qvd_save_certificate

LEMMA TypeInit == Init => TypeInv
BY CertificatesAssumption
DEF Init, TypeInv, TypeOK, Verifying, NoCache, Paths

\* Every variable has its type, and the cache its size: a chain longer than it is
\* not stored past its end.
THEOREM TypeCorrect == Spec => []TypeOK
<1>1. TypeInv => TypeOK
  BY DEF TypeInv
<1> QED
  BY <1>1, TypeInit, TypeStep, PTL DEF Spec

-----------------------------------------------------------------------------
(* The directory *)

LEMMA CertDirStep == TypeInv /\ CertDirInv /\ [Next]_vars => CertDirInv'
<1> SUFFICES ASSUME TypeInv, CertDirInv, [Next]_vars PROVE CertDirInv'
  OBVIOUS
<1> USE DEF CertDirInv, handleVars, fileVars, ghostVars
<1>1. dirs \subseteq Paths \X {"conf", "certs"}
  BY DEF TypeInv, TypeOK
<1>2. CASE Settings \/ Restart
  BY <1>2 DEF Settings, Restart, Reinitialise, qvd_set_home, qvd_set_no_cert_check,
     qvd_set_strict_cert_check, qvd_set_unknown_cert_callback
<1>3. CASE ChooseHome
  BY <1>3 DEF ChooseHome
<1>4. CASE CreateDir("conf", "certs")
  BY <1>1, <1>4 DEF CreateDir, Parent
<1>5. CASE CreateDir("certs", "connect")
  BY <1>1, <1>5 DEF CreateDir, Parent
<1>6. CASE CreateDirFails("conf") \/ CreateDirFails("certs")
  BY <1>6 DEF CreateDirFails
<1>7. CASE _qvd_sslctxfun \/ ConnectFails
  BY <1>7 DEF _qvd_sslctxfun, ConnectFails
<1>8. CASE _qvd_verify_cert_callback \/ UserRefuses \/ UserAccepts
  BY <1>8 DEF _qvd_verify_cert_callback, UserRefuses, UserAccepts, Accept, Refuse
<1>9. CASE _qvd_save_certificate
  BY <1>9 DEF _qvd_save_certificate, OpenFile, OpenFileFails, WriteFile, WriteFileFails,
     Accept
<1>10. CASE UNCHANGED vars
  BY <1>10 DEF vars
<1> QED
  BY <1>2, <1>3, <1>4, <1>5, <1>6, <1>7, <1>8, <1>9, <1>10 DEF Next, _qvd_create_dir

LEMMA CertDirInit == Init => CertDirInv
BY DEF Init, CertDirInv

\* When the calls that look for the certificate directory go on, it exists, below
\* a home that the relation Client and Connect use allows.
THEOREM CertDirAlways == Spec => []CertDirAsPromised
<1>1. TypeInv /\ CertDirInv => CertDirAsPromised
  <2> SUFFICES ASSUME TypeInv, CertDirInv, pc = "connect"
               PROVE  /\ <<certpath, "certs">> \in dirs /\ certpath \in Directories
                      /\ _qvd_set_certdir(asked_home, home, TRUE)
    BY DEF CertDirAsPromised
  <2>1. /\ HomeChosen(asked_home, used, home) /\ used \in Directories
        /\ certpath = used /\ <<used, "certs">> \in dirs
    BY DEF CertDirInv
  <2> QED
    BY <2>1 DEF _qvd_set_certdir
<1> QED
  BY <1>1, TypeInit, TypeStep, CertDirInit, CertDirStep, PTL DEF Spec

-----------------------------------------------------------------------------
(* The decisions *)

LEMMA AnswersStep == TypeInv /\ AnswersInv /\ [Next]_vars => AnswersInv'
<1> SUFFICES ASSUME TypeInv, AnswersInv, [Next]_vars PROVE AnswersInv'
  OBVIOUS
<1> USE DEF AnswersInv, Answered, handleVars, fileVars, ghostVars
<1>1. /\ pc \in {"verify", "ask", "open", "write"}
           => chain \in Chains /\ depth \in 0 .. Len(chain) - 1
      /\ depth \in Nat
  BY DEF TypeInv, TypeOK, Verifying
<1>2. CASE Settings
  BY <1>2 DEF Settings, Reinitialise, qvd_set_home, qvd_set_no_cert_check,
     qvd_set_strict_cert_check, qvd_set_unknown_cert_callback
<1>3. CASE Restart
  BY <1>3 DEF Restart
<1>4. CASE ChooseHome \/ _qvd_create_dir \/ ConnectFails
  BY <1>4 DEF ChooseHome, _qvd_create_dir, CreateDir, CreateDirFails, ConnectFails
<1>5. CASE _qvd_sslctxfun
  BY <1>5, ChainFacts DEF _qvd_sslctxfun
<1>6. CASE _qvd_verify_cert_callback
  BY <1>1, <1>6, ChainFacts DEF _qvd_verify_cert_callback, Validated, Accept, Refuse
<1>7. CASE UserRefuses
  BY <1>1, <1>7, ChainFacts DEF UserRefuses, Refuse
<1>8. CASE UserAccepts
  BY <1>1, <1>8, ChainFacts DEF UserAccepts
<1>9. CASE _qvd_save_certificate
  BY <1>1, <1>9, ChainFacts
  DEF _qvd_save_certificate, OpenFile, OpenFileFails, WriteFile, WriteFileFails, Accept
<1>10. CASE UNCHANGED vars
  BY <1>10 DEF vars
<1> QED
  BY <1>2, <1>3, <1>4, <1>5, <1>6, <1>7, <1>8, <1>9, <1>10 DEF Next

LEMMA AnswersInit == Init => AnswersInv
BY DEF Init, AnswersInv, Answered

\* A server is accepted only if OpenSSL or the user answered for each of its
\* certificates, and refused only for one that neither did.
THEOREM AnswersDecideAlways == Spec => []AnswersDecide
<1>1. AnswersInv => AnswersDecide
  BY DEF AnswersInv, AnswersDecide, Answered
<1> QED
  BY <1>1, TypeInit, TypeStep, AnswersInit, AnswersStep, PTL DEF Spec

-----------------------------------------------------------------------------
(* The cache *)

LEMMA CacheStep == TypeInv /\ CacheInv /\ [Next]_vars => CacheInv'
<1> SUFFICES ASSUME TypeInv, CacheInv, [Next]_vars PROVE CacheInv'
  OBVIOUS
<1> USE DEF CacheInv, handleVars, fileVars, ghostVars
<1>1. /\ certificate \in [0 .. MAX_CERTS - 1 -> Certs \cup {NULL}]
      /\ chain # <<>> => chain \in Chains /\ depth \in 0 .. Len(chain) - 1
      /\ Len(<<>>) = 0
  BY DEF TypeInv, TypeOK
<1>2. CASE Settings
  BY <1>2 DEF Settings, Reinitialise, qvd_set_home, qvd_set_no_cert_check,
     qvd_set_strict_cert_check, qvd_set_unknown_cert_callback
<1>3. CASE Restart
  BY <1>3, CertificatesAssumption DEF Restart, NoCache
<1>4. CASE ChooseHome \/ _qvd_create_dir \/ ConnectFails
  BY <1>4 DEF ChooseHome, _qvd_create_dir, CreateDir, CreateDirFails, ConnectFails
<1>5. CASE _qvd_sslctxfun
  <2> SUFFICES ASSUME one_server', NEW d \in 0 .. MAX_CERTS - 1, certificate[d] # NULL
               PROVE  d < Len(chain') /\ certificate[d] = chain'[d + 1]
    BY <1>5 DEF _qvd_sslctxfun
  <2>1. one_server /\ chain \in {<<>>, chain'}
    BY <1>5 DEF _qvd_sslctxfun
  <2>2. d < Len(chain) /\ certificate[d] = chain[d + 1]
    BY <2>1
  <2>3. chain # <<>>
    BY <1>1, <2>2, CertificatesAssumption
  <2> QED
    BY <2>1, <2>2, <2>3
<1>6. CASE _qvd_verify_cert_callback
  <2>1. chain # <<>>
    BY <1>6 DEF _qvd_verify_cert_callback, TypeInv, Verifying
  <2>2. chain' = chain /\ one_server' = one_server /\ certificate' = Cached
    BY <1>6 DEF _qvd_verify_cert_callback
  <2>3. \A d \in 0 .. MAX_CERTS - 1 :
          Cached[d] = certificate[d] \/ (d = depth /\ Cached[d] = chain[d + 1])
    BY <1>1 DEF Cached, Sent
  <2> QED
    BY <1>1, <2>1, <2>2, <2>3, ChainFacts
<1>7. CASE UserRefuses \/ UserAccepts
  BY <1>7 DEF UserRefuses, UserAccepts
<1>8. CASE _qvd_save_certificate
  BY <1>8 DEF _qvd_save_certificate, OpenFile, OpenFileFails, WriteFile, WriteFileFails
<1>9. CASE UNCHANGED vars
  BY <1>9 DEF vars
<1> QED
  BY <1>2, <1>3, <1>4, <1>5, <1>6, <1>7, <1>8, <1>9 DEF Next

LEMMA CacheInit == Init => CacheInv
BY CertificatesAssumption DEF Init, CacheInv, NoCache

\* A process that talks to one server shows the user what that server sent.
THEOREM ShownIsSentAlways == Spec => []ShownIsSent
<1>1. TypeInv /\ CacheInv => ShownIsSent
  BY AskedFacts DEF CacheInv, ShownIsSent, Shown, Sent
<1> QED
  BY <1>1, TypeInit, TypeStep, CacheInit, CacheStep, PTL DEF Spec

-----------------------------------------------------------------------------
(* The files *)

LEMMA SavedStep == TypeInv /\ SavedInv /\ [Next]_vars => SavedInv'
<1> SUFFICES ASSUME TypeInv, SavedInv, [Next]_vars PROVE SavedInv'
  OBVIOUS
<1> USE DEF SavedInv, SavedWasShown, Shown, handleVars, fileVars, ghostVars
<1>1. CASE Settings \/ Restart
  BY <1>1 DEF Settings, Restart, Reinitialise, qvd_set_home, qvd_set_no_cert_check,
     qvd_set_strict_cert_check, qvd_set_unknown_cert_callback
<1>2. CASE ChooseHome \/ _qvd_create_dir
  BY <1>2 DEF ChooseHome, _qvd_create_dir, CreateDir, CreateDirFails
<1>3. CASE _qvd_sslctxfun \/ ConnectFails
  BY <1>3 DEF _qvd_sslctxfun, ConnectFails
<1>4. CASE _qvd_verify_cert_callback \/ UserRefuses
  BY <1>4 DEF _qvd_verify_cert_callback, UserRefuses, Accept, Refuse
<1>5. CASE UserAccepts
  BY <1>5 DEF UserAccepts
<1>6. CASE OpenFile
  BY <1>6 DEF OpenFile
<1>7. CASE OpenFileFails \/ WriteFileFails
  BY <1>7 DEF OpenFileFails, WriteFileFails, Accept
<1>8. CASE WriteFile
  BY <1>8 DEF WriteFile, Accept, Saved, FileName
<1>9. CASE UNCHANGED vars
  BY <1>9 DEF vars
<1> QED
  BY <1>1, <1>2, <1>3, <1>4, <1>5, <1>6, <1>7, <1>8, <1>9 DEF Next, _qvd_save_certificate

LEMMA SavedInit == Init => SavedInv
BY DEF Init, SavedInv, SavedWasShown

\* A file that was written whole holds what the user was shown and accepted.
THEOREM SavedWasShownAlways == Spec => []SavedWasShown
<1>1. SavedInv => SavedWasShown
  BY DEF SavedInv
<1> QED
  BY <1>1, TypeInit, TypeStep, SavedInit, SavedStep, PTL DEF Spec

LEMMA RememberedStep == TypeInv /\ RememberedInv /\ [Next]_vars => RememberedInv'
<1> SUFFICES ASSUME TypeInv, RememberedInv, [Next]_vars PROVE RememberedInv'
  OBVIOUS
<1> USE DEF RememberedInv, FileName, Saved, Forgotten, handleVars, fileVars, ghostVars
<1>1. /\ pc \in {"open", "write"} => certificate[depth] \in Certs
      /\ certpath \in Paths
  BY AskedFacts DEF TypeInv, TypeOK
<1>2. CASE Settings \/ Restart
  BY <1>2 DEF Settings, Restart, Reinitialise, qvd_set_home, qvd_set_no_cert_check,
     qvd_set_strict_cert_check, qvd_set_unknown_cert_callback
<1>3. CASE ChooseHome \/ _qvd_create_dir
  BY <1>3 DEF ChooseHome, _qvd_create_dir, CreateDir, CreateDirFails
<1>4. CASE _qvd_sslctxfun \/ ConnectFails
  BY <1>4 DEF _qvd_sslctxfun, ConnectFails
<1>5. CASE _qvd_verify_cert_callback
  BY <1>5 DEF _qvd_verify_cert_callback, Accept, Refuse, Validated, Preverified, Known
<1>6. CASE UserRefuses \/ UserAccepts
  BY <1>6 DEF UserRefuses, UserAccepts, Refuse
<1>7. CASE OpenFile
  BY <1>1, <1>7 DEF OpenFile
<1>8. CASE OpenFileFails \/ WriteFileFails
  BY <1>8 DEF OpenFileFails, WriteFileFails, Accept
<1>9. CASE WriteFile
  BY <1>1, <1>9 DEF WriteFile, Accept
<1>10. CASE UNCHANGED vars
  BY <1>10 DEF vars, Preverified, Known
<1> QED
  BY <1>2, <1>3, <1>4, <1>5, <1>6, <1>7, <1>8, <1>9, <1>10
  DEF Next, _qvd_save_certificate

LEMMA RememberedInit == Init => RememberedInv
BY DEF Init, RememberedInv

\* The user is not asked again about a server's own certificate that was saved.
THEOREM NotAskedAgainAlways == Spec => []NotAskedAgain
<1>1. TypeInv /\ RememberedInv => NotAskedAgain
  <2> SUFFICES ASSUME TypeInv, RememberedInv, pc = "ask", Len(chain) = 1,
                      Sent \notin Flawed, <<certpath, Sent>> \in remembered
               PROVE  FALSE
    BY DEF NotAskedAgain
  <2>1. depth = 0
    BY DEF TypeInv, TypeOK, Verifying
  <2>2. /\ <<certpath, Subject(Sent), 0>> \in DOMAIN files
        /\ files[<<certpath, Subject(Sent), 0>>] = Sent
    BY DEF RememberedInv
  <2>3. Known(Sent)
    <3>1. 0 \in 0 .. MAX_CERTS /\ \A k \in 0 .. 0 : k = 0
      BY CertificatesAssumption
    <3> QED
      BY <2>2, <3>1 DEF Known
  <2> QED
    BY <2>1, <2>3 DEF RememberedInv, Preverified, Sent
<1> QED
  BY <1>1, TypeInit, TypeStep, RememberedInit, RememberedStep, PTL DEF Spec
=============================================================================
