------------------------- MODULE ClientLoopProofs -------------------------
(***************************************************************************)
(* Proofs about ClientLoop, for every buffer size, record size, socket     *)
(* capacity and stream length.                                             *)
(*                                                                         *)
(* The two directions of the relay are the same four facts about a         *)
(* QvdBuffer, so those are proved first, of any buffer: a read and a write *)
(* keep it sound, keep its bytes the next ones of the stream (InOrder) and *)
(* leave it empty only if it was reset (Reusable).  A step of the loop is  *)
(* then one of these on proxyWrite, one on proxyRead, or touches neither.  *)
(***************************************************************************)
EXTENDS ClientLoop, TLAPS, SequenceTheorems

\* A buffer with nothing to write starts again from the front.
Reusable(b) == b.offset = b.size => b.size = 0

-----------------------------------------------------------------------------
(* The buffer *)

\* What read(2) or curl_easy_recv puts after size keeps the buffer sound.
LEMMA ReadSound ==
  ASSUME NEW b, Sound(b), NEW n \in Nat, NEW k \in Nat, k <= Room(b)
  PROVE  Sound(QvdBufferRead(b, NextBytes(n, k)))
<1> USE BufferSizeAssumption
<1> DEFINE bytes == NextBytes(n, k)
           c == QvdBufferRead(b, bytes)
           data == [i \in Slots |-> IF i \in b.size .. b.size + Len(bytes) - 1
                                    THEN bytes[i - b.size + 1] ELSE b.data[i]]
<1>1. /\ b \in [data : [Slots -> Nat], offset : Nat, size : Nat]
      /\ b.data \in [Slots -> Nat] /\ b.offset \in Nat /\ b.size \in Nat
  BY DEF Sound, QvdBuffers
<1>2. Len(bytes) = k /\ \A i \in 1 .. k : bytes[i] \in Nat
  BY DEF NextBytes
<1>3. data \in [Slots -> Nat]
  <2> SUFFICES ASSUME NEW i \in Slots
               PROVE  (IF i \in b.size .. b.size + k - 1
                       THEN bytes[i - b.size + 1] ELSE b.data[i]) \in Nat
    BY <1>2
  <2>1. CASE i \in b.size .. b.size + k - 1
    <3>1. i - b.size + 1 \in 1 .. k
      BY <1>1, <2>1
    <3> QED
      BY <1>2, <2>1, <3>1
  <2>2. CASE i \notin b.size .. b.size + k - 1
    BY <1>1, <2>2
  <2> QED
    BY <2>1, <2>2
<1>4. c = [data |-> data, offset |-> b.offset, size |-> b.size + k]
  BY <1>2 DEF QvdBufferRead
<1> HIDE DEF bytes, data, c
<1>5. c \in QvdBuffers /\ c.offset = b.offset /\ c.size = b.size + k
  BY <1>1, <1>3, <1>4 DEF QvdBuffers
<1>6. Sound(c)
  BY <1>1, <1>5 DEF Sound, Room
<1> QED
  BY <1>6 DEF bytes, c

\* It also keeps the live bytes the next ones of the stream.
LEMMA ReadInOrder ==
  ASSUME NEW b, Sound(b), NEW n \in Nat, NEW k \in Nat, k <= Room(b),
         NEW out \in Seq(Nat), InOrder(b, n, out)
  PROVE  InOrder(QvdBufferRead(b, NextBytes(n, k)), n + k, out)
<1> USE BufferSizeAssumption
<1> DEFINE bytes == NextBytes(n, k)
           c == QvdBufferRead(b, bytes)
<1>1. b \in [data : [Slots -> Nat], offset : Nat, size : Nat]
  BY DEF Sound, QvdBuffers
<1>2. Len(bytes) = k /\ \A i \in 1 .. k : bytes[i] = n + i
  BY DEF NextBytes
<1>3. c.offset = b.offset /\ c.size = b.size + k
  BY <1>1, <1>2 DEF QvdBufferRead
<1>4. \A i \in Slots : c.data[i] = IF i \in b.size .. b.size + k - 1
                                   THEN bytes[i - b.size + 1] ELSE b.data[i]
  BY <1>1, <1>2 DEF QvdBufferRead
<1> HIDE DEF bytes, c
<1>5. n = Len(out) + (b.size - b.offset)
  BY DEF InOrder
<1>6. ASSUME NEW i \in c.offset .. c.size - 1
      PROVE  c.data[i] = Len(out) + (i - c.offset) + 1
  <2>1. i \in Slots
    BY <1>1, <1>3 DEF Slots, Room, Sound
  <2>2. CASE i < b.size
    <3>1. c.data[i] = b.data[i]
      BY <1>1, <1>3, <1>4, <2>1, <2>2
    <3>2. i \in b.offset .. b.size - 1
      BY <1>1, <1>3, <2>2
    <3> QED
      BY <1>3, <3>1, <3>2 DEF InOrder
  <2>3. CASE i >= b.size
    <3>1. c.data[i] = bytes[i - b.size + 1]
      BY <1>1, <1>3, <1>4, <2>1, <2>3
    <3>2. i - b.size + 1 \in 1 .. k
      BY <1>1, <1>3, <2>3
    <3>3. c.data[i] = n + (i - b.size + 1)
      BY <1>2, <3>1, <3>2
    <3> QED
      BY <1>1, <1>3, <1>5, <3>3
  <2> QED
    BY <1>1, <1>3, <2>2, <2>3
<1>7. n + k = Len(out) + (c.size - c.offset)
  BY <1>1, <1>3, <1>5
<1>8. InOrder(c, n + k, out)
  BY <1>6, <1>7 DEF InOrder
<1> QED
  BY <1>8 DEF bytes, c

\* The live bytes are a sequence of naturals, size - offset long.
LEMMA LiveSeq ==
  ASSUME NEW b, Sound(b)
  PROVE  /\ Live(b) \in Seq(Nat)
         /\ Len(Live(b)) = b.size - b.offset
         /\ \A i \in 1 .. b.size - b.offset : Live(b)[i] = b.data[b.offset + i - 1]
<1>1. b \in [data : [Slots -> Nat], offset : Nat, size : Nat]
  BY DEF Sound, QvdBuffers
<1>2. \A i \in 1 .. b.size - b.offset : b.offset + i - 1 \in Slots
  BY <1>1, BufferSizeAssumption DEF Sound, Slots
<1> QED
  BY <1>1, <1>2 DEF Live, Sound

\* A write of n bytes keeps the buffer sound and reusable.
LEMMA WriteSound ==
  ASSUME NEW b, Sound(b), NEW n \in 1 .. Len(Live(b))
  PROVE  Sound(QvdBufferWrite(b, n)) /\ Reusable(QvdBufferWrite(b, n))
<1>1. b \in [data : [Slots -> Nat], offset : Nat, size : Nat]
  BY DEF Sound, QvdBuffers
<1>2. n \in Nat /\ n >= 1 /\ b.offset + n <= b.size
  BY <1>1, LiveSeq DEF Sound
<1> DEFINE c == QvdBufferWrite(b, n)
<1>3. CASE b.offset + n >= b.size
  <2> DEFINE d == [b EXCEPT !.offset = 0]
  <2>1. c = [d EXCEPT !.size = 0]
    BY <1>1, <1>3 DEF QvdBufferWrite, QvdBufferReset
  <2>2. d \in [data : [Slots -> Nat], offset : Nat, size : Nat] /\ d.offset = 0
    BY <1>1
  <2> HIDE DEF d
  <2>3. c \in QvdBuffers /\ c.offset = 0 /\ c.size = 0
    BY <2>1, <2>2 DEF QvdBuffers
  <2> QED
    BY <2>3, BufferSizeAssumption DEF Sound, Reusable
<1>4. CASE b.offset + n < b.size
  <2>1. c = [b EXCEPT !.offset = b.offset + n]
    BY <1>1, <1>2, <1>4 DEF QvdBufferWrite
  <2>2. c \in QvdBuffers /\ c.offset = b.offset + n /\ c.size = b.size
    BY <1>1, <1>2, <2>1 DEF QvdBuffers
  <2> QED
    BY <1>1, <1>2, <1>4, <2>2 DEF Sound, Reusable
<1> QED
  BY <1>1, <1>2, <1>3, <1>4

\* The bytes a write takes continue what left before, and the rest follow.
LEMMA WriteInOrder ==
  ASSUME NEW b, Sound(b), NEW taken \in Nat, NEW out \in Seq(Nat),
         InOrder(b, taken, out), NEW n \in 1 .. Len(Live(b))
  PROVE  LET sent == out \o SubSeq(Live(b), 1, n) IN
         /\ sent \in Seq(Nat) /\ Len(sent) = Len(out) + n
         /\ SubSeq(Live(b), 1, n) = [i \in 1 .. n |-> Len(out) + i]
         /\ InOrder(QvdBufferWrite(b, n), taken, sent)
<1> DEFINE more == SubSeq(Live(b), 1, n)
           sent == out \o more
           c == QvdBufferWrite(b, n)
<1>1. b \in [data : [Slots -> Nat], offset : Nat, size : Nat]
  BY DEF Sound, QvdBuffers
<1>2. /\ Live(b) \in Seq(Nat) /\ Len(Live(b)) = b.size - b.offset
      /\ \A i \in 1 .. b.size - b.offset : Live(b)[i] = b.data[b.offset + i - 1]
  BY LiveSeq
<1>3. n \in Nat /\ n >= 1 /\ b.offset + n <= b.size
  BY <1>1, <1>2 DEF Sound
<1>4. more \in Seq(Nat) /\ Len(more) = n /\ \A i \in 1 .. n : more[i] = Live(b)[i]
  <2> DEFINE live == Live(b)
  <2>1. live \in Seq(Nat) /\ n <= Len(live) /\ n \in Nat /\ n >= 1
    BY <1>1, <1>2, <1>3
  <2> HIDE DEF live
  <2>2. /\ SubSeq(live, 1, n) \in Seq(Nat) /\ Len(SubSeq(live, 1, n)) = n
        /\ \A i \in 1 .. n : SubSeq(live, 1, n)[i] = live[i]
    BY <2>1
  <2> QED
    BY <2>2 DEF live
<1>5. \A i \in 1 .. n : more[i] = Len(out) + i
  <2> TAKE i \in 1 .. n
  <2> DEFINE j == b.offset + i - 1
  <2>1. j \in b.offset .. b.size - 1 /\ j = b.offset + i - 1
    BY <1>1, <1>3
  <2>2. i \in 1 .. b.size - b.offset
    BY <1>1, <1>3
  <2>3. more[i] = b.data[j]
    BY <1>2, <1>4, <2>2
  <2> HIDE DEF more, j
  <2>4. b.data[j] = Len(out) + (j - b.offset) + 1
    BY <2>1 DEF InOrder
  <2>5. j - b.offset = i - 1 /\ i \in Nat /\ Len(out) \in Nat
    BY <1>1, <2>1
  <2> QED
    BY <2>3, <2>4, <2>5
<1>6. more = [i \in 1 .. n |-> Len(out) + i]
  BY <1>4, <1>5
<1>7. sent \in Seq(Nat) /\ Len(sent) = Len(out) + n
  BY <1>4
<1>8. \A i \in 1 .. Len(sent) : sent[i] = i
  <2> TAKE i \in 1 .. Len(sent)
  <2>1. CASE i <= Len(out)
    BY <1>4, <1>7, <2>1 DEF InOrder
  <2>2. CASE i > Len(out)
    BY <1>4, <1>5, <1>7, <2>2
  <2> QED
    BY <1>7, <2>1, <2>2
<1>9. /\ taken = Len(sent) + (c.size - c.offset)
      /\ \A i \in c.offset .. c.size - 1 : c.data[i] = Len(sent) + (i - c.offset) + 1
  <2>1. CASE b.offset + n >= b.size
    BY <1>1, <1>3, <1>7, <2>1 DEF QvdBufferWrite, QvdBufferReset, InOrder
  <2>2. CASE b.offset + n < b.size
    <3>1. c.data = b.data /\ c.size = b.size /\ c.offset = b.offset + n
      BY <1>1, <1>3, <2>2 DEF QvdBufferWrite
    <3>2. taken = Len(sent) + (c.size - c.offset)
      BY <1>1, <1>3, <1>7, <3>1 DEF InOrder
    <3> HIDE DEF c, sent
    <3>3. ASSUME NEW i \in c.offset .. c.size - 1
          PROVE  c.data[i] = Len(sent) + (i - c.offset) + 1
      <4>1. b.data[i] = Len(out) + (i - b.offset) + 1
        BY <1>1, <1>3, <3>1 DEF InOrder
      <4> QED
        BY <1>1, <1>3, <1>7, <3>1, <4>1
    <3> QED
      BY <3>2, <3>3
  <2> QED
    BY <1>1, <1>3, <2>1, <2>2
<1> QED
  BY <1>6, <1>7, <1>8, <1>9 DEF InOrder

-----------------------------------------------------------------------------
(* Types *)

\* What a short write takes is some of what there is, and lengthens what is out.
LEMMA ShortWrite ==
  ASSUME NEW live \in Seq(Nat), NEW room \in Int, NEW n \in 1 .. Least(Len(live), room),
         NEW out \in Seq(Nat)
  PROVE  /\ n \in 1 .. Len(live)
         /\ out \o SubSeq(live, 1, n) \in Seq(Nat)
         /\ Len(out \o SubSeq(live, 1, n)) >= Len(out)
<1>1. n \in 1 .. Len(live)
  BY DEF Least
<1>2. SubSeq(live, 1, n) \in Seq(Nat) /\ Len(SubSeq(live, 1, n)) \in Nat
  BY <1>1
<1> DEFINE more == SubSeq(live, 1, n)
<1> HIDE DEF more
<1>3. more \in Seq(Nat) /\ Len(more) \in Nat
  BY <1>2 DEF more
<1>4. out \o more \in Seq(Nat) /\ Len(out \o more) >= Len(out)
  BY <1>3
<1> QED
  BY <1>1, <1>4 DEF more

\* Every variable has its type, whatever the loop, NX and the remote host do.
LEMMA TypeStep == TypeOK /\ [Next]_vars => TypeOK'
<1> SUFFICES ASSUME TypeOK, [Next]_vars PROVE TypeOK'
  OBVIOUS
<1> USE FdAssumption, SizeAssumption, BufferSizeAssumption
        DEF TypeOK, Phases, fdVars, selectVars, statusVars, peers, connIn, connOut,
            nxIn, nxOut
<1>1. CASE PrepareTransport
  BY <1>1 DEF PrepareTransport, BuildSets
<1>2. CASE PrepareNoTransport
  BY <1>2 DEF PrepareNoTransport, BuildSets
<1>3. CASE SelectReturns
  <2>1. rfds' \subseteq rfds /\ wfds' \subseteq wfds /\ pc' \in Phases
    BY <1>3 DEF SelectReturns
  <2>2. UNCHANGED <<ret, fdVars, statusVars, proxyWrite, proxyRead, end_connection,
                    peers, connIn, connOut, nxIn, nxOut>>
    BY <1>3 DEF SelectReturns
  <2>3. rfds' \subseteq {CONN, PROXY} /\ wfds' \subseteq {CONN}
    BY <2>1
  <2> QED
    BY <2>1, <2>2, <2>3
<1>4. CASE SelectFails
  BY <1>4 DEF SelectFails
<1>5. CASE ExecuteReturns
  BY <1>5 DEF ExecuteReturns
<1>6. CASE CheckRetries
  BY <1>6 DEF CheckRetries, LoopTest, Return
<1>7. CASE CheckFails
  BY <1>7 DEF CheckFails, Return
<1>8. CASE CheckEnded
  BY <1>8 DEF CheckEnded, Return
<1>9. CASE CheckProceeds
  BY <1>9 DEF CheckProceeds
<1>10. CASE RecvSkips
  BY <1>10 DEF RecvSkips
<1>11. CASE RecvEnd
  BY <1>11 DEF RecvEnd
<1>12. CASE RecvAgain
  BY <1>12 DEF RecvAgain
<1>13. CASE RecvUnsupported
  BY <1>13 DEF RecvUnsupported, CountUnsupported
<1>14. CASE RecvFails
  BY <1>14 DEF RecvFails
<1>15. CASE ReadSkips
  BY <1>15 DEF ReadSkips
<1>16. CASE ReadAgain
  BY <1>16 DEF ReadAgain
<1>17. CASE ReadEnds
  BY <1>17 DEF ReadEnds
<1>18. CASE WriteSkips
  BY <1>18 DEF WriteSkips
<1>19. CASE WriteAgain
  BY <1>19 DEF WriteAgain
<1>20. CASE WriteFails
  BY <1>20 DEF WriteFails
<1>21. CASE SendSkips
  BY <1>21 DEF SendSkips, LoopTest, Return
<1>22. CASE SendAgain
  BY <1>22 DEF SendAgain, LoopTest, Return
<1>23. CASE SendUnsupported
  BY <1>23 DEF SendUnsupported, LoopTest, Return, CountUnsupported
<1>24. CASE SendFails
  BY <1>24 DEF SendFails, LoopTest, Return
<1>25. CASE NxTakes
  BY <1>25 DEF NxTakes
<1>26. CASE NxSends
  BY <1>26 DEF NxSends, NxWaiting
<1>27. CASE NxCloses
  BY <1>27 DEF NxCloses
<1>28. CASE RemoteSends
  BY <1>28 DEF RemoteSends
<1>29. CASE RemoteTakes
  BY <1>29 DEF RemoteTakes
<1>30. CASE RemoteGoes
  BY <1>30 DEF RemoteGoes
<1>31. CASE qvd_end_connection
  BY <1>31 DEF qvd_end_connection
<1>32. CASE RecvBytes
  <2>1. PICK record \in 1 .. RECORD_MAX :
          /\ \/ tlsPending > 0 /\ record = tlsPending
             \/ tlsPending = 0 /\ remote # "broken" /\ record <= Wire
          /\ LET k == Least(record, Room(proxyWrite)) IN
               /\ proxyWrite' = QvdBufferRead(proxyWrite, NextBytes(received, k))
               /\ received' = received + k
               /\ tlsPending' = record - k
    BY <1>32 DEF RecvBytes
  <2> DEFINE k == Least(record, Room(proxyWrite))
  <2>2. k \in Nat /\ k <= Room(proxyWrite) /\ k <= record
    BY <1>32 DEF RecvBytes, Least, Room, Sound, QvdBuffers
  <2>3. Sound(proxyWrite')
    BY <2>1, <2>2, ReadSound
  <2>4. received' = received + k /\ tlsPending' = record - k /\ record \in Nat
        /\ received + record <= remoteSent
    BY <2>1 DEF Wire
  <2> HIDE DEF k
  <2>5. received' \in Nat /\ tlsPending' \in Nat /\ received' + tlsPending' <= remoteSent
    BY <2>2, <2>4
  <2> QED
    BY <1>32, <2>3, <2>5 DEF RecvBytes
<1>33. CASE ReadBytes
  <2> DEFINE k == Least(NxWaiting, Room(proxyRead))
  <2>1. k \in Nat /\ k <= Room(proxyRead) /\ k <= NxWaiting
    BY <1>33 DEF ReadBytes, Least, Room, Sound, QvdBuffers, NxWaiting
  <2>2. Sound(proxyRead') /\ nxRead' = nxRead + k
    BY <1>33, <2>1, ReadSound DEF ReadBytes
  <2>3. nxRead' \in 0 .. nxSent
    BY <2>1, <2>2 DEF NxWaiting
  <2> QED
    BY <1>33, <2>2, <2>3 DEF ReadBytes
<1>34. CASE WriteBytes
  <2>1. PICK n \in 1 .. Least(Len(Live(proxyWrite)), NxSocketRoom) :
          /\ toNx' = toNx \o SubSeq(Live(proxyWrite), 1, n)
          /\ proxyWrite' = QvdBufferWrite(proxyWrite, n)
    BY <1>34 DEF WriteBytes
  <2>2. Live(proxyWrite) \in Seq(Nat) /\ toNx \in Seq(Nat) /\ NxSocketRoom \in Int
    <3>1. Live(proxyWrite) \in Seq(Nat)
      BY LiveSeq
    <3>2. toNx \in Seq(Nat) /\ Len(toNx) \in Nat /\ nxTaken \in Nat
      OBVIOUS
    <3>3. NxSocketRoom \in Int
      BY <3>2 DEF NxSocketRoom
    <3> QED
      BY <3>1, <3>2, <3>3
  <2>3. /\ n \in 1 .. Len(Live(proxyWrite))
        /\ toNx' \in Seq(Nat) /\ Len(toNx') >= Len(toNx)
    BY <2>1, <2>2, ShortWrite
  <2>4. Sound(proxyWrite')
    BY <2>1, <2>3, WriteSound
  <2> QED
    BY <1>34, <2>3, <2>4 DEF WriteBytes
<1>35. CASE SendBytes
  <2>1. PICK n \in 1 .. Least(Len(Live(proxyRead)), WindowRoom) :
          /\ toRemote' = toRemote \o SubSeq(Live(proxyRead), 1, n)
          /\ proxyRead' = QvdBufferWrite(proxyRead, n)
    BY <1>35 DEF SendBytes
  <2>2. Live(proxyRead) \in Seq(Nat) /\ toRemote \in Seq(Nat) /\ WindowRoom \in Int
    <3>1. Live(proxyRead) \in Seq(Nat)
      BY LiveSeq
    <3>2. toRemote \in Seq(Nat) /\ Len(toRemote) \in Nat /\ remoteTaken \in Nat
      OBVIOUS
    <3>3. WindowRoom \in Int
      BY <3>2 DEF WindowRoom
    <3> QED
      BY <3>1, <3>2, <3>3
  <2>3. /\ n \in 1 .. Len(Live(proxyRead))
        /\ toRemote' \in Seq(Nat) /\ Len(toRemote') >= Len(toRemote)
    BY <2>1, <2>2, ShortWrite
  <2>4. Sound(proxyRead')
    BY <2>1, <2>3, WriteSound
  <2> QED
    <3>1. /\ pc' \in Phases /\ returned' \in {0, 1, -1} /\ numunsupportedprotocolerrs' \in Nat
          /\ UNCHANGED <<fdVars, result>>
      BY <1>35 DEF SendBytes, LoopTest, Return
    <3>2. UNCHANGED <<selectVars, proxyWrite, end_connection, peers, connIn, remoteTaken,
                      nxIn, nxOut>>
      BY <1>35 DEF SendBytes
    <3>3. remoteTaken' \in 0 .. Len(toRemote')
      <4>1. remoteTaken' = remoteTaken
        BY <3>2
      <4>2. remoteTaken \in 0 .. Len(toRemote) /\ Len(toRemote) \in Nat /\ Len(toRemote') \in Nat
        BY <2>3
      <4> QED
        BY <2>3, <4>1, <4>2
    <3> QED
      BY <2>3, <2>4, <3>1, <3>2, <3>3
<1>36. CASE UNCHANGED vars
  BY <1>36 DEF vars
<1> QED
  BY <1>1, <1>2, <1>3, <1>4, <1>5, <1>6, <1>7, <1>8, <1>9, <1>10, <1>11, <1>12,
     <1>13, <1>14, <1>15, <1>16, <1>17, <1>18, <1>19, <1>20, <1>21, <1>22, <1>23,
     <1>24, <1>25, <1>26, <1>27, <1>28, <1>29, <1>30, <1>31, <1>32, <1>33, <1>34,
     <1>35, <1>36
  DEF Next, LoopStep, NxStep, Environment, Select, Check, Recv, Read, Write, Send

\* The loop starts with both buffers empty and both descriptors open.
LEMMA TypeInit == Init => TypeOK
<1> SUFFICES ASSUME Init PROVE TypeOK
  OBVIOUS
<1>1. QvdBufferInit \in QvdBuffers /\ QvdBufferInit.offset = 0 /\ QvdBufferInit.size = 0
  BY DEF QvdBufferInit, QvdBuffers
<1>2. Sound(QvdBufferInit)
  BY <1>1, BufferSizeAssumption DEF Sound
<1>3. <<>> \in Seq(Nat) /\ Len(<<>>) = 0
  OBVIOUS
<1>4. Sound(proxyWrite) /\ Sound(proxyRead)
  BY <1>2 DEF Init
<1>5. /\ toRemote \in Seq(Nat) /\ remoteTaken \in 0 .. Len(toRemote)
      /\ toNx \in Seq(Nat) /\ nxTaken \in 0 .. Len(toNx)
  BY <1>3 DEF Init
<1>6. end_connection \in BOOLEAN
  BY DEF Init
<1>7. /\ pc \in Phases /\ rfds \subseteq {CONN, PROXY} /\ wfds \subseteq {CONN}
      /\ connFd \in {CONN, -1} /\ proxyFd \in {PROXY, -1} /\ ret \in {0, -1}
      /\ result \in {0, -1} /\ returned \in {0, 1, -1}
      /\ remote \in {"open", "closed", "broken"} /\ nx \in {"open", "closed"}
  BY DEF Init, Phases
<1>8. /\ numunsupportedprotocolerrs \in Nat
      /\ remoteSent \in Nat /\ tlsPending \in Nat /\ received \in Nat
      /\ received + tlsPending <= remoteSent
      /\ nxSent \in Nat /\ nxRead \in 0 .. nxSent
  BY DEF Init
<1> QED
  BY <1>4, <1>5, <1>6, <1>7, <1>8 DEF TypeOK

THEOREM TypeCorrect == Spec => []TypeOK
  BY TypeInit, TypeStep, PTL DEF Spec

-----------------------------------------------------------------------------
(* The two streams *)

ToNxInv == NxGetsRemoteStream /\ Reusable(proxyWrite)

ToRemoteInv == RemoteGetsNxStream /\ Reusable(proxyRead)

\* Two steps of the loop touch the path from the remote host to NX.
LEMMA ToNxFrame ==
  [Next]_vars => \/ RecvBytes \/ WriteBytes
                 \/ UNCHANGED <<proxyWrite, received, toNx>>
BY DEF Next, LoopStep, NxStep, Environment, Select, Check, Recv, Read, Write, Send,
       vars, connIn, nxIn, PrepareTransport, PrepareNoTransport, SelectReturns,
       SelectFails, ExecuteReturns, CheckRetries, CheckFails, CheckEnded,
       CheckProceeds, RecvSkips, RecvEnd, RecvAgain, RecvUnsupported, RecvFails,
       ReadSkips, ReadBytes, ReadAgain, ReadEnds, WriteSkips, WriteAgain, WriteFails,
       SendSkips, SendBytes, SendAgain, SendUnsupported, SendFails, NxTakes, NxSends,
       NxCloses, RemoteSends, RemoteTakes, RemoteGoes, qvd_end_connection

\* And two touch the path from NX to the remote host.
LEMMA ToRemoteFrame ==
  [Next]_vars => \/ ReadBytes \/ SendBytes
                 \/ UNCHANGED <<proxyRead, nxRead, toRemote>>
BY DEF Next, LoopStep, NxStep, Environment, Select, Check, Recv, Read, Write, Send,
       vars, connOut, nxOut, PrepareTransport, PrepareNoTransport, SelectReturns,
       SelectFails, ExecuteReturns, CheckRetries, CheckFails, CheckEnded,
       CheckProceeds, RecvSkips, RecvBytes, RecvEnd, RecvAgain, RecvUnsupported,
       RecvFails, ReadSkips, ReadAgain, ReadEnds, WriteSkips, WriteBytes, WriteAgain,
       WriteFails, SendSkips, SendAgain, SendUnsupported, SendFails, NxTakes, NxSends,
       NxCloses, RemoteSends, RemoteTakes, RemoteGoes, qvd_end_connection

\* What a receive does to the path, with its length named.
LEMMA RecvFill ==
  ASSUME TypeOK, RecvBytes
  PROVE  \E k \in 1 .. Room(proxyWrite) :
           /\ proxyWrite' = QvdBufferRead(proxyWrite, NextBytes(received, k))
           /\ received' = received + k
           /\ toNx' = toNx
<1>1. PICK record \in 1 .. RECORD_MAX :
        LET k == Least(record, Room(proxyWrite)) IN
          /\ proxyWrite' = QvdBufferRead(proxyWrite, NextBytes(received, k))
          /\ received' = received + k
  BY DEF RecvBytes
<1> DEFINE k == Least(record, Room(proxyWrite))
<1>2. Room(proxyWrite) \in Int /\ Room(proxyWrite) > 0
  BY BufferSizeAssumption DEF RecvBytes, TypeOK, Room, Sound, QvdBuffers
<1>3. k \in 1 .. Room(proxyWrite)
  BY <1>2, SizeAssumption DEF Least
<1>4. toNx' = toNx
  BY DEF RecvBytes, nxIn
<1> QED
  BY <1>1, <1>3, <1>4

\* What a read from NX does to the other path, with its length named.
LEMMA ReadFill ==
  ASSUME TypeOK, ReadBytes
  PROVE  \E k \in 1 .. Room(proxyRead) :
           /\ proxyRead' = QvdBufferRead(proxyRead, NextBytes(nxRead, k))
           /\ nxRead' = nxRead + k
           /\ toRemote' = toRemote
<1> DEFINE k == Least(NxWaiting, Room(proxyRead))
<1>1. Room(proxyRead) \in Int /\ Room(proxyRead) > 0
  BY BufferSizeAssumption DEF ReadBytes, TypeOK, Room, Sound, QvdBuffers
<1>2. NxWaiting \in Int /\ NxWaiting > 0
  BY DEF ReadBytes, TypeOK, NxWaiting
<1>3. k \in 1 .. Room(proxyRead)
  BY <1>1, <1>2 DEF Least
<1> QED
  BY <1>3 DEF ReadBytes, connOut

\* What a write to NX does to the path.
LEMMA WriteDrain ==
  ASSUME TypeOK, WriteBytes
  PROVE  \E n \in 1 .. Len(Live(proxyWrite)) :
           /\ toNx' = toNx \o SubSeq(Live(proxyWrite), 1, n)
           /\ proxyWrite' = QvdBufferWrite(proxyWrite, n)
           /\ received' = received
<1>1. PICK n \in 1 .. Least(Len(Live(proxyWrite)), NxSocketRoom) :
        /\ toNx' = toNx \o SubSeq(Live(proxyWrite), 1, n)
        /\ proxyWrite' = QvdBufferWrite(proxyWrite, n)
  BY DEF WriteBytes
<1>2. n \in 1 .. Len(Live(proxyWrite))
  BY LiveSeq, SizeAssumption DEF Least, NxSocketRoom, TypeOK
<1> QED
  BY <1>1, <1>2 DEF WriteBytes, connIn

\* What a send to the remote host does to the other path.
LEMMA SendDrain ==
  ASSUME TypeOK, SendBytes
  PROVE  \E n \in 1 .. Len(Live(proxyRead)) :
           /\ toRemote' = toRemote \o SubSeq(Live(proxyRead), 1, n)
           /\ proxyRead' = QvdBufferWrite(proxyRead, n)
           /\ nxRead' = nxRead
<1>1. PICK n \in 1 .. Least(Len(Live(proxyRead)), WindowRoom) :
        /\ toRemote' = toRemote \o SubSeq(Live(proxyRead), 1, n)
        /\ proxyRead' = QvdBufferWrite(proxyRead, n)
  BY DEF SendBytes
<1>2. n \in 1 .. Len(Live(proxyRead))
  BY LiveSeq, SizeAssumption DEF Least, WindowRoom, TypeOK
<1> QED
  BY <1>1, <1>2 DEF SendBytes, nxOut

\* A read into a buffer leaves something to write.
LEMMA ReadReusable ==
  ASSUME NEW b, Sound(b), NEW n \in Nat, NEW k \in 1 .. Room(b)
  PROVE  Reusable(QvdBufferRead(b, NextBytes(n, k)))
<1>1. b.offset \in Nat /\ b.size \in Nat /\ b.offset <= b.size
  BY DEF Sound, QvdBuffers
<1>2. Len(NextBytes(n, k)) = k
  BY DEF NextBytes
<1> QED
  BY <1>1, <1>2 DEF Reusable, QvdBufferRead

LEMMA ToNxStep == TypeOK /\ ToNxInv /\ [Next]_vars => ToNxInv'
<1> SUFFICES ASSUME TypeOK, ToNxInv, [Next]_vars PROVE ToNxInv'
  OBVIOUS
<1>1. /\ Sound(proxyWrite) /\ received \in Nat /\ toNx \in Seq(Nat)
      /\ InOrder(proxyWrite, received, toNx)
  BY DEF TypeOK, ToNxInv, NxGetsRemoteStream
<1>2. CASE RecvBytes
  <2>1. PICK k \in 1 .. Room(proxyWrite) :
          /\ proxyWrite' = QvdBufferRead(proxyWrite, NextBytes(received, k))
          /\ received' = received + k
          /\ toNx' = toNx
    BY <1>2, RecvFill
  <2>2. k \in Nat /\ k <= Room(proxyWrite)
    BY <1>1, BufferSizeAssumption DEF Room, Sound, QvdBuffers
  <2>3. InOrder(proxyWrite', received', toNx')
    BY <1>1, <2>1, <2>2, ReadInOrder
  <2>4. Reusable(proxyWrite')
    BY <1>1, <2>1, ReadReusable
  <2> QED
    BY <2>3, <2>4 DEF ToNxInv, NxGetsRemoteStream, InOrder, Reusable
<1>3. CASE WriteBytes
  <2>1. PICK n \in 1 .. Len(Live(proxyWrite)) :
          /\ toNx' = toNx \o SubSeq(Live(proxyWrite), 1, n)
          /\ proxyWrite' = QvdBufferWrite(proxyWrite, n)
          /\ received' = received
    BY <1>3, WriteDrain
  <2>2. InOrder(proxyWrite', received', toNx')
    BY <1>1, <2>1, WriteInOrder
  <2>3. Reusable(proxyWrite')
    BY <1>1, <2>1, WriteSound
  <2> QED
    BY <2>2, <2>3 DEF ToNxInv, NxGetsRemoteStream, InOrder, Reusable
<1>4. CASE UNCHANGED <<proxyWrite, received, toNx>>
  BY <1>4 DEF ToNxInv, NxGetsRemoteStream, InOrder, Reusable
<1> QED
  BY <1>2, <1>3, <1>4, ToNxFrame

LEMMA ToRemoteStep == TypeOK /\ ToRemoteInv /\ [Next]_vars => ToRemoteInv'
<1> SUFFICES ASSUME TypeOK, ToRemoteInv, [Next]_vars PROVE ToRemoteInv'
  OBVIOUS
<1>1. /\ Sound(proxyRead) /\ nxRead \in Nat /\ toRemote \in Seq(Nat)
      /\ InOrder(proxyRead, nxRead, toRemote)
  BY DEF TypeOK, ToRemoteInv, RemoteGetsNxStream
<1>2. CASE ReadBytes
  <2>1. PICK k \in 1 .. Room(proxyRead) :
          /\ proxyRead' = QvdBufferRead(proxyRead, NextBytes(nxRead, k))
          /\ nxRead' = nxRead + k
          /\ toRemote' = toRemote
    BY <1>2, ReadFill
  <2>2. k \in Nat /\ k <= Room(proxyRead)
    BY <1>1, BufferSizeAssumption DEF Room, Sound, QvdBuffers
  <2>3. InOrder(proxyRead', nxRead', toRemote')
    BY <1>1, <2>1, <2>2, ReadInOrder
  <2>4. Reusable(proxyRead')
    BY <1>1, <2>1, ReadReusable
  <2> QED
    BY <2>3, <2>4 DEF ToRemoteInv, RemoteGetsNxStream, InOrder, Reusable
<1>3. CASE SendBytes
  <2>1. PICK n \in 1 .. Len(Live(proxyRead)) :
          /\ toRemote' = toRemote \o SubSeq(Live(proxyRead), 1, n)
          /\ proxyRead' = QvdBufferWrite(proxyRead, n)
          /\ nxRead' = nxRead
    BY <1>3, SendDrain
  <2>2. InOrder(proxyRead', nxRead', toRemote')
    BY <1>1, <2>1, WriteInOrder
  <2>3. Reusable(proxyRead')
    BY <1>1, <2>1, WriteSound
  <2> QED
    BY <2>2, <2>3 DEF ToRemoteInv, RemoteGetsNxStream, InOrder, Reusable
<1>4. CASE UNCHANGED <<proxyRead, nxRead, toRemote>>
  BY <1>4 DEF ToRemoteInv, RemoteGetsNxStream, InOrder, Reusable
<1> QED
  BY <1>2, <1>3, <1>4, ToRemoteFrame

\* Both streams start empty.
LEMMA StreamInit == Init => ToNxInv /\ ToRemoteInv
  BY DEF Init, ToNxInv, ToRemoteInv, NxGetsRemoteStream, RemoteGetsNxStream, InOrder,
         Reusable, QvdBufferInit

LEMMA StreamInvariant == Spec => [](TypeOK /\ ToNxInv /\ ToRemoteInv)
<1>1. Init => TypeOK /\ ToNxInv /\ ToRemoteInv
  BY TypeInit, StreamInit
<1>2. TypeOK /\ ToNxInv /\ ToRemoteInv /\ [Next]_vars
        => TypeOK' /\ ToNxInv' /\ ToRemoteInv'
  BY TypeStep, ToNxStep, ToRemoteStep
<1> QED
  BY <1>1, <1>2, PTL DEF Spec

\* NX is given the remote host's stream in order, nothing missing or repeated.
THEOREM NxGetsRemoteStreamAlways == Spec => []NxGetsRemoteStream
<1>1. ToNxInv => NxGetsRemoteStream
  BY DEF ToNxInv
<1> QED
  BY <1>1, StreamInvariant, PTL

\* The remote host is given NX's stream in order, nothing missing or repeated.
THEOREM RemoteGetsNxStreamAlways == Spec => []RemoteGetsNxStream
<1>1. ToRemoteInv => RemoteGetsNxStream
  BY DEF ToRemoteInv
<1> QED
  BY <1>1, StreamInvariant, PTL

\* Neither buffer is ever both full and drained, so the relay never hangs on it.
THEOREM NoWedgeAlways == Spec => []NoWedge
<1>1. TypeOK /\ ToNxInv /\ ToRemoteInv => NoWedge
  BY BufferSizeAssumption
  DEF TypeOK, ToNxInv, ToRemoteInv, Reusable, NoWedge, QvdBufferCanRead,
      QvdBufferCanWrite, Sound, QvdBuffers
<1> QED
  BY <1>1, StreamInvariant, PTL

-----------------------------------------------------------------------------
(* The descriptors and the result *)

\* A pass starts with both descriptors open, so an error recorded in result,
\* which always comes with connFd given up, cannot reach the returns of Check.
DescriptorInv ==
  /\ FdClosedOnlyIfPeerGone
  /\ pc = "returned" /\ result = -1 => returned = -1
  /\ result = -1 => connFd = -1
  /\ pc \in {"prepare", "select", "execute", "check", "recv"}
       => connFd > 0 /\ proxyFd > 0

LEMMA DescriptorStep == TypeOK /\ DescriptorInv /\ [Next]_vars => DescriptorInv'
<1> SUFFICES ASSUME TypeOK, DescriptorInv, [Next]_vars PROVE DescriptorInv'
  OBVIOUS
<1> USE FdAssumption DEF DescriptorInv, FdClosedOnlyIfPeerGone
<1>1. /\ pc \in Phases /\ connFd \in {CONN, -1} /\ proxyFd \in {PROXY, -1}
      /\ result \in {0, -1}
  BY DEF TypeOK
<1>2. CASE Select
  BY <1>1, <1>2 DEF Select, PrepareTransport, PrepareNoTransport, SelectReturns,
     SelectFails, fdVars, statusVars, peers
<1>3. CASE ExecuteReturns
  BY <1>1, <1>3 DEF ExecuteReturns, fdVars, statusVars, peers
<1>4. CASE Check
  BY <1>1, <1>4 DEF Check, CheckRetries, CheckFails, CheckEnded, CheckProceeds,
     LoopTest, Return, fdVars, statusVars, peers
<1>5. CASE RecvEnd
  <2>1. ~(Room(proxyWrite) <= 0)
    BY <1>5, BufferSizeAssumption
    DEF RecvEnd, MayRecv, Room, QvdBufferCanRead, TypeOK, Sound, QvdBuffers
  <2> QED
    BY <1>1, <1>5, <2>1 DEF RecvEnd, AtEndOfStream, statusVars, peers
<1>6. CASE Recv /\ ~RecvEnd
  BY <1>1, <1>6 DEF Recv, RecvSkips, RecvBytes, RecvAgain, RecvUnsupported, RecvFails,
     CountUnsupported, AtEndOfStream, Lost, fdVars, statusVars, peers
<1>7. CASE ReadEnds
  <2>1. ~(Room(proxyRead) <= 0)
    BY <1>7, BufferSizeAssumption
    DEF ReadEnds, MayRead, Room, QvdBufferCanRead, TypeOK, Sound, QvdBuffers
  <2> QED
    BY <1>1, <1>7, <2>1 DEF ReadEnds, statusVars, peers
<1>8. CASE Read /\ ~ReadEnds
  BY <1>1, <1>8 DEF Read, ReadSkips, ReadBytes, ReadAgain, fdVars, statusVars, peers
<1>9. CASE Write
  BY <1>1, <1>9 DEF Write, WriteSkips, WriteBytes, WriteAgain, WriteFails, fdVars,
     statusVars, peers
<1>10. CASE Send
  BY <1>1, <1>10 DEF Send, SendSkips, SendBytes, SendAgain, SendUnsupported, SendFails,
     MaySend, CountUnsupported, AtEndOfStream, Lost, LoopTest, Return, fdVars, peers
<1>11. CASE NxStep
  BY <1>1, <1>11 DEF NxStep, NxTakes, NxSends, NxCloses, fdVars, statusVars, peers
<1>12. CASE Environment
  BY <1>1, <1>12 DEF Environment, RemoteSends, RemoteTakes, RemoteGoes,
     qvd_end_connection, fdVars, statusVars, peers
<1>13. CASE UNCHANGED vars
  BY <1>1, <1>13 DEF vars, fdVars, statusVars, peers
<1> QED
  BY <1>2, <1>3, <1>4, <1>5, <1>6, <1>7, <1>8, <1>9, <1>10, <1>11, <1>12, <1>13
  DEF Next, LoopStep

LEMMA DescriptorInvariant == Spec => [](TypeOK /\ DescriptorInv)
<1>1. Init => TypeOK /\ DescriptorInv
  BY TypeInit, FdAssumption
  DEF Init, DescriptorInv, FdClosedOnlyIfPeerGone
<1>2. TypeOK /\ DescriptorInv /\ [Next]_vars => TypeOK' /\ DescriptorInv'
  BY TypeStep, DescriptorStep
<1> QED
  BY <1>1, <1>2, PTL DEF Spec

\* A descriptor is given up only when its peer has gone: a read that returns 0
\* because the buffer is full is never taken for the end of the stream.
THEOREM FdClosedOnlyIfPeerGoneAlways == Spec => []FdClosedOnlyIfPeerGone
<1>1. DescriptorInv => FdClosedOnlyIfPeerGone
  BY DEF DescriptorInv
<1> QED
  BY <1>1, DescriptorInvariant, PTL

\* A receive error is what the function returns.
THEOREM FailureReportedAlways == Spec => FailureReported
<1> DEFINE Kept == result = -1 => result' = -1 /\ (pc' = "returned" => returned' = -1)
<1>1. TypeOK /\ DescriptorInv /\ [Next]_vars => [Kept]_vars
  <2> SUFFICES ASSUME TypeOK, DescriptorInv, [Next]_vars, result = -1
               PROVE  Kept
    OBVIOUS
  <2>1. pc \notin {"prepare", "select", "execute", "check", "recv"} /\ connFd = -1
    BY DEF DescriptorInv
  <2>2. result' = -1
    BY <2>1 DEF Next, LoopStep, NxStep, Environment, Select, Check, Recv, Read, Write,
       Send, vars, statusVars, MaySend, PrepareTransport, PrepareNoTransport,
       SelectReturns, SelectFails, ExecuteReturns, CheckRetries, CheckFails, CheckEnded,
       CheckProceeds, RecvSkips, RecvBytes, RecvEnd, RecvAgain, RecvUnsupported,
       RecvFails, ReadSkips, ReadBytes, ReadAgain, ReadEnds, WriteSkips, WriteBytes,
       WriteAgain, WriteFails, SendSkips, SendBytes, SendAgain, SendUnsupported,
       SendFails, NxTakes, NxSends, NxCloses, RemoteSends, RemoteTakes, RemoteGoes,
       qvd_end_connection
  <2>3. DescriptorInv'
    BY DescriptorStep
  <2> QED
    BY <2>2, <2>3 DEF DescriptorInv
<1> QED
  BY <1>1, DescriptorInvariant, PTL DEF Spec, FailureReported

\* Nothing is received or sent on the connection once it is given up.
THEOREM ConnSilent == Spec => ConnSilentAfterClose
<1>1. TypeOK /\ [Next]_vars => [connFd = -1 => UNCHANGED <<received, toRemote>>]_vars
  <2> SUFFICES ASSUME TypeOK, [Next]_vars, connFd = -1
               PROVE  UNCHANGED <<received, toRemote>>
    OBVIOUS
  <2>1. ~RecvBytes /\ ~SendBytes
    BY DEF RecvBytes, MayRecv, SendBytes, MaySend
  <2> QED
    BY <2>1, ToNxFrame, ToRemoteFrame DEF ReadBytes, WriteBytes, connIn, connOut
<1> QED
  BY <1>1, TypeCorrect, PTL DEF Spec, ConnSilentAfterClose

-----------------------------------------------------------------------------
(* Refinement *)

\* The function does not run on once it has returned.
LEMMA ReturnedStays == pc = "returned" /\ [Next]_vars => UNCHANGED vars
BY DEF Next, LoopStep, NxStep, Environment, Select, Check, Recv, Read, Write, Send,
       Running, PrepareTransport, PrepareNoTransport, SelectReturns,
       SelectFails, ExecuteReturns, CheckRetries, CheckFails, CheckEnded,
       CheckProceeds, RecvSkips, RecvBytes, RecvEnd, RecvAgain, RecvUnsupported,
       RecvFails, ReadSkips, ReadBytes, ReadAgain, ReadEnds, WriteSkips, WriteBytes,
       WriteAgain, WriteFails, SendSkips, SendBytes, SendAgain, SendUnsupported,
       SendFails, NxTakes, NxSends, NxCloses, RemoteSends, RemoteTakes, RemoteGoes,
       qvd_end_connection

\* How many bytes a buffer with room for k more can have taken at the most.
LEMMA FillBound ==
  ASSUME NEW b, Sound(b), NEW n \in Nat, NEW out \in Seq(Nat), InOrder(b, n, out),
         NEW k \in 1 .. Room(b)
  PROVE  k \in 1 .. BUFFER_SIZE /\ n + k <= Len(out) + BUFFER_SIZE
BY BufferSizeAssumption DEF Sound, QvdBuffers, InOrder, Room

\* How many bytes a buffer can give at the most.
LEMMA DrainBound ==
  ASSUME NEW b, Sound(b), NEW taken \in Nat, NEW out \in Seq(Nat),
         InOrder(b, taken, out), NEW n \in 1 .. Len(Live(b))
  PROVE  n \in 1 .. BUFFER_SIZE /\ Len(out) + n <= taken
<1>1. b.offset \in Nat /\ b.size \in Nat /\ b.size <= BUFFER_SIZE
  BY DEF Sound, QvdBuffers
<1>2. n \in Nat /\ n >= 1 /\ n <= b.size - b.offset
  BY <1>1, LiveSeq
<1>3. taken = Len(out) + (b.size - b.offset) /\ Len(out) \in Nat
  BY DEF InOrder
<1> QED
  BY <1>1, <1>2, <1>3, BufferSizeAssumption

\* From the remote host to NX the loop is a bounded pipe.
THEOREM ToNxPipeHolds == Spec => ToNxPipe
<1>1. Init => ToNx!Init
  BY DEF Init, ToNx!Init
<1>2. TypeOK /\ ToNxInv /\ [Next]_vars => [ToNx!Next]_(ToNx!pipeVars)
  <2> SUFFICES ASSUME TypeOK, ToNxInv, [Next]_vars
               PROVE  ToNx!Next \/ UNCHANGED <<received, toNx, pc = "returned">>
    BY DEF ToNx!pipeVars
  <2>1. /\ Sound(proxyWrite) /\ received \in Nat /\ toNx \in Seq(Nat)
        /\ InOrder(proxyWrite, received, toNx)
    BY DEF TypeOK, ToNxInv, NxGetsRemoteStream
  <2>2. CASE RecvBytes
    <3>1. PICK k \in 1 .. Room(proxyWrite) : received' = received + k /\ toNx' = toNx
      BY <2>2, RecvFill
    <3>2. k \in 1 .. BUFFER_SIZE /\ received + k <= Len(toNx) + BUFFER_SIZE
      BY <2>1, FillBound
    <3>3. pc # "returned" /\ pc' # "returned"
      BY <2>2 DEF RecvBytes
    <3>4. ToNx!Accept
      BY <3>1, <3>2, <3>3 DEF ToNx!Accept
    <3> QED
      BY <3>4 DEF ToNx!Next
  <2>3. CASE WriteBytes
    <3>1. PICK n \in 1 .. Len(Live(proxyWrite)) :
            /\ toNx' = toNx \o SubSeq(Live(proxyWrite), 1, n)
            /\ received' = received
      BY <2>3, WriteDrain
    <3>2. n \in 1 .. BUFFER_SIZE /\ Len(toNx) + n <= received
      BY <2>1, DrainBound
    <3>3. SubSeq(Live(proxyWrite), 1, n) = [i \in 1 .. n |-> Len(toNx) + i]
      BY <2>1, WriteInOrder
    <3>4. pc # "returned" /\ (pc' = "returned") \in BOOLEAN
      BY <2>3 DEF WriteBytes
    <3>5. ToNx!Deliver
      BY <3>1, <3>2, <3>3, <3>4 DEF ToNx!Deliver
    <3> QED
      BY <3>5 DEF ToNx!Next
  <2>4. CASE UNCHANGED <<proxyWrite, received, toNx>>
    BY <2>4, ReturnedStays DEF vars, ToNx!Next, ToNx!Shut
  <2> QED
    BY <2>2, <2>3, <2>4, ToNxFrame
<1> QED
  BY <1>1, <1>2, StreamInvariant, PTL DEF Spec, ToNxPipe, ToNx!Spec

\* From NX to the remote host the loop is a bounded pipe.
THEOREM ToRemotePipeHolds == Spec => ToRemotePipe
<1>1. Init => ToRemote!Init
  BY DEF Init, ToRemote!Init
<1>2. TypeOK /\ ToRemoteInv /\ [Next]_vars => [ToRemote!Next]_(ToRemote!pipeVars)
  <2> SUFFICES ASSUME TypeOK, ToRemoteInv, [Next]_vars
               PROVE  ToRemote!Next \/ UNCHANGED <<nxRead, toRemote, pc = "returned">>
    BY DEF ToRemote!pipeVars
  <2>1. /\ Sound(proxyRead) /\ nxRead \in Nat /\ toRemote \in Seq(Nat)
        /\ InOrder(proxyRead, nxRead, toRemote)
    BY DEF TypeOK, ToRemoteInv, RemoteGetsNxStream
  <2>2. CASE ReadBytes
    <3>1. PICK k \in 1 .. Room(proxyRead) : nxRead' = nxRead + k /\ toRemote' = toRemote
      BY <2>2, ReadFill
    <3>2. k \in 1 .. BUFFER_SIZE /\ nxRead + k <= Len(toRemote) + BUFFER_SIZE
      BY <2>1, FillBound
    <3>3. pc # "returned" /\ pc' # "returned"
      BY <2>2 DEF ReadBytes
    <3>4. ToRemote!Accept
      BY <3>1, <3>2, <3>3 DEF ToRemote!Accept
    <3> QED
      BY <3>4 DEF ToRemote!Next
  <2>3. CASE SendBytes
    <3>1. PICK n \in 1 .. Len(Live(proxyRead)) :
            /\ toRemote' = toRemote \o SubSeq(Live(proxyRead), 1, n)
            /\ nxRead' = nxRead
      BY <2>3, SendDrain
    <3>2. n \in 1 .. BUFFER_SIZE /\ Len(toRemote) + n <= nxRead
      BY <2>1, DrainBound
    <3>3. SubSeq(Live(proxyRead), 1, n) = [i \in 1 .. n |-> Len(toRemote) + i]
      BY <2>1, WriteInOrder
    <3>4. pc # "returned" /\ (pc' = "returned") \in BOOLEAN
      BY <2>3 DEF SendBytes
    <3>5. ToRemote!Deliver
      BY <3>1, <3>2, <3>3, <3>4 DEF ToRemote!Deliver
    <3> QED
      BY <3>5 DEF ToRemote!Next
  <2>4. CASE UNCHANGED <<proxyRead, nxRead, toRemote>>
    BY <2>4, ReturnedStays DEF vars, ToRemote!Next, ToRemote!Shut
  <2> QED
    BY <2>2, <2>3, <2>4, ToRemoteFrame
<1> QED
  BY <1>1, <1>2, StreamInvariant, PTL DEF Spec, ToRemotePipe, ToRemote!Spec

-----------------------------------------------------------------------------
(* What _qvd_proxy_connect sees of the loop *)

\* The loop as one step of a connection, that shares the request to end with it.
InConnect == INSTANCE Connect WITH
  HOME <- "unset", APPDATA <- "unset", Directories <- {},
  step <- IF pc = "returned" THEN "close" ELSE "relay",
  result <- IF pc = "returned" THEN returned ELSE 0,
  home <- "unset", nx_home <- "unset", home_at_start <- "unset", connect_only <- TRUE,
  pairs <- 0, fds <- {}, nx <- {}

\* The loop implements the step Connect takes for it: it goes on unseen, whatever
\* it receives and sends, until it returns 0, 1 or -1, and it neither makes nor
\* forgets a request to end.
THEOREM ImplementsConnect ==
  Spec => [][InConnect!LoopReturns \/ InConnect!qvd_end_connection]_(InConnect!connectVars)
<1>1. TypeOK /\ TypeOK' /\ [Next]_vars =>
        [InConnect!LoopReturns \/ InConnect!qvd_end_connection]_(InConnect!connectVars)
  <2> SUFFICES ASSUME TypeOK, TypeOK', [Next]_vars
               PROVE  \/ InConnect!LoopReturns \/ InConnect!qvd_end_connection
                      \/ UNCHANGED InConnect!connectVars
    OBVIOUS
  <2> USE DEF InConnect!connectVars, InConnect!homeVars, InConnect!socketVars
  <2>1. CASE pc = "returned"
    <3>1. UNCHANGED vars
      BY <2>1, ReturnedStays
    <3>2. pc' = pc /\ returned' = returned /\ end_connection' = end_connection
      BY <3>1 DEF vars, statusVars
    <3> QED
      BY <3>2
  <2>2. CASE pc # "returned" /\ qvd_end_connection
    BY <2>2 DEF qvd_end_connection, InConnect!qvd_end_connection
  <2>3. CASE pc # "returned" /\ end_connection' = end_connection /\ pc' = "returned"
    <3>1. returned' \in {0, 1, -1}
      BY DEF TypeOK
    <3> QED
      BY <2>3, <3>1 DEF InConnect!LoopReturns
  <2>4. CASE pc # "returned" /\ end_connection' = end_connection /\ pc' # "returned"
    BY <2>4
  <2>5. qvd_end_connection \/ end_connection' = end_connection
    BY DEF Next, LoopStep, NxStep, Environment, Select, Check, Recv, Read, Write, Send,
       PrepareTransport, PrepareNoTransport, SelectReturns, SelectFails, ExecuteReturns,
       CheckRetries, CheckFails, CheckEnded, CheckProceeds, RecvSkips, RecvBytes, RecvEnd,
       RecvAgain, RecvUnsupported, RecvFails, ReadSkips, ReadBytes, ReadAgain, ReadEnds,
       WriteSkips, WriteBytes, WriteAgain, WriteFails, SendSkips, SendBytes, SendAgain,
       SendUnsupported, SendFails, NxTakes, NxSends, NxCloses, RemoteSends, RemoteTakes,
       RemoteGoes, vars
  <2> QED
    BY <2>1, <2>2, <2>3, <2>4, <2>5
<1> QED
  BY <1>1, TypeInit, TypeStep, PTL DEF Spec
=============================================================================
