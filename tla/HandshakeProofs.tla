-------------------------- MODULE HandshakeProofs --------------------------
(***************************************************************************)
(* Proofs about Handshake, for every answer that fits the buffer, however  *)
(* it is cut into pieces, every limit, and whatever was in the buffer and  *)
(* in content_length before, answers to earlier handshakes among it.       *)
(*                                                                         *)
(* The argument is one about the buffer (VisibleReceived): it may hold any *)
(* number of earlier answers, but each receive of the outer loop ends what *)
(* it stores with a zero, and so what the searches see when they look is   *)
(* no more than that receive brought.                                      *)
(***************************************************************************)
EXTENDS Handshake, TLAPS, SequenceTheorems

\* TypeOK with what bounds the clock and the buffer: a select begins within the
\* limit, give or take a tick, and no more is in the buffer than was received.
TypeInv ==
  /\ TypeOK
  /\ pc = "select" => elapsed <= LIMIT + 1
  /\ bytes_received <= taken

\* When the outer loop searches the buffer, all it can see was received in this call.
VisibleReceived ==
  pc = "inspect" => \A i \in Visible(data) : data[i] \in TokensReceived

StatusInv == VisibleReceived /\ UpgradedOnlyBy101 /\ RefusedOnlyByFinal

-----------------------------------------------------------------------------
(* Lemmas *)

\* A piece that curl returns is the next part of what the server has sent.
LEMMA PieceFacts ==
  ASSUME TypeOK, NEW piece \in Pieces
  PROVE  /\ piece \in Seq(Tokens \ {"nul"})
         /\ Len(piece) \in Nat /\ taken + Len(piece) <= sent
         /\ \A i \in 1 .. Len(piece) : piece[i] = script[taken + i]
<1>1. PICK k \in 0 .. sent - taken : piece = SubSeq(script, taken + 1, taken + k)
  BY DEF Pieces, TypeOK
<1>2. /\ script \in Seq(Tokens \ {"nul"}) /\ Len(script) \in Nat
      /\ taken \in Nat /\ sent \in Nat /\ sent <= Len(script)
  BY ScriptAssumption DEF TypeOK
<1>3. k \in Nat /\ taken + k <= Len(script) /\ taken + k <= sent
  BY <1>1, <1>2
<1>4. /\ Len(piece) = k
      /\ \A i \in 1 .. k : piece[i] = script[taken + i]
  BY <1>1, <1>2, <1>3
<1>5. piece \in Seq(Tokens \ {"nul"})
  BY <1>1, <1>2, <1>3
<1> QED
  BY <1>3, <1>4, <1>5

\* What a store leaves at each place.
LEMMA StoreFacts ==
  ASSUME TypeOK, NEW at \in Nat, NEW piece \in Seq(Tokens)
  PROVE  /\ Store(at, piece) \in [1 .. BUFFER_TOKENS -> Tokens]
         /\ \A i \in 1 .. BUFFER_TOKENS :
              \/ Store(at, piece)[i] = data[i]
              \/ \E j \in 1 .. Len(piece) : Store(at, piece)[i] = piece[j]
<1>1. data \in [1 .. BUFFER_TOKENS -> Tokens] /\ Len(piece) \in Nat
  BY DEF TypeOK
<1>2. ASSUME NEW i \in 1 .. BUFFER_TOKENS, i \in at + 1 .. at + Len(piece)
      PROVE  i - at \in 1 .. Len(piece) /\ piece[i - at] \in Tokens
  BY <1>1, <1>2, ScriptAssumption
<1> QED
  BY <1>1, <1>2 DEF Store

-----------------------------------------------------------------------------
(* Types *)

LEMMA TypeStep == TypeInv /\ [Next]_vars => TypeInv'
<1> SUFFICES ASSUME TypeInv, [Next]_vars PROVE TypeInv'
  OBVIOUS
<1> USE LimitAssumption
        DEF TypeInv, TypeOK, OuterPhases, InnerPhases, client, peer, Return
<1>1. CASE RequestSent
  BY <1>1 DEF RequestSent
<1>2. CASE RequestFails
  BY <1>2 DEF RequestFails
<1>3. CASE CheckClock
  BY <1>3 DEF CheckClock
<1>4. CASE SelectReady
  BY <1>4 DEF SelectReady
<1>5. CASE SelectTimesOut
  <2>1. elapsed \in 0 .. LIMIT + 2 /\ elapsed <= LIMIT + 1 /\ elapsed' = elapsed + 1
    BY <1>5 DEF SelectTimesOut
  <2>2. elapsed' \in 0 .. LIMIT + 2
    BY <2>1
  <2> QED
    BY <1>5, <2>2 DEF SelectTimesOut
<1>6. CASE RecvAgain
  BY <1>6 DEF RecvAgain
<1>7. CASE RecvFails
  BY <1>7 DEF RecvFails
<1>8. CASE RecvPiece
  <2>1. PICK piece \in Pieces : /\ data' = Store(0, Append(piece, "nul"))
                                /\ bytes_received' = Len(piece)
                                /\ taken' = taken + Len(piece)
    BY <1>8 DEF RecvPiece
  <2>2. /\ piece \in Seq(Tokens \ {"nul"})
        /\ Len(piece) \in Nat /\ taken + Len(piece) <= sent
    BY PieceFacts
  <2>3. Append(piece, "nul") \in Seq(Tokens)
    BY <2>2 DEF Tokens
  <2>4. data' \in [1 .. BUFFER_TOKENS -> Tokens]
    BY <2>1, <2>3, StoreFacts
  <2>5. taken' \in 0 .. sent /\ bytes_received' <= taken'
        /\ bytes_received' \in 0 .. BUFFER_TOKENS
    BY <2>1, <2>2, ScriptAssumption
  <2> QED
    BY <1>8, <2>4, <2>5 DEF RecvPiece
<1>9. CASE InspectUpgrade
  BY <1>9 DEF InspectUpgrade
<1>10. CASE InspectWaits
  BY <1>10 DEF InspectWaits
<1>11. CASE InspectFinal
  <2>1. content_length' \in UNSET \cup {-1, BODY * CONTENT_LENGTH}
    BY <1>11 DEF InspectFinal, ParsedLength
  <2> QED
    BY <1>11, <2>1 DEF InspectFinal
<1>12. CASE InnerSelectReady
  BY <1>12 DEF InnerSelectReady
<1>13. CASE InnerRecvFails
  BY <1>13 DEF InnerRecvFails
<1>14. CASE InnerRecvPiece
  <2>1. PICK piece \in Pieces : /\ data' = Store(bytes_received, piece)
                                /\ bytes_received' = bytes_received + Len(piece)
                                /\ taken' = taken + Len(piece)
    BY <1>14 DEF InnerRecvPiece
  <2>2. /\ piece \in Seq(Tokens \ {"nul"})
        /\ Len(piece) \in Nat /\ taken + Len(piece) <= sent
    BY PieceFacts
  <2>3. piece \in Seq(Tokens)
    BY <2>2 DEF Tokens
  <2>4. data' \in [1 .. BUFFER_TOKENS -> Tokens]
    BY <2>1, <2>3, StoreFacts
  <2>5. taken' \in 0 .. sent /\ bytes_received' <= taken'
        /\ bytes_received' \in 0 .. BUFFER_TOKENS
    BY <2>1, <2>2, ScriptAssumption
  <2>6. \/ pc' \in {"crashed", "innerSelect"} /\ returned' = returned
        \/ pc' = "returned" /\ returned' = 8
    BY <1>14 DEF InnerRecvPiece
  <2> QED
    BY <1>14, <2>4, <2>5, <2>6 DEF InnerRecvPiece
<1>15. CASE InnerSelectInterrupted
  BY <1>15 DEF InnerSelectInterrupted
<1>16. CASE ServerSends
  BY <1>16, ScriptAssumption DEF ServerSends
<1>17. CASE ServerGoes
  BY <1>17 DEF ServerGoes
<1>18. CASE Tick
  BY <1>18 DEF Tick
<1>19. CASE UNCHANGED vars
  BY <1>19 DEF vars
<1>20. CASE SelectInterrupted
  BY <1>20 DEF SelectInterrupted
<1> QED
  BY <1>1, <1>2, <1>3, <1>4, <1>5, <1>6, <1>7, <1>8, <1>9, <1>10, <1>11, <1>12,
     <1>13, <1>14, <1>15, <1>16, <1>17, <1>18, <1>19, <1>20
  DEF Next, ClientStep, Interrupted, Outer, Inner

LEMMA TypeInit == Init => TypeInv
<1> SUFFICES ASSUME Init PROVE TypeInv
  OBVIOUS
<1>1. data \in [1 .. BUFFER_TOKENS -> Tokens]
  <2>1. PICK left \in LEFT :
          data = [i \in 1 .. BUFFER_TOKENS |-> IF i \in 1 .. Len(left) THEN left[i] ELSE "nul"]
    BY DEF Init, Leftovers
  <2>2. \A i \in 1 .. Len(left) : left[i] \in Tokens
    BY LimitAssumption
  <2> QED
    BY <2>1, <2>2 DEF Tokens
<1>2. /\ script \in Scripts /\ sent \in 0 .. Len(script) /\ taken \in 0 .. sent
      /\ bytes_received \in 0 .. BUFFER_TOKENS /\ bytes_received <= taken
  BY ScriptAssumption DEF Init
<1>3. elapsed \in 0 .. LIMIT + 2
  BY LimitAssumption DEF Init
<1> QED
  BY <1>1, <1>2, <1>3 DEF Init, TypeInv, TypeOK

\* Types, and the bound on the clock: the wait for an answer overruns its limit by
\* no more than the select it is in.
THEOREM TypeCorrect == Spec => []TypeOK
<1>1. TypeInv => TypeOK
  BY DEF TypeInv
<1> QED
  BY <1>1, TypeInit, TypeStep, PTL DEF Spec

-----------------------------------------------------------------------------
(* The status *)

\* What was received stays received.
LEMMA ReceivedGrows ==
  ASSUME TypeInv, TypeInv', script' = script, taken' >= taken
  PROVE  TokensReceived \subseteq TokensReceived'
BY DEF TypeInv, TypeOK, TokensReceived

\* The zero behind a piece hides what is left in the buffer: after a receive of
\* the outer loop only what that receive brought is visible.
LEMMA PieceVisible ==
  ASSUME TypeInv, NEW piece \in Pieces, data' = Store(0, Append(piece, "nul")),
         taken' = taken + Len(piece), script' = script
  PROVE  \A i \in Visible(data') : data'[i] \in TokensReceived'
<1>1. /\ piece \in Seq(Tokens \ {"nul"})
      /\ Len(piece) \in Nat /\ taken + Len(piece) <= sent
      /\ \A i \in 1 .. Len(piece) : piece[i] = script[taken + i]
  BY PieceFacts DEF TypeInv
<1>2. /\ taken \in Nat /\ sent \in Nat /\ sent <= Len(script) /\ Len(script) \in Nat
      /\ Len(script) < BUFFER_TOKENS /\ BUFFER_TOKENS \in Nat
  BY ScriptAssumption DEF TypeInv, TypeOK
<1>3. Len(piece) + 1 \in 1 .. BUFFER_TOKENS
  BY <1>1, <1>2
<1>4. /\ Len(Append(piece, "nul")) = Len(piece) + 1
      /\ Append(piece, "nul")[Len(piece) + 1] = "nul"
      /\ \A i \in 1 .. Len(piece) : Append(piece, "nul")[i] = piece[i]
  BY <1>1
<1>5. \A i \in 1 .. Len(piece) + 1 : data'[i] = Append(piece, "nul")[i]
  <2> TAKE i \in 1 .. Len(piece) + 1
  <2>1. i \in Nat /\ i >= 1 /\ i <= Len(piece) + 1 /\ i <= BUFFER_TOKENS
    BY <1>1, <1>2, <1>3
  <2>2. i \in 1 .. BUFFER_TOKENS /\ i - 0 = i
    BY <1>2, <2>1
  <2>3. i \in 0 + 1 .. 0 + (Len(piece) + 1)
    BY <1>1, <2>1
  <2> QED
    BY <1>4, <2>2, <2>3 DEF Store
<1>6. data'[Len(piece) + 1] = "nul"
  BY <1>1, <1>4, <1>5
<1> TAKE i \in Visible(data')
<1>7. i \in 1 .. BUFFER_TOKENS /\ \A j \in 1 .. i : data'[j] # "nul"
  BY DEF Visible
<1>8. i \in 1 .. Len(piece)
  <2>1. ~(Len(piece) + 1 \in 1 .. i)
    BY <1>6, <1>7
  <2> QED
    BY <1>1, <1>2, <1>7, <2>1
<1>9. data'[i] = script[taken + i]
  BY <1>1, <1>4, <1>5, <1>8
<1>10. taken + i \in 1 .. taken'
  BY <1>1, <1>2, <1>8
<1> QED
  BY <1>9, <1>10 DEF TokensReceived

\* A status that the outer loop finds was received.
LEMMA StatusReceived ==
  ASSUME VisibleReceived, pc = "inspect", NEW status, HasStatus(data, status)
  PROVE  status \in TokensReceived
BY DEF VisibleReceived, HasStatus

LEMMA StatusStep == TypeInv /\ StatusInv /\ [Next]_vars => StatusInv'
<1> SUFFICES ASSUME TypeInv, StatusInv, [Next]_vars PROVE StatusInv'
  OBVIOUS
<1>1. TypeInv'
  BY TypeStep
<1> USE DEF StatusInv, UpgradedOnlyBy101, RefusedOnlyByFinal, OuterPhases, InnerPhases,
            client, peer, Return
<1>2. CASE RecvPiece
  <2>1. VisibleReceived'
    BY <1>2, PieceVisible DEF RecvPiece, VisibleReceived
  <2> QED
    BY <1>2, <2>1 DEF RecvPiece
<1>3. CASE InnerRecvPiece
  <2>1. PICK piece \in Pieces : taken' = taken + Len(piece)
    BY <1>3 DEF InnerRecvPiece
  <2>2. taken' >= taken /\ script' = script
    BY <1>3, <2>1, PieceFacts DEF InnerRecvPiece, TypeInv, TypeOK
  <2>3. TokensReceived \subseteq TokensReceived'
    BY <1>1, <2>2, ReceivedGrows
  <2>4. pc' \in {"innerSelect", "crashed"} \/ (pc' = "returned" /\ returned' = 8)
    BY <1>3 DEF InnerRecvPiece
  <2>5. "final" \in TokensReceived
    BY <1>3 DEF InnerRecvPiece
  <2> QED
    BY <2>3, <2>4, <2>5 DEF VisibleReceived
<1>4. ASSUME UNCHANGED <<data, script, taken>>
      PROVE  TokensReceived' = TokensReceived /\ Visible(data') = Visible(data)
  BY <1>4 DEF TokensReceived, Visible
<1>5. CASE InspectUpgrade
  BY <1>4, <1>5, StatusReceived DEF VisibleReceived, InspectUpgrade, Upgraded, Statuses
<1>6. CASE InspectFinal
  BY <1>4, <1>6, StatusReceived DEF VisibleReceived, InspectFinal, Refused, Statuses
<1>7. CASE RequestSent \/ RequestFails
  BY <1>4, <1>7 DEF VisibleReceived, RequestSent, RequestFails
<1>8. CASE CheckClock \/ SelectReady \/ SelectTimesOut \/ SelectInterrupted
  BY <1>4, <1>8 DEF VisibleReceived, CheckClock, SelectReady, SelectTimesOut, SelectInterrupted
<1>9. CASE RecvAgain \/ RecvFails \/ InspectWaits
  BY <1>4, <1>9 DEF VisibleReceived, RecvAgain, RecvFails, InspectWaits
<1>10. CASE InnerSelectReady \/ InnerSelectInterrupted \/ InnerRecvFails
  BY <1>4, <1>10 DEF VisibleReceived, InnerSelectReady, InnerSelectInterrupted, InnerRecvFails
<1>11. CASE ServerSends \/ ServerGoes \/ Tick
  BY <1>4, <1>11 DEF VisibleReceived, ServerSends, ServerGoes, Tick
<1>12. CASE UNCHANGED vars
  BY <1>4, <1>12 DEF VisibleReceived, vars
<1> QED
  BY <1>2, <1>3, <1>5, <1>6, <1>7, <1>8, <1>9, <1>10, <1>11, <1>12
  DEF Next, ClientStep, Interrupted, Outer, Inner

LEMMA StatusInit == Init => StatusInv
BY DEF Init, StatusInv, VisibleReceived, UpgradedOnlyBy101, RefusedOnlyByFinal, InnerPhases

\* The relay is started only if the server upgraded the connection in this call,
\* although an upgrade of an earlier one may be in the buffer (LEFT is any set of
\* sequences of tokens).
THEOREM UpgradedOnlyBy101Always == Spec => []UpgradedOnlyBy101
<1>1. StatusInv => UpgradedOnlyBy101
  BY DEF StatusInv
<1> QED
  BY <1>1, TypeInit, TypeStep, StatusInit, StatusStep, PTL DEF Spec

\* A refusal is reported, and the rest of one waited for, only if the server
\* refused.
THEOREM RefusedOnlyByFinalAlways == Spec => []RefusedOnlyByFinal
<1>1. StatusInv => RefusedOnlyByFinal
  BY DEF StatusInv
<1> QED
  BY <1>1, TypeInit, TypeStep, StatusInit, StatusStep, PTL DEF Spec

-----------------------------------------------------------------------------
(* What qvd_connect_to_vm sees of the handshake *)

\* The handshake as one step of a connection: what Connect does not share with it
\* stands still.
InConnect == INSTANCE Connect WITH
  HOME <- "unset", APPDATA <- "unset", Directories <- {},
  step <- IF pc = "returned" THEN (IF returned = 0 THEN "socket" ELSE "idle")
          ELSE IF pc = "crashed" THEN "crashed" ELSE "handshake",
  result <- IF pc = "returned" THEN returned ELSE 0,
  home <- "unset", nx_home <- "unset", home_at_start <- "unset", connect_only <- TRUE,
  end_connection <- FALSE, pairs <- 0, fds <- {}, nx <- {}

\* Nothing is received before the request is sent.
QuietInv == pc = "perform" => taken = 0

\* How the function may go on, return or die.
LEMMA HandshakeFrame ==
  TypeInv /\ StatusInv /\ QuietInv /\ [Next]_vars =>
    /\ QuietInv'
    /\ \/ UNCHANGED <<pc, returned>>
       \/ ~Ended /\ ~Ended'
       \/ ~Ended /\ pc' = "crashed"
       \/ /\ ~Ended /\ pc' = "returned" /\ returned' \in 0 .. 8
          /\ InConnect!HandshakeOutcome(returned', taken > 0)
<1> SUFFICES ASSUME TypeInv, StatusInv, QuietInv, [Next]_vars
             PROVE  /\ QuietInv'
                    /\ \/ UNCHANGED <<pc, returned>>
                       \/ ~Ended /\ ~Ended'
                       \/ ~Ended /\ pc' = "crashed"
                       \/ /\ ~Ended /\ pc' = "returned" /\ returned' \in 0 .. 8
                          /\ InConnect!HandshakeOutcome(returned', taken > 0)
  OBVIOUS
<1>1. taken \in Nat /\ (taken = 0 => TokensReceived = {})
  BY DEF TypeInv, TypeOK, TokensReceived
<1> USE DEF QuietInv, Ended, Return, InConnect!HandshakeOutcome, client, peer
<1>2. CASE RequestSent \/ RequestFails
  BY <1>1, <1>2 DEF RequestSent, RequestFails
<1>3. CASE CheckClock \/ SelectReady \/ SelectTimesOut \/ SelectInterrupted
  BY <1>3 DEF CheckClock, SelectReady, SelectTimesOut, SelectInterrupted
<1>4. CASE RecvAgain \/ RecvFails \/ RecvPiece \/ InspectWaits \/ InspectFinal
  BY <1>4 DEF RecvAgain, RecvFails, RecvPiece, InspectWaits, InspectFinal
<1>5. CASE InspectUpgrade
  <2>1. "101" \in TokensReceived
    BY <1>5, StatusReceived DEF InspectUpgrade, Upgraded, Statuses, StatusInv
  <2> QED
    BY <1>1, <1>5, <2>1 DEF InspectUpgrade
<1>6. CASE InnerSelectReady \/ InnerSelectInterrupted
  BY <1>6 DEF InnerSelectReady, InnerSelectInterrupted
<1>7. CASE InnerRecvFails \/ InnerRecvPiece
  <2>1. "final" \in TokensReceived /\ pc = "innerRecv"
    BY <1>7 DEF InnerRecvFails, InnerRecvPiece, StatusInv, RefusedOnlyByFinal, InnerPhases
  <2>2. pc' \in {"innerSelect", "crashed"} \/ (pc' = "returned" /\ returned' \in {7, 8})
    BY <1>7 DEF InnerRecvFails, InnerRecvPiece
  <2> QED
    BY <1>1, <2>1, <2>2
<1>8. CASE ServerSends \/ ServerGoes \/ Tick \/ UNCHANGED vars
  BY <1>8 DEF ServerSends, ServerGoes, Tick, vars
<1> QED
  BY <1>2, <1>3, <1>4, <1>5, <1>6, <1>7, <1>8 DEF Next, ClientStep, Interrupted, Outer, Inner

\* The handshake implements the step Connect takes for it: it goes on unseen until
\* it returns one of the values of HandshakeOutcome, having received something or
\* not as that says, or dies.
THEOREM ImplementsConnect ==
  Spec => [][InConnect!HandshakeReturns(taken > 0) \/ InConnect!HandshakeCrashes]_(InConnect!connectVars)
<1>1. Init => QuietInv
  BY DEF Init, QuietInv
<1>2. TypeInv /\ StatusInv /\ QuietInv /\ [Next]_vars =>
        [InConnect!HandshakeReturns(taken > 0) \/ InConnect!HandshakeCrashes]_(InConnect!connectVars)
  <2> SUFFICES ASSUME TypeInv, StatusInv, QuietInv, [Next]_vars
               PROVE  \/ InConnect!HandshakeReturns(taken > 0) \/ InConnect!HandshakeCrashes
                      \/ UNCHANGED InConnect!connectVars
    OBVIOUS
  <2> USE DEF Ended, InConnect!connectVars, InConnect!homeVars, InConnect!socketVars
  <2>1. CASE UNCHANGED <<pc, returned>> \/ (~Ended /\ ~Ended')
    BY <2>1
  <2>2. CASE ~Ended /\ pc' = "crashed"
    BY <2>2 DEF InConnect!HandshakeCrashes
  <2>3. CASE /\ ~Ended /\ pc' = "returned" /\ returned' \in 0 .. 8
             /\ InConnect!HandshakeOutcome(returned', taken > 0)
    BY <2>3 DEF InConnect!HandshakeReturns, InConnect!Returns
  <2> QED
    BY <2>1, <2>2, <2>3, HandshakeFrame
<1>3. TypeInv /\ StatusInv /\ QuietInv /\ [Next]_vars => QuietInv'
  BY HandshakeFrame
<1> QED
  BY <1>1, <1>2, <1>3, TypeInit, TypeStep, StatusInit, StatusStep, PTL DEF Spec
=============================================================================
