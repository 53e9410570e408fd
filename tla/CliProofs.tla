----------------------------- MODULE CliProofs -----------------------------
(***************************************************************************)
(* Proofs about Cli, for every set of options, whatever the user types and *)
(* whatever the server answers.                                            *)
(*                                                                         *)
(* main only makes steps of Client, but for the two paths on which it      *)
(* forgets the handle (CliStep).  So what ClientProofs shows of the        *)
(* library still holds, and four parts of an invariant say what main adds: *)
(* what it connects to (ChosenInv), what the response buffer holds when it *)
(* makes a request (RoomInv), what it has not freed (LeakInv), and the log *)
(* (LogInv).                                                               *)
(***************************************************************************)
EXTENDS Cli, ClientProofs

\* The library's part of a state of the client.
LibraryInv == ControlInv /\ BufferInv /\ ListInv

\* Where main is, and the library with it: it does nothing while a call runs, and
\* a connection or a request is under way only where main waits for it.
PlaceInv ==
  /\ options \in Options /\ round \in {1, 2}
  /\ where \in {"params", "init", "options", "list", "listing", "chosen", "stopping",
                "connecting", "free", "return", "exited", "crashed"}
  /\ where \in {"params", "init", "return", "exited"} => ~handle
  /\ pc \in {"list", "parse", "malloc", "append"} => where = "listing"
  /\ pc = "stop" => where = "stopping"
  /\ where = "chosen" => Idle

\* What main goes by is the list it was given, which nothing changes from the
\* choice to the connection.
Listing == vm_id = options.preselectedvm \/ (options.preselectedvm = 0 /\ vm_id \in ListedIds)

ChosenInv == where \in {"chosen", "stopping", "connecting"} => Listing

\* A list is asked for with an empty buffer and a machine is stopped with one
\* within bounds, since the list has been returned.
RoomInv ==
  /\ where \in {"options", "list"} \/ pc = "list" => buffer.size = 0
  /\ where = "listing" /\ (pc \in {"parse", "malloc", "append"} \/ returned = "list")
       => buffer.size <= BUFFER_SIZE
  /\ where = "chosen" \/ pc = "stop" => buffer.size <= BUFFER_SIZE
  /\ NoOverrun

\* A call of qvd_connection leaves at most one handle behind, and only on the two
\* paths that forget it.
Forgets == options.only_list_of_vm \/ options.preselectedvm < 0

LeakInv ==
  ~starved =>
    curls <= (IF handle THEN 1 ELSE 0)
             + (IF ~Forgets THEN 0
                ELSE IF where \in {"return", "exited"} THEN round ELSE round - 1)

\* While there is a level that is not negative, no message initialises the log: with
\* -d that is from the first one on, which comes before any message, and without it
\* from the first message on, unless QVD_DEBUG is negative.
LogInv ==
  /\ level \in Int /\ debug_flag \in Int /\ opened \in Nat /\ given \in Nat
  /\ level > 0 => debug_file # "null"
  /\ given > 0 => level >= 0 /\ opened <= given
  /\ given = 0 /\ debug_flag >= 0 => opened <= 1 /\ (level < 0 => opened = 0)
  /\ where = "params" /\ given = 0 => level < 0 /\ opened = 0

-----------------------------------------------------------------------------
(* The library under main *)

ForgetsHandle ==
  /\ handle' = FALSE
  /\ UNCHANGED <<pc, calls, curls, bodyVars, certVars, payment_required, listVars, returned,
                 connectVars>>

\* Every step of main is a step of Client, leaves it alone, or forgets the handle.
LEMMA CliStep ==
  ASSUME PlaceInv, [CliNext]_allVars
  PROVE  [Next]_vars \/ ((ListOnly \/ IdIsNegative) /\ ForgetsHandle)
<1>1. CASE Initialise
  BY <1>1 DEF Initialise, Next, Create
<1>2. CASE SetOptions
  <2>1. options.cert \in BOOLEAN
    BY OptionsAssumption DEF PlaceInv
  <2>2. PICK enable \in BOOLEAN : qvd_set_cert_files(enable)
    BY <1>2, <2>1 DEF SetOptions
  <2> QED
    BY <2>2 DEF Next, Set
<1>3. CASE List \/ Stop
  BY <1>3 DEF List, Stop, Next, Request
<1>4. CASE LibraryGoesOn
  BY <1>4 DEF LibraryGoesOn, Next, Library
<1>5. CASE ConnectToChosen \/ Free
  BY <1>5 DEF ConnectToChosen, Free, Next
<1>6. CASE ListOnly \/ IdIsNegative
  BY <1>6 DEF ListOnly, IdIsNegative, ForgetsHandle
<1>7. CASE \/ parse_params \/ ListFails \/ ListIsEmpty \/ HeadIsMissing
           \/ Choose \/ Connected \/ ConnectionReturns \/ UNCHANGED allVars
  <2>1. UNCHANGED vars
    BY <1>7 DEF parse_params, DebugOption, ParamsAccepted, ParamsRejected,
       ListFails, ListIsEmpty, HeadIsMissing,
       Choose, Connected, ConnectionReturns, allVars
  <2> QED
    BY <2>1
<1> QED
  BY <1>1, <1>2, <1>3, <1>4, <1>5, <1>6, <1>7 DEF CliNext, qvd_connection

LEMMA LibraryStep == PlaceInv /\ LibraryInv /\ [CliNext]_allVars => LibraryInv'
<1> SUFFICES ASSUME PlaceInv, LibraryInv, [CliNext]_allVars PROVE LibraryInv'
  OBVIOUS
<1>1. CASE [Next]_vars
  BY <1>1, ControlStep, BufferStep, ListStep DEF LibraryInv
<1>2. CASE (ListOnly \/ IdIsNegative) /\ ForgetsHandle
  <2>1. /\ ~handle' /\ handle' \in BOOLEAN
        /\ UNCHANGED <<pc, calls, curls, bodyVars, certVars, payment_required, listVars,
                       returned, connectVars>>
    BY <1>2, Zenon DEF ForgetsHandle
  <2>2. pc \notin Requesting /\ step = "idle"
    <3>1. CASE ListOnly
      BY <3>1 DEF ListOnly, HasMachines, Idle, Requesting
    <3>2. CASE IdIsNegative
      BY <3>2 DEF IdIsNegative, PlaceInv, Idle, Requesting
    <3> QED
      BY <1>2, <3>1, <3>2
  <2>3. ControlInv'
    BY <2>1, <2>2 DEF LibraryInv, ControlInv, certVars, bodyVars, listVars, connectVars, homeVars
  <2>4. BufferInv'
    BY <2>1 DEF LibraryInv, BufferInv, bodyVars, listVars, connectVars
  <2>5. ListInv'
    BY <2>1 DEF LibraryInv, ListInv, ListAlive, WalksAList, listVars
  <2> QED
    BY <2>3, <2>4, <2>5 DEF LibraryInv
<1> QED
  BY <1>1, <1>2, CliStep

LEMMA PlaceStep == PlaceInv /\ [CliNext]_allVars => PlaceInv'
<1> SUFFICES ASSUME PlaceInv, [CliNext]_allVars PROVE PlaceInv'
  OBVIOUS
<1> USE DEF PlaceInv, Goes, ReturnsValue, FreesAndReturns, Call, Idle, Return, cliVars
<1>1. CASE parse_params
  BY <1>1 DEF parse_params, DebugOption, ParamsAccepted, ParamsRejected,
     vars, clientVars, connectVars
<1>2. CASE Initialise
  <2>1. CASE qvd_init /\ Goes("options")
    BY <1>2, <2>1 DEF qvd_init
  <2>2. CASE (InitFails \/ InitStarves) /\ ReturnsValue(9)
    BY <1>2, <2>2 DEF InitFails, InitStarves
  <2>3. CASE InitUndefined /\ UNCHANGED cliVars
    BY <1>2, <2>3 DEF Initialise, InitUndefined
  <2> QED
    BY <1>2, <2>1, <2>2, <2>3 DEF Initialise
<1>3. CASE SetOptions
  BY <1>3 DEF SetOptions, qvd_set_cert_files
<1>4. CASE List
  BY <1>4 DEF List, qvd_list_of_vm, StartRequest
<1>5. CASE LibraryGoesOn
  <2>1. UNCHANGED <<handle, cliVars>> /\ where \in {"listing", "stopping", "connecting"}
    BY <1>5 DEF LibraryGoesOn, RequestGoesOn, TransferUndefined, TransferFails, TransferEnds,
       ParseFails, ParseSucceeds, MallocList, MallocListFails, AppendVm, ReturnList,
       ConnectGoesOn, clientVars
  <2>2. \/ pc' = pc
        \/ pc \in {"list", "parse", "malloc", "append"}
             /\ pc' \in {"parse", "malloc", "append", "idle", "undefined", "crashed"}
        \/ pc = "stop" /\ pc' \in {"idle", "undefined"}
    <3>1. CASE TransferUndefined \/ TransferFails
      BY <3>1 DEF TransferUndefined, TransferFails
    <3>2. CASE TransferEnds
      BY <3>2 DEF TransferEnds
    <3>3. CASE ParseFails \/ ParseSucceeds
      BY <3>3 DEF ParseFails, ParseSucceeds
    <3>4. CASE MallocList \/ MallocListFails \/ AppendVm \/ ReturnList
      BY <3>4 DEF MallocList, MallocListFails, AppendVm, ReturnList
    <3>5. CASE ConnectGoesOn
      BY <3>5 DEF ConnectGoesOn
    <3> QED
      BY <1>5, <3>1, <3>2, <3>3, <3>4, <3>5 DEF LibraryGoesOn, RequestGoesOn
  <2> QED
    BY <2>1, <2>2
<1>6. CASE ListFails \/ ListIsEmpty \/ HeadIsMissing
  BY <1>6 DEF ListFails, ListIsEmpty, HeadIsMissing, HasMachines, vars, clientVars
<1>7. CASE ListOnly \/ IdIsNegative
  <2>1. ~handle' /\ where' = "return" /\ pc = "idle" /\ pc' = "idle"
        /\ UNCHANGED <<options, round>>
    BY <1>7, Zenon DEF ListOnly, IdIsNegative, HasMachines
  <2> QED
    BY <2>1
<1>8. CASE Choose
  BY <1>8 DEF Choose, HasMachines, vars, clientVars, connectVars
<1>9. CASE Stop
  BY <1>9 DEF Stop, qvd_stop_vm, StartRequest
<1>10. CASE ConnectToChosen
  BY <1>10 DEF ConnectToChosen, StartConnect
<1>11. CASE Connected
  BY <1>11 DEF Connected, vars, clientVars
<1>12. CASE Free
  <2>1. ~handle' /\ where' = "return" /\ pc' \in {"idle", "crashed"}
        /\ UNCHANGED <<options, round>>
    BY <1>12, Zenon DEF Free, qvd_free
  <2> QED
    BY <2>1
<1>13. CASE ConnectionReturns
  BY <1>13 DEF ConnectionReturns, vars, clientVars
<1>14. CASE UNCHANGED allVars
  BY <1>14 DEF allVars, vars, clientVars, connectVars
<1> QED
  BY <1>1, <1>2, <1>3, <1>4, <1>5, <1>6, <1>7, <1>8, <1>9, <1>10, <1>11, <1>12, <1>13, <1>14
  DEF CliNext, qvd_connection

-----------------------------------------------------------------------------
(* The machine that was chosen *)

LEMMA ListedFrame == memory' = memory => ListedIds' = ListedIds
BY DEF ListedIds, Listed, Id

LEMMA ChosenStep ==
  PlaceInv /\ LibraryInv /\ ChosenInv /\ [CliNext]_allVars => ChosenInv'
<1> SUFFICES ASSUME PlaceInv, LibraryInv, ChosenInv, [CliNext]_allVars,
                    where' \in {"chosen", "stopping", "connecting"}
             PROVE  Listing'
  BY DEF ChosenInv
<1> USE DEF Goes, ReturnsValue, FreesAndReturns
<1>1. CASE Choose
  <2>1. HasMachines /\ memory' = memory /\ options' = options
        /\ (options.preselectedvm = 0 => Listed(memory) > 0)
        /\ vm_id' \in CASE options.preselectedvm # 0 -> {options.preselectedvm}
                        [] options.preselectedvm = 0 /\ (options.one_vm \/ numvms = 1)
                             -> {Id(memory.list[1])}
                        [] OTHER -> choose_vmid
    BY <1>1 DEF Choose, vars, clientVars, listVars
  <2>2. CASE options.preselectedvm # 0
    BY <2>1, <2>2 DEF Listing
  <2>3. CASE options.preselectedvm = 0
    <3>1. Id(memory.list[1]) \in ListedIds
      <4>1. memory.list # <<>> /\ Listed(memory) = Len(memory.list)
        BY <2>1, <2>3 DEF Listed
      <4>2. Len(memory.list) \in Nat
        BY MemoryFacts DEF LibraryInv, ListInv
      <4> QED
        BY <2>1, <2>3, <4>1, <4>2 DEF ListedIds
    <3>2. vm_id' \in ListedIds
      BY <2>1, <2>3, <3>1 DEF choose_vmid
    <3> QED
      BY <2>1, <2>3, <3>2, ListedFrame DEF Listing
  <2> QED
    BY <2>2, <2>3
<1>2. ASSUME UNCHANGED <<memory, options, vm_id>>, where \in {"chosen", "stopping", "connecting"}
      PROVE  Listing'
  BY <1>2, ListedFrame DEF ChosenInv, Listing
<1>3. CASE Stop
  BY <1>2, <1>3 DEF Stop, qvd_stop_vm, StartRequest, listVars
<1>4. CASE ConnectToChosen
  BY <1>2, <1>4 DEF ConnectToChosen, StartConnect, listVars
<1>5. CASE LibraryGoesOn
  <2>1. where \in {"stopping", "connecting"} /\ UNCHANGED <<options, vm_id>>
    BY <1>5 DEF LibraryGoesOn, cliVars
  <2>2. pc \notin {"parse", "malloc", "append"}
    BY <2>1 DEF PlaceInv
  <2>3. memory' = memory
    BY <1>5, <2>2 DEF LibraryGoesOn, RequestGoesOn, TransferUndefined, TransferFails,
       TransferEnds, ParseFails, ParseSucceeds, MallocList, MallocListFails, AppendVm,
       ReturnList, ConnectGoesOn, clientVars, listVars
  <2> QED
    BY <1>2, <2>1, <2>3
<1>6. CASE UNCHANGED allVars
  BY <1>2, <1>6 DEF allVars, cliVars, vars, clientVars, listVars
<1>7. ~(parse_params \/ SetOptions \/ List \/ ListFails \/ ListIsEmpty)
  BY DEF parse_params, DebugOption, ParamsAccepted, ParamsRejected, SetOptions, List, ListFails, ListIsEmpty
<1>8. ~(HeadIsMissing \/ ListOnly \/ IdIsNegative \/ Connected \/ Free \/ ConnectionReturns)
  BY DEF HeadIsMissing, ListOnly, IdIsNegative, Connected, Free, ConnectionReturns
<1>9. ~Initialise
  BY DEF Initialise, cliVars
<1> QED
  BY <1>1, <1>3, <1>4, <1>5, <1>6, <1>7, <1>8, <1>9 DEF CliNext, qvd_connection

-----------------------------------------------------------------------------
(* Room for the next answer *)

LEMMA RoomStep ==
  PlaceInv /\ LibraryInv /\ RoomInv /\ [CliNext]_allVars => RoomInv'
<1> SUFFICES ASSUME PlaceInv, LibraryInv, RoomInv, [CliNext]_allVars PROVE RoomInv'
  OBVIOUS
<1>0. /\ buffer.size \in Nat /\ BUFFER_SIZE \in Nat /\ 0 <= BUFFER_SIZE
      /\ buffer \in [data : Seq(Pieces), size : Nat]
  BY ClientAssumption DEF LibraryInv, BufferInv
<1> USE DEF RoomInv, NoOverrun, Goes, ReturnsValue, FreesAndReturns, Call, Idle, Return
<1>1. CASE Initialise
  <2>1. CASE qvd_init /\ Goes("options")
    BY <2>1 DEF qvd_init, EmptyBuffer
  <2>2. CASE (InitFails \/ InitStarves) /\ ReturnsValue(9)
    BY <2>2 DEF InitFails, InitStarves
  <2>3. CASE InitUndefined /\ UNCHANGED cliVars
    BY <1>1, <2>3 DEF Initialise, InitUndefined, cliVars
  <2> QED
    BY <1>1, <2>1, <2>2, <2>3 DEF Initialise
<1>2. CASE SetOptions
  BY <1>2 DEF SetOptions, qvd_set_cert_files, bodyVars
<1>3. CASE List
  BY <1>0, <1>3 DEF List, qvd_list_of_vm, StartRequest, bodyVars
<1>4. CASE LibraryGoesOn
  <2>0. where \in {"listing", "stopping", "connecting"} /\ UNCHANGED <<where, handle>>
    BY <1>4 DEF LibraryGoesOn, RequestGoesOn, TransferUndefined, TransferFails, TransferEnds,
       ParseFails, ParseSucceeds, MallocList, MallocListFails, AppendVm, ReturnList,
       ConnectGoesOn, clientVars, cliVars
  <2>1. ~TransferUndefined
    BY <1>0 DEF TransferUndefined
  <2>2. CASE TransferFails
    BY <2>0, <2>2 DEF TransferFails
  <2>3. CASE TransferEnds
    <3>1. PICK a \in Answers : Receive(a.body) /\ a.body \notin TooLong
      BY <2>3 DEF TransferEnds
    <3>2. a.body \in Bodies /\ Fits(a.body)
      BY <3>1, AnswerFacts DEF TooLong
    <3>3. buffer'.size = buffer.size + Units(a.body) /\ Units(a.body) \in Nat
      BY <3>1, <3>2, BodyFacts DEF Receive, QvdBufferAppend
    <3>4. buffer.size <= BUFFER_SIZE
      BY <1>0, <2>3 DEF TransferEnds
    <3>5. buffer'.size <= BUFFER_SIZE
      BY <1>0, <3>2, <3>3, <3>4 DEF Fits, Units
    <3>6. pc' \in {"idle", "parse"}
      BY <2>3 DEF TransferEnds
    <3> QED
      BY <2>0, <3>5, <3>6
  <2>4. CASE ParseFails \/ ParseSucceeds \/ MallocList \/ MallocListFails \/ AppendVm \/ ReturnList
    <3>1. /\ pc \in {"parse", "malloc", "append"} /\ buffer' = buffer
          /\ pc' \in {"idle", "malloc", "append", "crashed"}
      BY <2>4 DEF ParseFails, ParseSucceeds, MallocList, MallocListFails, AppendVm,
         ReturnList, clientVars, bodyVars
    <3>2. where = "listing" /\ buffer.size <= BUFFER_SIZE
      BY <3>1 DEF PlaceInv
    <3> QED
      BY <2>0, <3>1, <3>2
  <2>5. CASE ConnectGoesOn
    <3>1. buffer'.size = buffer.size /\ UNCHANGED <<pc, returned>>
      BY <1>0, <2>5 DEF ConnectGoesOn, bodyVars
    <3> QED
      BY <2>0, <3>1
  <2> QED
    BY <1>4, <2>1, <2>2, <2>3, <2>4, <2>5 DEF LibraryGoesOn, RequestGoesOn
<1>5. CASE ListOnly \/ IdIsNegative
  <2>1. ~handle' /\ where' = "return" /\ pc = "idle" /\ pc' = "idle"
    BY <1>5, Zenon DEF ListOnly, IdIsNegative, HasMachines, PlaceInv
  <2> QED
    BY <2>1
<1>6. CASE Choose
  BY <1>6 DEF Choose, HasMachines, vars, clientVars, bodyVars
<1>7. CASE Stop
  BY <1>7 DEF Stop, qvd_stop_vm, StartRequest, bodyVars
<1>8. CASE ConnectToChosen
  BY <1>8 DEF ConnectToChosen, StartConnect, bodyVars
<1>9. CASE Free
  BY <1>9 DEF Free, qvd_free, bodyVars
<1>10. CASE \/ parse_params \/ ListFails \/ ListIsEmpty \/ HeadIsMissing
            \/ Connected \/ ConnectionReturns
  <2>1. UNCHANGED <<pc, handle, buffer>>
    BY <1>10 DEF parse_params, DebugOption, ParamsAccepted, ParamsRejected,
       ListFails, ListIsEmpty, HeadIsMissing,
       Connected, ConnectionReturns, vars, clientVars, bodyVars
  <2>2. where' \notin {"options", "list", "listing", "chosen"}
    BY <1>10 DEF parse_params, DebugOption, ParamsAccepted, ParamsRejected,
       ListFails, ListIsEmpty, HeadIsMissing,
       Connected, ConnectionReturns
  <2> QED
    BY <2>1, <2>2
<1>11. CASE UNCHANGED allVars
  BY <1>11 DEF allVars, vars, clientVars, bodyVars, cliVars
<1> QED
  BY <1>1, <1>2, <1>3, <1>4, <1>5, <1>6, <1>7, <1>8, <1>9, <1>10, <1>11
  DEF CliNext, qvd_connection

-----------------------------------------------------------------------------
(* Handles that are not freed *)

\* The id that is chosen is negative only when the user named it.
LEMMA NegativeIsForgotten ==
  ASSUME PlaceInv, LibraryInv, ChosenInv, IdIsNegative PROVE Forgets
<1>1. where = "chosen" /\ vm_id < 0 /\ Listing
  BY DEF IdIsNegative, ChosenInv
<1>2. memory \in Memories(Addresses) /\ HeadSound(memory)
  BY DEF LibraryInv, ListInv
<1>3. ASSUME vm_id \in ListedIds PROVE FALSE
  <2>1. PICK k \in 1 .. Listed(memory) : vm_id = memory.list[k].data[2]
    BY <1>3 DEF ListedIds, Id
  <2>2. Len(memory.list) \in Nat
    BY <1>2, MemoryFacts
  <2>3. Listed(memory) = Len(memory.list) /\ memory.list[1].data # NULL /\ 1 \in 1 .. Len(memory.list)
    BY <2>1, <2>2 DEF Listed
  <2>4. memory.list[k].data \in Addresses \cup {NULL}
    BY <1>2, <2>1, <2>3, MemoryFacts
  <2>5. memory.list[k].data # NULL
    <3>1. CASE Len(memory.list) = 1
      BY <2>1, <2>3, <3>1, OneIndex
    <3>2. CASE Len(memory.list) # 1
      BY <1>2, <2>1, <2>3, <3>2 DEF HeadSound
    <3> QED
      BY <3>1, <3>2
  <2>6. memory.list[k].data[2] \in Nat
    BY <2>4, <2>5, ClientAssumption DEF Addresses
  <2> QED
    BY <1>1, <2>1, <2>6
<1> QED
  BY <1>1, <1>3 DEF Listing, Forgets

LEMMA LeakStep ==
  PlaceInv /\ LibraryInv /\ ChosenInv /\ LeakInv /\ [CliNext]_allVars => LeakInv'
<1> SUFFICES ASSUME PlaceInv, LibraryInv, ChosenInv, LeakInv, [CliNext]_allVars, ~starved'
             PROVE  LeakInv'
  BY DEF LeakInv
<1>0. curls \in Nat /\ handle \in BOOLEAN /\ round \in {1, 2}
  BY DEF LibraryInv, ControlInv, PlaceInv
<1> USE DEF LeakInv, Forgets, Goes, ReturnsValue, FreesAndReturns, Call, cliVars
<1>1. CASE Initialise
  <2>1. CASE qvd_init /\ Goes("options")
    <3>1. /\ ~handle /\ handle' /\ curls' = curls + 1 /\ starved' = starved
          /\ where = "init" /\ where' = "options" /\ UNCHANGED <<options, round>>
      BY <1>1, <2>1 DEF Initialise, qvd_init, _qvd_init_curl
    <3> QED
      BY <1>0, <3>1
  <2>2. CASE InitFails /\ ReturnsValue(9)
    <3>1. /\ UNCHANGED <<handle, curls, starved, options, round>>
          /\ where = "init" /\ where' = "return"
      BY <1>1, <2>2 DEF Initialise, InitFails, listVars
    <3> QED
      BY <1>0, <3>1
  <2>3. ~InitStarves
    BY Zenon DEF InitStarves
  <2>4. CASE InitUndefined /\ UNCHANGED cliVars
    BY <2>4 DEF InitUndefined, listVars
  <2> QED
    BY <1>1, <2>1, <2>2, <2>3, <2>4 DEF Initialise
<1>2. CASE LibraryGoesOn
  <2>1. UNCHANGED <<handle, curls, cliVars>>
    BY <1>2 DEF LibraryGoesOn, RequestGoesOn, TransferUndefined, TransferFails, TransferEnds,
       ParseFails, ParseSucceeds, MallocList, MallocListFails, AppendVm, ReturnList,
       ConnectGoesOn, clientVars
  <2>2. ~starved
    <3>1. LibraryGoesOn => starved' = starved \/ starved' = TRUE
      BY DEF LibraryGoesOn, RequestGoesOn, TransferUndefined, TransferFails, TransferEnds,
         ParseFails, ParseSucceeds, MallocList, MallocListFails, AppendVm, ReturnList,
         ConnectGoesOn, clientVars, listVars
    <3> QED
      BY <1>2, <3>1, Zenon
  <2> QED
    BY <2>1, <2>2
<1>3. CASE ListOnly \/ IdIsNegative
  <2>1. /\ ~handle' /\ UNCHANGED <<curls, starved, options, round>>
        /\ where \in {"listing", "chosen"} /\ where' = "return"
    BY <1>3, Zenon DEF ListOnly, IdIsNegative, HasMachines, listVars
  <2>2. Forgets
    BY <1>3, NegativeIsForgotten DEF ListOnly
  <2> QED
    BY <1>0, <2>1, <2>2
<1>4. CASE Free
  <2>1. /\ ~handle' /\ handle /\ curls' = curls - 1 /\ UNCHANGED <<starved, options, round>>
        /\ where = "free" /\ where' = "return"
    BY <1>4, Zenon DEF Free, qvd_free
  <2> QED
    BY <1>0, <2>1
<1>5. CASE SetOptions \/ List \/ Stop \/ ConnectToChosen
  <2>1. /\ UNCHANGED <<handle, curls, starved, options, round>>
        /\ where' \notin {"return", "exited"} /\ where \notin {"return", "exited"}
    BY <1>5 DEF SetOptions, qvd_set_cert_files, List, Stop, qvd_list_of_vm, qvd_stop_vm,
       StartRequest, ConnectToChosen, StartConnect, listVars
  <2> QED
    BY <2>1
<1>6. CASE \/ parse_params \/ ListFails \/ ListIsEmpty \/ HeadIsMissing
           \/ Choose \/ Connected
  <2>1. UNCHANGED <<handle, curls, starved, options, round>>
    BY <1>6 DEF parse_params, DebugOption, ParamsAccepted, ParamsRejected,
       ListFails, ListIsEmpty, HeadIsMissing,
       Choose, Connected, vars, clientVars, listVars
  <2>2. where \notin {"return", "exited"}
    BY <1>6 DEF parse_params, DebugOption, ParamsAccepted, ParamsRejected,
       ListFails, ListIsEmpty, HeadIsMissing,
       HasMachines, Choose, Connected
  <2> QED
    BY <1>0, <2>1, <2>2
<1>7. CASE ConnectionReturns
  <2>1. /\ UNCHANGED <<handle, curls, starved, options>> /\ where = "return"
        /\ \/ where' = "init" /\ round = 1 /\ round' = 2
           \/ where' = "exited" /\ round' = round
    BY <1>7 DEF ConnectionReturns, vars, clientVars, listVars
  <2> QED
    BY <1>0, <2>1
<1>8. CASE UNCHANGED allVars
  BY <1>8 DEF allVars, vars, clientVars, listVars
<1> QED
  BY <1>1, <1>2, <1>3, <1>4, <1>5, <1>6, <1>7, <1>8 DEF CliNext, qvd_connection

-----------------------------------------------------------------------------
(* The log *)

LEMMA LogInitialised ==
  ASSUME _qvd_init_debug, opened \in Nat
  PROVE  debug_file' # "null" /\ opened' \in Nat /\ opened' <= opened + 1
BY DEF _qvd_init_debug

LEMMA LogStep == LogInv /\ [CliNext]_allVars => LogInv'
<1> SUFFICES ASSUME LogInv, [CliNext]_allVars PROVE LogInv'
  OBVIOUS
<1> USE DEF LogInv, environment, debugVars, Goes
<1>1. ASSUME Message, given' = given, where' # "params" PROVE LogInv'
  <2>1. CASE level < 0
    <3>1. _qvd_init_debug /\ level' = debug_flag /\ debug_flag' = debug_flag
      BY <1>1, <2>1 DEF Message, get_debug_level
    <3>2. debug_file' # "null" /\ opened' \in Nat /\ opened' <= opened + 1
      BY <3>1, LogInitialised
    <3>3. given = 0
      BY <2>1
    <3> QED
      BY <1>1, <2>1, <3>1, <3>2, <3>3
  <2>2. CASE ~(level < 0)
    BY <1>1, <2>2 DEF Message, get_debug_level
  <2> QED
    BY <2>1, <2>2
<1>2. CASE DebugOption
  <2>1. /\ _qvd_init_debug /\ level' = 2 /\ debug_flag' = debug_flag
        /\ given' = given + 1 /\ where = "params"
    BY <1>2 DEF DebugOption, set_debug_level
  <2>2. debug_file' # "null" /\ opened' \in Nat /\ opened' <= opened + 1
    BY <2>1, LogInitialised
  <2>3. opened <= given
    BY <2>1
  <2> QED
    BY <2>1, <2>2, <2>3
<1>3. CASE UNCHANGED debugVars /\ given' = given /\ where' # "params"
  BY <1>3
<1>4. CASE UNCHANGED allVars
  BY <1>4 DEF allVars, cliVars
<1>5. ASSUME CliNext, ~DebugOption
      PROVE  given' = given /\ (Message \/ UNCHANGED debugVars)
  BY <1>5 DEF CliNext, parse_params, ParamsAccepted, ParamsRejected, qvd_connection,
     Initialise, SetOptions, List, LibraryGoesOn, ListFails, ListIsEmpty, HeadIsMissing,
     ListOnly, Choose, IdIsNegative, Stop, ConnectToChosen, Connected, Free,
     ConnectionReturns, ReturnsValue, FreesAndReturns, cliVars
<1>6. ASSUME CliNext, ~DebugOption, where' = "params" PROVE FALSE
  BY <1>6 DEF CliNext, parse_params, ParamsAccepted, ParamsRejected, qvd_connection,
     Initialise, SetOptions, List, LibraryGoesOn, ListFails, ListIsEmpty, HeadIsMissing,
     ListOnly, Choose, IdIsNegative, Stop, ConnectToChosen, Connected, Free,
     ConnectionReturns, ReturnsValue, FreesAndReturns, cliVars
<1> QED
  BY <1>1, <1>2, <1>3, <1>4, <1>5, <1>6

-----------------------------------------------------------------------------

LEMMA CliInitial ==
  CliInit => PlaceInv /\ LibraryInv /\ ChosenInv /\ RoomInv /\ LeakInv /\ LogInv
<1> SUFFICES ASSUME CliInit
             PROVE  PlaceInv /\ LibraryInv /\ ChosenInv /\ RoomInv /\ LeakInv /\ LogInv
  OBVIOUS
<1>1. LibraryInv
  BY ControlInit, BufferInitial, ListInitial DEF CliInit, LibraryInv
<1>2. /\ where = "params" /\ options \in Options /\ round = 1
      /\ pc = "idle" /\ ~handle /\ curls = 0
  BY DEF CliInit, Init
<1>3. PlaceInv /\ ChosenInv /\ RoomInv
  BY <1>2 DEF PlaceInv, ChosenInv, RoomInv, NoOverrun
<1>4. LeakInv
  BY <1>2 DEF LeakInv
<1>5. LogInv
  <2>1. level = -1 /\ opened = 0 /\ given = 0 /\ debug_flag \in {-1, 0, 1}
    BY DEF CliInit, DebugInit
  <2> QED
    BY <2>1 DEF LogInv
<1> QED
  BY <1>1, <1>3, <1>4, <1>5

CliInv == PlaceInv /\ LibraryInv /\ ChosenInv /\ RoomInv /\ LeakInv

LEMMA CliInvAlways == CliSpec => []CliInv
<1>1. CliInit => CliInv
  BY CliInitial DEF CliInv
<1>2. CliInv /\ [CliNext]_allVars => CliInv'
  BY PlaceStep, LibraryStep, ChosenStep, RoomStep, LeakStep DEF CliInv
<1> QED
  BY <1>1, <1>2, PTL DEF CliSpec

\* A connection is to the machine that was named, or to one of the list that this
\* handle was given last, for any list and anything the user types.
THEOREM ConnectsToListedAlways == CliSpec => []ConnectsToListed
<1>1. CliInv => ConnectsToListed
  BY DEF CliInv, ChosenInv, Listing, ConnectsToListed
<1> QED
  BY <1>1, CliInvAlways, PTL

\* main never makes a request with a response buffer that is past its end, so no
\* answer is written behind it, whatever the server sends.
THEOREM NoOverrunAlways == CliSpec => []NoOverrun
<1>1. CliInv => NoOverrun
  BY DEF CliInv, RoomInv
<1> QED
  BY <1>1, CliInvAlways, PTL

\* At its end main has freed every handle, but for the two paths that forget it,
\* while every allocation succeeds.
THEOREM FreedAtEndAlways == CliSpec => []FreedAtEnd
<1>1. CliInv => FreedAtEnd
  <2> SUFFICES ASSUME CliInv, where = "exited", ~starved
               PROVE  curls <= IF Forgets THEN round ELSE 0
    BY DEF FreedAtEnd, Forgets
  <2>1. ~handle /\ curls \in Nat /\ round \in {1, 2}
    BY DEF CliInv, PlaceInv, LibraryInv, ControlInv
  <2> QED
    BY <2>1 DEF CliInv, LeakInv
<1> QED
  BY <1>1, CliInvAlways, PTL

\* A message that is shown has a file to go to; the log file is opened no more often
\* than -d is given, or once without it, but with a negative QVD_DEBUG and no -d.
THEOREM LogReadyAlways == CliSpec => []LogReady
<1>1. CliInit => LogInv
  BY CliInitial
<1>2. LogInv => LogReady
  BY DEF LogInv, LogReady
<1> QED
  BY <1>1, <1>2, LogStep, PTL DEF CliSpec

\* What the library promises about its list, its sockets and its home holds under
\* main too, which forgets handles and stops after failures: a list that is shown or
\* connected to is alive, whole and of the last response.
THEOREM LibraryAlways ==
  CliSpec => [](/\ ListAlive /\ WalksAList /\ CountMatches /\ FailedCallKeepsList
                /\ ListIsLastBody /\ PeersClosed /\ NxHomeIsOurs)
<1>1. LibraryInv /\ SocketInv /\ HomeInv =>
        /\ ListAlive /\ WalksAList /\ CountMatches /\ FailedCallKeepsList
        /\ ListIsLastBody /\ PeersClosed /\ NxHomeIsOurs
  BY DEF LibraryInv, BufferInv, ListInv, ListIsLastBody, CountMatches, FailedCallKeepsList,
     SocketInv, HomeInv, PeersClosed, NxHomeIsOurs, Idle
<1>2. CliInit => LibraryInv /\ SocketInv /\ HomeInv
  BY CliInitial, ConnectInitial DEF CliInit
<1>3. /\ PlaceInv /\ LibraryInv /\ SocketInv /\ HomeInv /\ [CliNext]_allVars
      => (SocketInv /\ HomeInv)'
  <2> SUFFICES ASSUME PlaceInv, LibraryInv, SocketInv, HomeInv, [CliNext]_allVars
               PROVE  (SocketInv /\ HomeInv)'
    OBVIOUS
  <2>1. CASE [Next]_vars
    BY <2>1, SocketStep, HomeStep DEF LibraryInv
  <2>2. CASE ForgetsHandle
    <3>1. UNCHANGED <<step, home, nx_home, home_at_start, pairs, fds, nx>>
      BY <2>2 DEF ForgetsHandle, connectVars, homeVars, socketVars
    <3>2. SocketInv'
      BY <3>1 DEF SocketInv, Remote
    <3>3. HomeInv'
      BY <3>1 DEF HomeInv
    <3> QED
      BY <3>2, <3>3
  <2> QED
    BY <2>1, <2>2, CliStep
<1> QED
  BY <1>1, <1>2, <1>3, CliInvAlways, LibraryStep, PTL DEF CliSpec, CliInv

\* Under main too a response that does not fit fails its request, and a request to
\* end a connection, once it has started, is not forgotten.
THEOREM LibraryStepsAlways == CliSpec => OverflowReported /\ EndNotLost
<1>1. PlaceInv /\ LibraryInv /\ [CliNext]_allVars =>
        /\ [buffer'.size > BUFFER_SIZE /\ buffer'.size # buffer.size
              => pc' = "idle" /\ returned' = "null"]_vars
        /\ [end_connection /\ step \notin {"idle", "certdir"} => end_connection']_vars
  <2> SUFFICES ASSUME PlaceInv, LibraryInv, [CliNext]_allVars
               PROVE  /\ buffer'.size > BUFFER_SIZE /\ buffer'.size # buffer.size
                           => pc' = "idle" /\ returned' = "null"
                      /\ end_connection /\ step \notin {"idle", "certdir"} => end_connection'
    OBVIOUS
  <2>1. CASE [Next]_vars
    BY <2>1, OverflowFails, EndKept DEF LibraryInv
  <2>2. CASE ForgetsHandle
    <3>1. buffer' = buffer /\ end_connection' = end_connection
      BY <2>2 DEF ForgetsHandle, bodyVars, connectVars
    <3> QED
      BY <3>1
  <2> QED
    BY <2>1, <2>2, CliStep
<1> QED
  BY <1>1, CliInvAlways, PTL DEF CliSpec, CliInv, OverflowReported, EndNotLost
=============================================================================
