-------------------------------- MODULE Cli --------------------------------
(***************************************************************************)
(* qvdclient.c, the command line client: the order in which main makes the *)
(* calls of Client, on what it finds in the list it was given, once or,    *)
(* with -2, twice.  Every call prints to the log (DebugLog).  Nobody calls *)
(* qvd_end_connection here, and no setter that a later call depends on     *)
(* but qvd_set_cert_files.                                                 *)
(*                                                                         *)
(* The id of the k-th machine of an answer is k.                           *)
(***************************************************************************)
EXTENDS Client, DebugLog

CONSTANTS
  Options,         \* what the command line and the environment may ask for
  Typed            \* what the user may type at the prompt

\* debug is how often -d is given; preselectedvm is 0 without -s and QVDVMID.
ASSUME OptionsAssumption ==
  \A o \in Options :
    /\ o.debug \in Nat
    /\ {o.cert, o.only_list_of_vm, o.one_vm, o.restart_session, o.twice} \subseteq BOOLEAN
    /\ o.preselectedvm \in Int

VARIABLES
  where,           \* what main does next
  options,
  given,           \* how many of the -d there are main has come to
  vm_id,
  round,           \* which of the two calls of qvd_connection this is
  exit             \* what the last one returned

cliVars == <<where, options, given, vm_id, round, exit>>
allVars == <<vars, debugVars, cliVars>>

Exited == where \in {"exited", "crashed"} \/ Ended \/ exhausted

CliInit ==
  /\ Init /\ DebugInit
  /\ where = "params" /\ options \in Options /\ given = 0 /\ vm_id = 0 /\ round = 1 /\ exit = 0

Goes(to) == where' = to /\ UNCHANGED <<options, given, vm_id, round, exit>>

FreesAndReturns(value) ==
  where' = "free" /\ exit' = value /\ UNCHANGED <<options, given, vm_id, round>>

ReturnsValue(value) ==
  where' = "return" /\ exit' = value /\ UNCHANGED <<options, given, vm_id, round>>

-----------------------------------------------------------------------------
(* parse_params *)

\* Each -d sets the level at once, before the options after it are looked at and
\* anything is known to be right.
DebugOption ==
  /\ where = "params" /\ given < options.debug
  /\ set_debug_level(2)
  /\ given' = given + 1
  /\ UNCHANGED <<where, options, vm_id, round, exit>>
  /\ UNCHANGED vars

ParamsAccepted ==
  /\ where = "params" /\ given = options.debug
  /\ Goes("init")
  /\ UNCHANGED <<vars, debugVars>>

\* The help or the version was asked for, or something is missing or cannot be
\* read.
ParamsRejected ==
  /\ where = "params" /\ given = options.debug
  /\ where' = "exited" /\ exit' \in {0, 1} /\ UNCHANGED <<options, given, vm_id, round>>
  /\ UNCHANGED <<vars, debugVars>>

-----------------------------------------------------------------------------
(* qvd_connection *)

Initialise ==
  /\ where = "init"
  /\ \/ qvd_init /\ Goes("options")
     \/ (InitFails \/ InitStarves) /\ ReturnsValue(9)
     \/ InitUndefined /\ UNCHANGED cliVars
  /\ Message

\* The files could be read when the options were.
SetOptions ==
  /\ where = "options"
  /\ \E enable \in {FALSE, options.cert} : qvd_set_cert_files(enable)
  /\ Goes("list")
  /\ Message

List ==
  /\ where = "list"
  /\ qvd_list_of_vm
  /\ Goes("listing")
  /\ Message

LibraryGoesOn ==
  /\ where \in {"listing", "stopping", "connecting"}
  /\ RequestGoesOn \/ ConnectGoesOn
  /\ UNCHANGED cliVars
  /\ Message

\* Mutant: the handle is not freed.
ListFailsUnfreed ==
  /\ where = "listing" /\ Idle /\ returned = "null"
  /\ ReturnsValue(5)
  /\ UNCHANGED <<vars, debugVars>>

\* Mutant: the list is asked for again.
ListFailsRetried ==
  /\ where = "listing" /\ Idle /\ returned = "null"
  /\ Goes("list")
  /\ UNCHANGED <<vars, debugVars>>

ListFails ==
  /\ where = "listing" /\ Idle /\ returned = "null"
  /\ FreesAndReturns(5)
  /\ UNCHANGED <<vars, debugVars>>

ListIsEmpty ==
  /\ where = "listing" /\ Idle /\ returned = "list" /\ numvms = 0
  /\ FreesAndReturns(2)
  /\ UNCHANGED <<vars, debugVars>>

HasMachines == where = "listing" /\ Idle /\ returned = "list" /\ numvms > 0

\* The machine at the head of the list was not allocated: a NULL pointer is
\* followed.
HeadIsMissing ==
  /\ HasMachines /\ Listed(memory) = 0
  /\ options.only_list_of_vm \/ options.preselectedvm = 0
  /\ Goes("crashed")
  /\ UNCHANGED <<vars, debugVars>>

\* The handle is not freed, here and when an id is negative.
ListOnly ==
  /\ HasMachines /\ options.only_list_of_vm /\ Listed(memory) > 0
  /\ ReturnsValue(0)
  /\ handle' = FALSE
  /\ UNCHANGED <<pc, calls, curls, bodyVars, certVars, payment_required, listVars, returned,
                 connectVars, debugVars>>

Id(node) == node.data[2]

ListedIds == {Id(memory.list[k]) : k \in 1 .. Listed(memory)}

\* Mutant: what the user types is taken.
AnyTyped == Typed

\* choose_vmid: it asks again until the user types an id of the list.
choose_vmid == Typed \cap ListedIds

Choose ==
  /\ HasMachines /\ ~options.only_list_of_vm
  /\ options.preselectedvm = 0 => Listed(memory) > 0
  /\ vm_id' \in CASE options.preselectedvm # 0 -> {options.preselectedvm}
                  [] options.preselectedvm = 0 /\ (options.one_vm \/ numvms = 1)
                       -> {Id(memory.list[1])}
                  [] OTHER -> choose_vmid
  /\ where' = "chosen" /\ UNCHANGED <<options, given, round, exit>>
  /\ UNCHANGED <<vars, debugVars>>

IdIsNegative ==
  /\ where = "chosen" /\ vm_id < 0
  /\ ReturnsValue(6)
  /\ handle' = FALSE
  /\ UNCHANGED <<pc, calls, curls, bodyVars, certVars, payment_required, listVars, returned,
                 connectVars, debugVars>>

Stop ==
  /\ where = "chosen" /\ vm_id >= 0 /\ options.restart_session
  /\ qvd_stop_vm
  /\ Goes("stopping")
  /\ Message

\* Whether the machine stopped is not looked at.
ConnectToChosen ==
  /\ \/ where = "chosen" /\ vm_id >= 0 /\ ~options.restart_session
     \/ where = "stopping" /\ Idle
  /\ StartConnect
  /\ Goes("connecting")
  /\ Message

\* Nor is what the connection returned.
Connected ==
  /\ where = "connecting" /\ Idle
  /\ FreesAndReturns(0)
  /\ UNCHANGED <<vars, debugVars>>

Free ==
  /\ where = "free"
  /\ qvd_free
  /\ Goes("return")
  /\ Message

-----------------------------------------------------------------------------
(* main *)

ConnectionReturns ==
  /\ where = "return"
  /\ IF options.twice /\ round = 1
     THEN where' = "init" /\ round' = 2 /\ UNCHANGED <<options, given, vm_id, exit>>
     ELSE Goes("exited")
  /\ UNCHANGED <<vars, debugVars>>

qvd_connection ==
  \/ Initialise \/ SetOptions \/ List \/ LibraryGoesOn
  \/ ListFails \/ ListIsEmpty \/ HeadIsMissing \/ ListOnly
  \/ Choose \/ IdIsNegative \/ Stop \/ ConnectToChosen \/ Connected \/ Free

parse_params == DebugOption \/ ParamsAccepted \/ ParamsRejected

CliNext == ~exhausted /\ (parse_params \/ qvd_connection \/ ConnectionReturns)

CliSpec == CliInit /\ [][CliNext]_allVars

-----------------------------------------------------------------------------
(* Properties *)

\* A message that is shown has a file to go to, whether a message or -d comes
\* first.  And messages open the log file, which is never closed, at most once:
\* once in all without -d, and not at all with it, when it is opened again for each
\* -d.  Only with a negative QVD_DEBUG and no -d does every message open it.
LogReady ==
  ~exhausted =>
    /\ level > 0 => debug_file # "null"
    /\ given > 0 => opened <= given
    /\ given = 0 /\ debug_flag >= 0 => opened <= 1

\* A connection is to a machine of the list this handle was just given, however
\* many there are and whatever the user types, unless -s names another.
ConnectsToListed ==
  where = "connecting" =>
    vm_id = options.preselectedvm \/ (options.preselectedvm = 0 /\ vm_id \in ListedIds)

\* The client goes by what the library returns before it makes the next request,
\* and so never makes one with a response buffer that is past its end: only a
\* host name that is too long has undefined effects.
NoOverrun == pc = "undefined" => ~handle

\* A handle is freed on every path but two: -l, and a negative id.
FreedAtEnd ==
  where = "exited" /\ ~starved =>
    curls <= IF options.only_list_of_vm \/ options.preselectedvm < 0 THEN round ELSE 0
=============================================================================
