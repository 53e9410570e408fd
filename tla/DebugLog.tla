------------------------------ MODULE DebugLog ------------------------------
(***************************************************************************)
(* The level and the file of debug.c, which every part of the library      *)
(* prints through and the first message initialises.  The actions are the  *)
(* functions; they are parts of the steps of whoever prints.               *)
(***************************************************************************)
EXTENDS Integers

VARIABLES
  \* The environment.
  log_file,        \* QVD_DEBUG_FILE: "none", a "good" file or a "bad" one
  debug_flag,      \* the number in QVD_DEBUG, 0 when there is none
  \* The two static variables.
  level,           \* qvd_global_debug_level
  debug_file,      \* global_debug_file: "null", "stderr" or "file"
  \* What became of the process.
  opened,          \* times the log file was opened; it is never closed
  exhausted        \* the stack is used up

environment == <<log_file, debug_flag>>
debugVars   == <<environment, level, debug_file, opened, exhausted>>

DebugInit ==
  /\ log_file \in {"none", "good", "bad"} /\ debug_flag \in {-1, 0, 1}
  /\ level = -1 /\ debug_file = "null" /\ opened = 0 /\ exhausted = FALSE

\* It prints that a bad file cannot be opened; a message asks for the level, and
\* while there is none that comes back here.
_qvd_init_debug ==
  /\ debug_file' = IF log_file = "good" THEN "file" ELSE "stderr"
  /\ opened' = IF log_file = "good" THEN opened + 1 ELSE opened
  /\ exhausted' = (log_file = "bad" /\ level < 0)

\* A negative QVD_DEBUG never counts as initialised.
get_debug_level ==
  /\ IF level < 0 THEN _qvd_init_debug /\ level' = debug_flag
                  ELSE UNCHANGED <<level, debug_file, opened, exhausted>>
  /\ UNCHANGED environment

\* Mutant: the level is set and nothing else.
SetLevelOnly(new) ==
  /\ level' = new
  /\ UNCHANGED <<environment, debug_file, opened, exhausted>>

\* The initialisation runs again whenever the level is set.
set_debug_level(new) ==
  /\ _qvd_init_debug /\ level' = new
  /\ UNCHANGED environment

\* qvd_printf and the functions that use it.
Message == get_debug_level

\* "Using stderr for debugging. Unable to open file": a log file that cannot be
\* opened does not stop the program.
FallsBackToStderr == ~exhausted
=============================================================================
