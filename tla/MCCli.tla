------------------------------- MODULE MCCli -------------------------------
(***************************************************************************)
(* Cli for TLC: every combination of the options that change the calls     *)
(* main makes, client certificates and -d, once or twice, only with a few  *)
(* of them.                                                                *)
(***************************************************************************)
EXTENDS Cli

MCOptions ==
  [debug : {0}, cert : {FALSE}, only_list_of_vm : BOOLEAN, one_vm : BOOLEAN,
   restart_session : BOOLEAN, twice : BOOLEAN, preselectedvm : {-1, 0, 7}]
  \cup [debug : 0 .. 2, cert : BOOLEAN, only_list_of_vm : {FALSE}, one_vm : {TRUE},
        restart_session : {FALSE}, twice : {FALSE}, preselectedvm : {0}]

\* What fails because it is the log that does is the run cli_log's.
MCInit == CliInit /\ log_file # "bad"

Finished == Exited /\ UNCHANGED allVars

MCSpec == MCInit /\ [][CliNext \/ Finished]_allVars

LogSpec == CliInit /\ [][CliNext \/ Finished]_allVars
=============================================================================
