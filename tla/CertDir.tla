------------------------------ MODULE CertDir ------------------------------
(***************************************************************************)
(* The choice _qvd_set_certdir of qvdclientcore.c makes: which home        *)
(* directory the client keeps its certificates under.  Operators only:     *)
(* Connect and Certificates apply them to their own state.                 *)
(***************************************************************************)

CONSTANTS
  HOME, APPDATA,   \* the two environment variables: a path, or "unset"
  Directories      \* the paths that are directories

ASSUME DirectoriesAssumption == "unset" \notin Directories

\* _qvd_dir_exists looks at fs_stat although stat failed, and it was never set:
\* any path that is given may pass, and only a directory cannot fail.
MayPass(path) == path # "unset"
MayFail(path) == path \notin Directories

\* qvd->home was own, the client uses home, and qvd->home becomes new.  The test
\* at the top of the function compares an array with NULL and is never taken: a
\* client with no home at all goes on without one.
HomeChosen(own, home, new) ==
  \/ MayPass(own) /\ home = own /\ new = own
  \/ MayFail(own) /\ MayPass(HOME) /\ home = HOME /\ new = HOME
  \/ /\ MayFail(own) /\ MayFail(HOME)
     /\ \/ MayPass(APPDATA) /\ home = APPDATA /\ new = APPDATA
        \/ MayFail(APPDATA) /\ home = HOME /\ new = own

\* Mutant: the environment decides before the home the application set.
EnvironmentFirst(own, new, ok) ==
  IF HOME \in Directories THEN new = HOME /\ ok \in BOOLEAN
                          ELSE new = own /\ ok = FALSE

\* The whole function, for a caller that looks only at qvd->home: the directories
\* below home can be made only in a directory, and that may fail too.
_qvd_set_certdir(own, new, ok) ==
  \E home \in Directories \cup {own, HOME, APPDATA} :
    HomeChosen(own, home, new) /\ (ok => home \in Directories)
=============================================================================
