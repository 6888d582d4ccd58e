--------------------------- MODULE MCVacuumCommand ---------------------------
(* Values for model checking VacuumCommand: the command lines of            *)
(* `oc-clean vacuum`.                                                       *)
EXTENDS VacuumCommand

Line(incremental, dryRun, skipBackup, skipConfirm, force) ==
    [incremental |-> incremental, dryRun |-> dryRun, skipBackup |-> skipBackup,
     skipConfirm |-> skipConfirm, force |-> force]

MCCommands ==
    {Line(FALSE, FALSE, FALSE, FALSE, FALSE), Line(FALSE, FALSE, TRUE, TRUE, TRUE),
     Line(TRUE, FALSE, FALSE, FALSE, FALSE), Line(TRUE, FALSE, FALSE, TRUE, TRUE)}
    \cup {Line(incremental, TRUE, FALSE, FALSE, FALSE) : incremental \in BOOLEAN}
=============================================================================
