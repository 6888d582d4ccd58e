--------------------------- MODULE MCReadOnlyPhases ---------------------------
(* Values for model checking ReadOnlyPhases: an unforced clean, which the   *)
(* surroundings may disturb twice, and clean --incremental under --force,   *)
(* a dry run without a selector and doctor.                                 *)
EXTENDS ReadOnlyPhases

CleanKinds       == <<"database", "holders", "selectors">>
IncrementalKinds == <<"database", "holders", "auto_vacuum", "selectors">>
DoctorKinds      == <<"integrity", "foreign_keys", "space", "holders">>

Clean(kinds, destructive, force, selector, disturbances) ==
    [kinds |-> kinds, writes |-> TRUE, destructive |-> destructive, force |-> force,
     selector |-> selector, disturbances |-> disturbances]

MCCommands ==
    {Clean(CleanKinds, TRUE, FALSE, TRUE, 2),
     Clean(CleanKinds, FALSE, FALSE, FALSE, 1),
     Clean(IncrementalKinds, TRUE, TRUE, TRUE, 0),
     [kinds |-> DoctorKinds, writes |-> FALSE, destructive |-> FALSE, force |-> FALSE,
      selector |-> TRUE, disturbances |-> 0]}
=============================================================================
