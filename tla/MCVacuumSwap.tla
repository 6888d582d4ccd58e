---------------------------- MODULE MCVacuumSwap ----------------------------
(* Model-checking instance of VacuumSwap.                                   *)
EXTENDS VacuumSwap, TLC

(* Writers are interchangeable, and so are the transactions that are not in *)
(* Base.                                                                    *)
Interchangeable == Permutations(Writers) \cup Permutations(Txns \ Base)

=============================================================================
