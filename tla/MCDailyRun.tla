------------------------------ MODULE MCDailyRun ------------------------------
(* Small instances of DailyRun for TLC.                                    *)
EXTENDS DailyRun, TLC

Symmetry == Permutations(RunIds)
=============================================================================
