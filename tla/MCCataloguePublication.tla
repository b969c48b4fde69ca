---------------------- MODULE MCCataloguePublication ----------------------
(* Small instances of CataloguePublication for TLC.                        *)
EXTENDS CataloguePublication, TLC

CONSTANTS r1, r2, d1, p1, p2, n1, n2

PipelineRow(active, pay) == [present |-> TRUE, active |-> active, hidden |-> "0",
                             pay |-> pay, pinned |-> FALSE]

\* Two Roles on the board; the next night one has closed, one has a new figure.
Night1 == (r1 :> PipelineRow(TRUE, p1)) @@ (r2 :> PipelineRow(TRUE, p1))
Night2 == (r1 :> PipelineRow(TRUE, p2)) @@ (r2 :> AbsentRow)
MCSnapshots == {Night1, Night2}

UploadOf(run, snapshot) ==
    [run |-> run, snapshot |-> snapshot, intact |-> TRUE, compatible |-> TRUE]

\* A corrupt upload, and one with a column the live volume does not know.
MCFaultyUploads == {[UploadOf(n2, Night2) EXCEPT !.intact = FALSE],
                    [UploadOf(n2, Night1) EXCEPT !.compatible = FALSE]}

\* Each night's upload, and the second night's content under the first one's run.
MCUploads == {UploadOf(n1, Night1), UploadOf(n2, Night2), UploadOf(n1, Night2)} \cup MCFaultyUploads
MCOneNight == {UploadOf(n1, Night1)} \cup MCFaultyUploads

\* An admin hides, closes and prices one Role, and prices the direct one.
HideIt  == [role |-> r1, field |-> "hidden", value |-> "true"]
CloseIt == [role |-> r2, field |-> "active", value |-> "false"]
PriceDirect == [role |-> d1, field |-> "pay", value |-> p1]
MCCorrections == {HideIt, CloseIt, PriceDirect}
MCOneCorrection == {CloseIt}

Symmetry == Permutations(Threads)
=============================================================================
