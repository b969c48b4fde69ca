--------------------------- MODULE CatalogueRows ---------------------------
(***************************************************************************)
(* The rows of jobs.db that a Catalogue Publication moves, and the three   *)
(* representations one admin correction goes through: the value the API    *)
(* received, the cell written to the row at once (job_edit._to_storage),   *)
(* and the text kept in admin_edits (job_edit._to_text) that a later       *)
(* publication turns back into a cell (job_edit._from_audit).              *)
(*                                                                         *)
(* A row keeps the columns the properties tell apart: is_active,           *)
(* admin_hidden, one enrichment figure (pay) and whether the enrichment is *)
(* pinned against automation (manually_edited_at).  `present' says whether *)
(* the (source, source_id) key has a row at all.                           *)
(***************************************************************************)
EXTENDS Integers, FiniteSets

CONSTANTS
    PipelineRoles,  \* keys with source <> 'direct'
    DirectRoles,    \* keys with source = 'direct': approved recruiter Roles
    Pays,           \* values of the enrichment figure, NoPay among them
    NoPay,          \* a NULL figure
    NoEdit          \* no row of admin_edits for a field

ASSUME RolesAssumption ==
    /\ IsFiniteSet(PipelineRoles) /\ IsFiniteSet(DirectRoles)
    /\ PipelineRoles \cap DirectRoles = {}

ASSUME PaysAssumption ==
    NoPay \in Pays /\ NoEdit \notin Pays \cup {"True", "False"}

Roles == PipelineRoles \cup DirectRoles

----------------------------------------------------------------------------
(* Rows.                                                                   *)

\* What SQLite may hold in the INTEGER column admin_hidden: a number, or text
\* when text that is no number is stored there.
HiddenCells == {"0", "1", "True", "False"}

Row == [present: BOOLEAN, active: BOOLEAN, hidden: HiddenCells,
        pay: Pays, pinned: BOOLEAN]

AbsentRow == [present |-> FALSE, active |-> FALSE, hidden |-> "0",
              pay |-> NoPay, pinned |-> FALSE]

\* The row submissions.approve_submission inserts.
ApprovedRow == [present |-> TRUE, active |-> TRUE, hidden |-> "0",
                pay |-> NoPay, pinned |-> FALSE]

\* The catalogue one pipeline run hands over: no direct Roles in it.
Catalogue == [PipelineRoles -> Row]

IsLive(row) == row.present /\ row.active

\* NOT j.admin_hidden: text that is no number casts to 0, so NOT is true.
BoardVisible(row) == IsLive(row) /\ row.hidden # "1"

ActiveCount(rows, keys) == Cardinality({r \in keys : IsLive(rows[r])})

----------------------------------------------------------------------------
(* Corrections.                                                            *)

Flags == {"true", "false"}

Correction == [role: Roles, field: {"active", "hidden"}, value: Flags]
                \cup [role: Roles, field: {"pay"}, value: Pays]

\* The latest admin_edits.new_value of each field of one Role.
AuditFlag == {"True", "False", NoEdit}
Audit == [active: AuditFlag, hidden: AuditFlag, pay: Pays \cup {NoEdit}]
NoAudit == [active |-> NoEdit, hidden |-> NoEdit, pay |-> NoEdit]

\* _to_text of a JSON boolean is Python's str(True) or str(False).
FlagText(value) == IF value = "true" THEN "True" ELSE "False"

\* _to_storage of the flag an audit text stands for.
HiddenCell(text) == IF text = "True" THEN "1" ELSE "0"

\* The row after apply_edit's UPDATE: _to_storage writes flags as 1 and 0, and
\* an enrichment write stamps manually_edited_at.
Corrected(row, c) ==
    CASE c.field = "active" -> [row EXCEPT !.active = (c.value = "true")]
      [] c.field = "hidden" ->
            [row EXCEPT !.hidden = IF c.value = "true" THEN "1" ELSE "0"]
      [] c.field = "pay" -> [row EXCEPT !.pay = c.value, !.pinned = TRUE]

\* The audit after apply_edit's INSERT INTO admin_edits.
Noted(a, c) ==
    CASE c.field = "active" -> [a EXCEPT !.active = FlagText(c.value)]
      [] c.field = "hidden" -> [a EXCEPT !.hidden = FlagText(c.value)]
      [] c.field = "pay" -> [a EXCEPT !.pay = c.value]

\* _from_audit gives is_active a typed value, and admin_hidden the text itself.
FromAuditActive(text) == text = "True"
FromAuditHidden(text) == text

\* reapply_recorded_edits on one row: only a Role the new catalogue has.
Reapplied(row, a) ==
    IF ~row.present THEN row
    ELSE [row EXCEPT
            !.active = IF a.active = NoEdit THEN @ ELSE FromAuditActive(a.active),
            !.hidden = IF a.hidden = NoEdit THEN @ ELSE FromAuditHidden(a.hidden),
            !.pay    = IF a.pay = NoEdit THEN @ ELSE a.pay,
            !.pinned = @ \/ a.pay # NoEdit]

\* Two rows that differ at most in how admin_hidden is written.
SameButHidden(row, other) == [row EXCEPT !.hidden = other.hidden] = other
=============================================================================
