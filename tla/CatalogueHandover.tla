------------------------- MODULE CatalogueHandover -------------------------
(***************************************************************************)
(* What docs/adr/0015 promises of a Catalogue Publication, with the        *)
(* machinery left out: the live catalogue, the corrections and the         *)
(* receipts change in single steps.  A publication swaps every pipeline    *)
(* Role, lays the corrections over them and leaves the receipt of its run, *)
(* all at once.  Of the direct Roles it only promises that each one left   *)
(* on the board is the one that was there: CataloguePublication shows why  *)
(* more would not be true.                                                 *)
(***************************************************************************)
EXTENDS CatalogueRows

CONSTANTS Runs, Snapshots, Corrections, Seed, NoSnapshot

VARIABLES live, audit, receipts

handoverVars == <<live, audit, receipts>>

HandoverInit ==
    /\ live = [r \in Roles |-> IF r \in PipelineRoles THEN Seed[r] ELSE AbsentRow]
    /\ audit = [r \in Roles |-> NoAudit]
    /\ receipts = [n \in Runs |-> NoSnapshot]

\* One Daily Run's catalogue becomes the live one.
Publish(n, s) ==
    /\ receipts[n] = NoSnapshot
    /\ receipts' = [receipts EXCEPT ![n] = s]
    /\ \A r \in PipelineRoles : live'[r] = Reapplied(s[r], audit[r])
    /\ \A d \in DirectRoles :
            \/ live'[d] = AbsentRow
            \/ live[d].present /\ SameButHidden(live'[d], live[d])
    /\ UNCHANGED audit

\* One correction, with its audit, to a Role that is there or was there when
\* the admin opened it.
Correct(c) ==
    /\ audit' = [audit EXCEPT ![c.role] = Noted(audit[c.role], c)]
    /\ live' = IF live[c.role].present
               THEN [live EXCEPT ![c.role] = Corrected(live[c.role], c)]
               ELSE live
    /\ UNCHANGED receipts

\* One direct Role goes live.
GoLive(d) ==
    /\ live' = [live EXCEPT ![d] = ApprovedRow]
    /\ UNCHANGED <<audit, receipts>>

HandoverNext ==
    \/ \E n \in Runs, s \in Snapshots : Publish(n, s)
    \/ \E c \in Corrections : Correct(c)
    \/ \E d \in DirectRoles : GoLive(d)

HandoverSpec == HandoverInit /\ [][HandoverNext]_handoverVars
=============================================================================
