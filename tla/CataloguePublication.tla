----------------------- MODULE CataloguePublication -----------------------
(***************************************************************************)
(* webapp/backend/pipeline_publish.py: publish_catalogue, as the requests  *)
(* of one web process run it against the live jobs.db, interleaved with    *)
(* the two other writers of that file: an admin's correction               *)
(* (job_edit.apply_edit) and the approval of a direct Role                 *)
(* (submissions.approve_submission), and with crashes of the process.      *)
(*                                                                         *)
(* One action is one stretch of publish_catalogue between two points where *)
(* another thread, or a crash, can be observed: a statement that reads or  *)
(* commits the live file.                                                  *)
(***************************************************************************)
EXTENDS CatalogueRows, Sequences

CONSTANTS
    Threads,        \* request threads of the web process
    Admins,         \* admins with a correction form open
    Runs,           \* Daily Run identities (X-Pipeline-Run-Id)
    Snapshots,      \* the catalogues the pipeline hands over
    Uploads,        \* the uploads that arrive, with what is wrong with them
    Corrections,    \* the corrections admins make
    Seed,           \* the catalogue the volume starts with
    ShrinkFloor,    \* 100: live Roles from which the size guard applies
    ShrinkMin,      \* 25: what it asks for at least
    KeepBackups,    \* 3: backups kept by _backup
    Nobody, NoSnapshot, NoUpload, NoForm

\* intact: the gzip, its SHA-256 and SQLite's quick_check agree and no required
\* table is missing; compatible: _copy_rows finds the columns it expects.
Upload == [run: Runs, snapshot: Snapshots, intact: BOOLEAN, compatible: BOOLEAN]

ASSUME SnapshotsAssumption == Snapshots \subseteq Catalogue /\ Seed \in Snapshots
ASSUME UploadsAssumption == Uploads \subseteq Upload
ASSUME CorrectionsAssumption == Corrections \subseteq Correction
ASSUME BoundsAssumption ==
    /\ ShrinkFloor \in Nat /\ ShrinkMin \in Nat
    /\ KeepBackups \in Nat \ {0}
ASSUME NullsAssumption ==
    /\ Nobody \notin Threads /\ NoSnapshot \notin Snapshots
    /\ NoUpload \notin Uploads
    /\ NoForm \notin [correction: Corrections, seen: Row]

VARIABLES
    live,       \* jobs.db: the committed row of every key
    audit,      \* jobs.db: admin_edits, the latest text per Role and field
    receipts,   \* jobs.db: pipeline_catalog_sync, the snapshot of each run
    base,       \* history: the snapshot of the last committed publication
    approved,   \* history: direct Roles whose approval was answered 200
    backups,    \* catalog-backups/, newest first: the snapshot each one holds
    lock,       \* _LOCK: the thread publishing, or Nobody
    writer,     \* SQLite's write lock: the thread inside BEGIN IMMEDIATE
    pc,         \* where each request thread is
    upload,     \* the upload each thread is serving
    stash,      \* direct_jobs and direct_enrichments of each thread
    work,       \* the uncommitted catalogue of each thread
    answer,     \* the answer of each thread's request
    form        \* the correction form of each admin, with the row it read

vars == <<live, audit, receipts, base, approved, backups, lock, writer,
          pc, upload, stash, work, answer, form>>
siteVars == <<live, audit, receipts, base, approved>>
localVars == <<upload, stash, work>>

PC == {"idle", "validate", "receipt", "backup", "direct", "begin",
       "import", "commit", "committed", "done"}
Working == PC \ {"idle", "done"}

Answers == {"none", "busy", "invalid", "miscounted", "conflict",
            "already", "published", "error"}

NoDirect == [d \in DirectRoles |-> AbsentRow]
NoWork == [r \in Roles |-> AbsentRow]

----------------------------------------------------------------------------
Init ==
    /\ live = [r \in Roles |-> IF r \in PipelineRoles THEN Seed[r] ELSE AbsentRow]
    /\ audit = [r \in Roles |-> NoAudit]
    /\ receipts = [n \in Runs |-> NoSnapshot]
    /\ base = Seed
    /\ approved = {}
    /\ backups = <<>>
    /\ lock = Nobody
    /\ writer = Nobody
    /\ pc = [t \in Threads |-> "idle"]
    /\ upload = [t \in Threads |-> NoUpload]
    /\ stash = [t \in Threads |-> NoDirect]
    /\ work = [t \in Threads |-> NoWork]
    /\ answer = [t \in Threads |-> "none"]
    /\ form = [a \in Admins |-> NoForm]

----------------------------------------------------------------------------
(* publish_catalogue.                                                      *)

\* Mutant of Leave: the rollback is missing.
LeaveOpen(t, why) ==
    /\ pc' = [pc EXCEPT ![t] = "done"]
    /\ answer' = [answer EXCEPT ![t] = why]
    /\ lock' = IF lock = t THEN Nobody ELSE lock
    /\ stash' = [stash EXCEPT ![t] = NoDirect]
    /\ work' = [work EXCEPT ![t] = NoWork]
    /\ UNCHANGED writer

\* Leave the function with an answer: roll back, drop the locals, release
\* _LOCK (the except and finally blocks).
Leave(t, why) ==
    /\ pc' = [pc EXCEPT ![t] = "done"]
    /\ answer' = [answer EXCEPT ![t] = why]
    /\ lock' = IF lock = t THEN Nobody ELSE lock
    /\ writer' = IF writer = t THEN Nobody ELSE writer
    /\ stash' = [stash EXCEPT ![t] = NoDirect]
    /\ work' = [work EXCEPT ![t] = NoWork]

Goto(t, label) == pc' = [pc EXCEPT ![t] = label]

\* Mutant of Receive: no _LOCK.
ReceiveUnlocked(t, u) ==
    /\ pc[t] = "idle"
    /\ upload' = [upload EXCEPT ![t] = u]
    /\ lock' = t
    /\ Goto(t, "validate")
    /\ UNCHANGED <<siteVars, backups, form, answer, stash, work, writer>>

\* The request arrives and tries _LOCK without waiting.
Receive(t, u) ==
    /\ pc[t] = "idle"
    /\ upload' = [upload EXCEPT ![t] = u]
    /\ IF lock = Nobody
       THEN /\ lock' = t
            /\ Goto(t, "validate")
            /\ UNCHANGED <<answer, stash, work, writer>>
       ELSE Leave(t, "busy")
    /\ UNCHANGED <<siteVars, backups, form>>

\* The guard of _validate against a catastrophically small catalogue.
Shrunk(incoming, current) ==
    /\ current >= ShrinkFloor
    /\ \/ incoming < ShrinkMin
       \/ incoming < current \div 4

Acceptable(u) ==
    LET incoming == ActiveCount(u.snapshot, PipelineRoles)
    IN  /\ u.intact
        /\ incoming >= 1
        /\ ~Shrunk(incoming, ActiveCount(live, PipelineRoles))

\* _decompress, _upgrade_live_schema and _validate.
Validate(t) ==
    /\ pc[t] = "validate"
    /\ IF Acceptable(upload[t])
       THEN /\ Goto(t, "receipt")
            /\ UNCHANGED <<answer, lock, writer, stash, work>>
       ELSE Leave(t, "invalid")
    /\ UNCHANGED <<siteVars, backups, upload, form>>

\* Mutant of CheckReceipt: the receipt's snapshot is not compared.
ReceiptUncompared(t) ==
    /\ pc[t] = "receipt"
    /\ IF receipts[upload[t].run] = NoSnapshot
       THEN Goto(t, "backup") /\ UNCHANGED <<answer, lock, writer, stash, work>>
       ELSE Leave(t, "already")
    /\ UNCHANGED <<siteVars, backups, upload, form>>

\* Look for a receipt of this run.
CheckReceipt(t) ==
    LET prior == receipts[upload[t].run]
    IN  /\ pc[t] = "receipt"
        /\ \/ /\ prior = NoSnapshot
              /\ Goto(t, "backup")
              /\ UNCHANGED <<answer, lock, writer, stash, work>>
           \/ /\ prior = upload[t].snapshot
              /\ Leave(t, "already")
           \/ /\ prior \notin {NoSnapshot, upload[t].snapshot}
              /\ Leave(t, "conflict")
        /\ UNCHANGED <<siteVars, backups, upload, form>>

\* _backup copies the live file, then deletes all but the newest few.
Trimmed(new, old) ==
    SubSeq(<<new>> \o old, 1,
           IF Len(old) < KeepBackups THEN Len(old) + 1 ELSE KeepBackups)

BackUp(t) ==
    /\ pc[t] = "backup"
    /\ backups' = Trimmed(base, backups)
    /\ Goto(t, "direct")
    /\ UNCHANGED <<siteVars, lock, writer, upload, stash, work, answer, form>>

\* _rows_as_dicts, twice, before the transaction begins.
ReadDirect(t) ==
    /\ pc[t] = "direct"
    /\ stash' = [stash EXCEPT ![t] = [d \in DirectRoles |-> live[d]]]
    /\ Goto(t, "begin")
    /\ UNCHANGED <<siteVars, backups, lock, writer, upload, work, answer, form>>

\* BEGIN IMMEDIATE.
Begin(t) ==
    /\ pc[t] = "begin"
    /\ writer = Nobody
    /\ writer' = t
    /\ Goto(t, "import")
    /\ UNCHANGED <<siteVars, backups, lock, upload, stash, work, answer, form>>

\* Mutants of NewCatalogue: no correction is reapplied; no direct row is put back.
Uncorrected(snapshot, direct) ==
    [r \in Roles |-> IF r \in PipelineRoles THEN snapshot[r] ELSE direct[r]]

WithoutDirect(snapshot, direct) ==
    [r \in Roles |->
        Reapplied(IF r \in PipelineRoles THEN snapshot[r] ELSE AbsentRow, audit[r])]

\* _copy_rows replaces every row, _insert_dicts puts the direct rows back, and
\* job_edit.reapply_recorded_edits lays the corrections over the result.
NewCatalogue(snapshot, direct) ==
    [r \in Roles |->
        Reapplied(IF r \in PipelineRoles THEN snapshot[r] ELSE direct[r], audit[r])]

Import(t) ==
    /\ pc[t] = "import"
    /\ IF upload[t].compatible
       THEN /\ work' = [work EXCEPT ![t] = NewCatalogue(upload[t].snapshot, stash[t])]
            /\ Goto(t, "commit")
            /\ UNCHANGED <<answer, lock, writer, stash>>
       ELSE Leave(t, "invalid")
    /\ UNCHANGED <<siteVars, backups, upload, form>>

\* The consistency check, the receipt and the commit.
CountHolds(t) ==
    ActiveCount(work[t], Roles) >= ActiveCount(upload[t].snapshot, PipelineRoles)

Commit(t) ==
    /\ pc[t] = "commit"
    /\ IF CountHolds(t)
       THEN /\ live' = work[t]
            /\ receipts' = [receipts EXCEPT ![upload[t].run] = upload[t].snapshot]
            /\ base' = upload[t].snapshot
            /\ writer' = Nobody
            /\ Goto(t, "committed")
            /\ UNCHANGED <<answer, lock, stash, work>>
       ELSE /\ Leave(t, "miscounted")
            /\ UNCHANGED <<live, receipts, base>>
    /\ UNCHANGED <<audit, approved, backups, upload, form>>

\* Close the connection, release _LOCK, answer with the receipt.
Finish(t) ==
    /\ pc[t] = "committed"
    /\ Leave(t, "published")
    /\ UNCHANGED <<siteVars, backups, upload, form>>

\* Any exception before the commit: a full disk, a busy database.
Fail(t) ==
    /\ pc[t] \in Working \ {"committed"}
    /\ Leave(t, "error")
    /\ UNCHANGED <<siteVars, backups, upload, form>>

\* The answer is sent and the thread is free again.
Reply(t) ==
    /\ pc[t] = "done"
    /\ Goto(t, "idle")
    /\ upload' = [upload EXCEPT ![t] = NoUpload]
    /\ answer' = [answer EXCEPT ![t] = "none"]
    /\ UNCHANGED <<siteVars, backups, lock, writer, stash, work, form>>

----------------------------------------------------------------------------
(* The other writers of the live jobs.db.                                  *)

\* apply_edit reads the row first, outside its transaction.
OpenForm(a, c) ==
    /\ form[a] = NoForm
    /\ live[c.role].present
    /\ form' = [form EXCEPT ![a] = [correction |-> c, seen |-> live[c.role]]]
    /\ UNCHANGED <<siteVars, backups, lock, writer, pc, localVars, answer>>

\* A value equal to the one that was read is filtered out before any SQL.
Changes(row, c) ==
    CASE c.field = "active" -> row.active # (c.value = "true")
      [] c.field = "hidden" -> row.hidden # (IF c.value = "true" THEN "1" ELSE "0")
      [] c.field = "pay" -> row.pay # c.value

\* The row and its audit in one transaction, filtered on what was read.
ApplyEdit(a) ==
    /\ form[a] # NoForm
    /\ LET c == form[a].correction IN
       IF Changes(form[a].seen, c)
       THEN /\ writer = Nobody
            /\ live' = IF live[c.role].present
                       THEN [live EXCEPT ![c.role] = Corrected(live[c.role], c)]
                       ELSE live
            /\ audit' = [audit EXCEPT ![c.role] = Noted(audit[c.role], c)]
       ELSE UNCHANGED <<live, audit>>
    /\ form' = [form EXCEPT ![a] = NoForm]
    /\ UNCHANGED <<receipts, base, approved, backups, lock, writer, pc, localVars, answer>>

\* approve_submission: insert the direct Role.  The route then marks the
\* submission approved, and from then on answers without inserting again.
Approve(d) ==
    /\ d \notin approved
    /\ writer = Nobody
    /\ live' = [live EXCEPT ![d] = ApprovedRow]
    /\ approved' = approved \cup {d}
    /\ UNCHANGED <<audit, receipts, base, backups, lock, writer, pc, localVars,
                   answer, form>>

\* The web process dies: SQLite discards the open transaction, _LOCK and every
\* request are gone.
Crash ==
    /\ \E t \in Threads : pc[t] # "idle"
    /\ lock' = Nobody
    /\ writer' = Nobody
    /\ pc' = [t \in Threads |-> "idle"]
    /\ upload' = [t \in Threads |-> NoUpload]
    /\ stash' = [t \in Threads |-> NoDirect]
    /\ work' = [t \in Threads |-> NoWork]
    /\ answer' = [t \in Threads |-> "none"]
    /\ form' = [a \in Admins |-> NoForm]
    /\ UNCHANGED <<siteVars, backups>>

----------------------------------------------------------------------------
\* One step of the request a thread is serving.
Step(t) ==
    \/ Validate(t) \/ CheckReceipt(t) \/ BackUp(t) \/ ReadDirect(t)
    \/ Begin(t) \/ Import(t) \/ Commit(t) \/ Finish(t) \/ Reply(t)

Next ==
    \/ \E t \in Threads : \E u \in Uploads : Receive(t, u)
    \/ \E t \in Threads : Step(t)
    \/ \E t \in Threads : Fail(t)
    \/ \E a \in Admins : \E c \in Corrections : OpenForm(a, c)
    \/ \E a \in Admins : ApplyEdit(a)
    \/ \E d \in DirectRoles : Approve(d)
    \/ Crash

Spec == Init /\ [][Next]_vars

\* A request that can take its next step takes it.  Arrivals, failures, crashes
\* and admins owe nothing.
RequestsProceed == \A t \in Threads : WF_vars(Step(t))

----------------------------------------------------------------------------
(* Properties.                                                             *)

TypeOK ==
    /\ live \in [Roles -> Row]
    /\ audit \in [Roles -> Audit]
    /\ receipts \in [Runs -> Snapshots \cup {NoSnapshot}]
    /\ base \in Snapshots
    /\ approved \subseteq DirectRoles
    /\ backups \in Seq(Snapshots) /\ Len(backups) <= KeepBackups
    /\ lock \in Threads \cup {Nobody}
    /\ writer \in Threads \cup {Nobody}
    /\ pc \in [Threads -> PC]
    /\ upload \in [Threads -> Uploads \cup {NoUpload}]
    /\ stash \in [Threads -> [DirectRoles -> Row]]
    /\ work \in [Threads -> [Roles -> Row]]
    /\ answer \in [Threads -> Answers]
    /\ form \in [Admins -> [correction: Corrections, seen: Row] \cup {NoForm}]

\* `row' is what `from' becomes under the corrections `a': every corrected
\* field holds the correction, every other field what `from' had.
Carries(row, from, a) ==
    IF ~from.present THEN row = from
    ELSE /\ SameButHidden(row, Reapplied(from, a))
         /\ row.hidden \in IF a.hidden = NoEdit THEN {from.hidden}
                           ELSE {a.hidden, HiddenCell(a.hidden)}

\* Readers never find a catalogue that mixes two publications, lacks a
\* correction, or belongs to a publication that failed or was cut short: every
\* pipeline Role is the last published one under the corrections on record
\* (module docstring of pipeline_publish.py; ADR 0015, "One publication path").
CatalogueIsOnePublication ==
    \A r \in PipelineRoles : Carries(live[r], base[r], audit[r])

\* A direct Role on the board carries every correction on record, those made
\* after publish_catalogue read it into memory included
\* (job_edit.reapply_recorded_edits runs inside the transaction).
DirectRolesCarryCorrections ==
    \A d \in DirectRoles :
        live[d].present => Carries(live[d], ApprovedRow, audit[d])

\* Whoever is told "published" or "already published" has the receipt of that
\* run and that snapshot in the live database, whatever failed since.
AnswersAreTrue ==
    \A t \in Threads :
        pc[t] = "done" /\ answer[t] \in {"published", "already"}
            => receipts[upload[t].run] = upload[t].snapshot

\* A receipt, once there, never changes, and the live catalogue is replaced
\* only in the step that writes the receipt of a run that had none: two uploads
\* of one run cannot both go live (ADR 0015, "Interface").
HandoverLeavesOneReceipt ==
    [][/\ \A n \in Runs : receipts[n] # NoSnapshot => receipts'[n] = receipts[n]
       /\ base' # base =>
            \E n \in Runs : receipts[n] = NoSnapshot /\ receipts'[n] = base']_vars

\* What a publication replaces is in the newest backup: no publication runs
\* between another one's backup and its commit (ADR 0015, "Every accepted
\* handover is backed up").
ReplacedCatalogueIsBackedUp ==
    [][receipts' # receipts => backups # <<>> /\ Head(backups) = base]_vars

\* A publication takes no direct Role off the board that was there when it
\* read them.
OnlyUnseenApprovalsAreLost ==
    [][\A d \in DirectRoles :
        live[d].present /\ ~live'[d].present
            => \E t \in Threads : pc[t] = "commit" /\ ~stash[t][d].present]_vars

\* Every upload is answered, or its process dies.
RequestsAreAnswered == \A t \in Threads : []<>(pc[t] = "idle")

\* The publication implements the promise of ADR 0015.
Handover == INSTANCE CatalogueHandover WITH live <- live, audit <- audit, receipts <- receipts
HandsOver == Handover!HandoverSpec

----------------------------------------------------------------------------
(* What the repository says and the code does not do.                      *)

\* CONTEXT.md:160 "It preserves Railway-owned direct Roles".
DirectRolesSurvive == \A d \in approved : live[d].present

\* docs/adr/0032:92 "A hidden Role is off the board for everyone".
HiddenRolesStayOffTheBoard ==
    \A r \in Roles : audit[r].hidden = "True" => ~BoardVisible(live[r])
=============================================================================
