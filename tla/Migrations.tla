----------------------------- MODULE Migrations -----------------------------
(***************************************************************************)
(* The migrations of jobs.db: one ordered list of phases, a ledger of those *)
(* that have been applied, and migrate(), which applies the others.  SQLite *)
(* commits a schema statement on its own unless rows were written before it *)
(* in the same phase, and a phase is recorded only after it has returned,   *)
(* so a lost process can leave a phase half applied and not recorded.  The  *)
(* web service's editor adds two of the columns by itself.                  *)
(***************************************************************************)
EXTENDS Integers, Sequences, FiniteSets, FiniteSetsExt, SequencesExt

CONSTANTS
    Starts,         \* databases to begin with: migrated up to a phase, or "fresh"
    RowsAtStart,    \* Listings: records of active, dated and tech
    CompanyRuns,    \* rows of pipeline_company_runs under its old key
    MaxCrashes      \* bound: lost processes

ASSUME MigrationsAssumption ==
    /\ Starts \subseteq [phase : 9..43, ledger : BOOLEAN]
    /\ RowsAtStart \subseteq [active : BOOLEAN, dated : BOOLEAN, tech : BOOLEAN]
    /\ MaxCrashes \in Nat

----------------------------------------------------------------------------
(* Statements.                                                             *)

St(does, t, c) == [does |-> does, table |-> t, name |-> c]
JobsTable(t) == St("table", t, "none")
Col(t, c) == St("column", t, c)         \* ALTER TABLE ADD COLUMN, if the phase found none
Index(t, c) == St("index", t, c)        \* CREATE INDEX IF NOT EXISTS
IndexWith(t, c) == St("indexwith", t, c) \* the same, only along with the new column
Rows(what, t, c) == St(what, t, c)      \* rows written; opens a transaction

Cols(t, cs) == [i \in DOMAIN cs |-> Col(t, cs[i])]
J == "jobs"
E == "job_enrichments"

\* The jobs table as it is created today, with the columns later phases would add.
BaseColumns == {"company_slug", "seniority", "source", "closed_at", "scraped_under_slug", "source_tier",
    "extraction_confidence", "category", "apply_url", "cross_posted", "is_primary", "board_signals", "vacancy_id"}
ensure_schema == <<JobsTable(J), Index(J, "company_slug"), Index(J, "seniority"), Index(J, "source"),
                   Index(J, "vacancy_id")>>

phase_10 == ensure_schema
phase_11 == <<JobsTable("job_history"), JobsTable("company_metrics")>>
phase_12 == <<JobsTable(E)>>
phase_13 == <<Col(J, "scraped_under_slug")>>
phase_14 == Cols(E, <<"salary_estimated_min", "salary_estimated_max", "salary_estimated_confidence">>)
phase_15 == <<Col(E, "description_summary")>>
phase_16 == Cols(J, <<"source_tier", "extraction_confidence">>)
phase_17 == <<Col(J, "category")>>
phase_18 == <<Col(E, "title_en")>>
phase_19 == Cols(J, <<"apply_url", "cross_posted">>)
phase_20 == <<Col(J, "is_primary"), IndexWith(J, "is_primary")>>
phase_21 == <<Col(J, "board_signals")>>
phase_22 == <<Col(J, "grp_new"), Col(J, "grp_urgent"), Col(J, "grp_applicants"), Index(J, "apply_url"),
              Index(J, "grp_new"), Index(J, "grp_urgent"), Index(J, "grp_applicants")>>
phase_23 == <<Col(E, "prompt_version")>>
phase_24 == <<JobsTable("salary_audit_log"), Index("salary_audit_log", "none")>>
phase_25 == Cols(E, <<"salary_tier", "salary_role">>)
phase_26 == <<JobsTable("linkedin_posts"), Index("linkedin_posts", "none"), JobsTable("recruiter_fetch_state"),
              JobsTable("vendor_costs"), Index("vendor_costs", "none")>>
phase_27 == Cols("linkedin_posts", <<"extraction_result_json", "extraction_confidence", "extraction_prompt_version">>)
phase_28 == Cols("recruiter_fetch_state", <<"email", "email_fetched_at">>)
phase_29 == <<Rows("reads", E, "prompt_version")>>
phase_30 == <<Col(J, "closed_at"), Rows("date", J, "closed_at"), Rows("undate", J, "closed_at")>>
phase_31 == <<JobsTable("run_cadence")>>
phase_32 == <<JobsTable("jobs_fts"), JobsTable("search_vocab"), Rows("reads", E, "title_en")>>
phase_33 == <<Col(E, "manually_edited_at"), JobsTable("admin_edits")>>
phase_34 == <<JobsTable("pipeline_company_runs"), Index("pipeline_company_runs", "date"),
              JobsTable("ai_usage"), Index("ai_usage", "none"), JobsTable("pipeline_operations")>>
phase_35 == <<JobsTable("company_runs_v2"), Rows("copy", "pipeline_company_runs", "none"),
              St("drop", "pipeline_company_runs", "none"), St("rename", "company_runs_v2", "pipeline_company_runs"),
              Index("pipeline_company_runs", "date")>>
phase_36 == <<JobsTable("admin_salary_corrections"), Index("admin_salary_corrections", "none")>>
phase_37 == <<Col(E, "salary_grade")>>
phase_38 == <<Col(J, "vacancy_id"), IndexWith(J, "vacancy_id")>>
phase_39 == <<Rows("reopen", J, "vacancy_id")>>
phase_40 == <<Col(J, "grp_seniority")>>
phase_41 == <<Col(J, "admin_hidden")>>
phase_42 == <<JobsTable("highlight_weeks"), JobsTable("highlight_roles"),
              Rows("lock", "highlight_weeks", "none"), Rows("pick", "highlight_roles", "none")>>
phase_43 == <<Rows("reads", E, "salary_estimated_min"), Rows("reads", E, "salary_estimated_max")>>

MIGRATIONS == <<phase_10, phase_11, phase_12, phase_13, phase_14, phase_15, phase_16, phase_17,
    phase_18, phase_19, phase_20, phase_21, phase_22, phase_23, phase_24, phase_25, phase_26, phase_27,
    phase_28, phase_29, phase_30, phase_31, phase_32, phase_33, phase_34, phase_35, phase_36, phase_37,
    phase_38, phase_39, phase_40, phase_41, phase_42, phase_43>>
Phases == 10..43
Statements(n) == MIGRATIONS[n - 9]

----------------------------------------------------------------------------
VARIABLES
    began,          \* the database migrate was given
    db,             \* what is committed
    job,           \* what this connection sees
    wrote,          \* a transaction is open
    running,        \* the phase at work, 0 between phases, -1 when migrate is not running
    step,           \* its next statement
    seen,           \* the columns it found when it began
    editor,         \* ensure_schema of the editor: "idle", "read", "half", "done"
    found,          \* the columns the editor found
    lost            \* bound: lost processes so far

migrationVars == <<began, db, job, wrote, running, step, seen, editor, found, lost>>

\* What a database holds that was migrated up to phase k when that was the last one.
Until(k) == UNION {Range(Statements(n)) : n \in 10..k}
MigratedTo(k) ==
    [tables |-> {s.table : s \in {x \in Until(k) : x.does = "table"}},
     columns |-> {<<s.table, s.name>> : s \in {x \in Until(k) : x.does = "column"}}
                 \cup {<<J, c>> : c \in {"company_slug", "seniority", "source"}},
     indexes |-> {<<s.table, s.name>> : s \in {x \in Until(k) : x.does \in {"index", "indexwith"}}},
     ledger |-> 10..k,
     runs |-> IF k = 34 THEN CompanyRuns ELSE {}, copied |-> {},
     rows |-> IF k = 9 THEN {} ELSE {IF k < 30 THEN [r EXCEPT !.dated = FALSE] ELSE r : r \in
                  {x \in RowsAtStart : k >= 30 => x.active # x.dated}},
     week |-> "open"]

\* The same without its ledger: it was migrated before there was one.
Unrecorded(k) == [MigratedTo(k) EXCEPT !.ledger = {}]

MigrationsInit ==
    /\ began \in Starts
    /\ db = (IF began.ledger THEN MigratedTo(began.phase) ELSE Unrecorded(began.phase))
    /\ job = db /\ wrote = FALSE /\ running = -1 /\ step = 1 /\ seen = {}
    /\ editor = "idle" /\ found = {} /\ lost = 0

----------------------------------------------------------------------------
(* migrate.                                                                *)

Pending == Phases \ db.ledger

BeginPhase ==
    /\ running = -1 /\ Pending # {}
    /\ running' = 0
    /\ UNCHANGED <<began, db, job, wrote, step, seen, editor, found, lost>>

\* Mutant of StartPhase: the phase does not look which columns are there.
StartBlindly ==
    /\ running = 0 /\ Pending # {}
    /\ running' = Min(Pending) /\ step' = 1 /\ seen' = {}
    /\ UNCHANGED <<began, db, job, wrote, editor, found, lost>>

\* The next phase begins by reading which columns there are.
StartPhase ==
    /\ running = 0 /\ Pending # {}
    /\ running' = Min(Pending) /\ step' = 1 /\ seen' = job.columns
    /\ UNCHANGED <<began, db, job, wrote, editor, found, lost>>

AllApplied ==
    /\ running = 0 /\ Pending = {} /\ running' = -1
    /\ UNCHANGED <<began, db, job, wrote, step, seen, editor, found, lost>>

Now == Statements(running)[step]
AtStatement == running > 0 /\ step <= Len(Statements(running))

\* The statement can be run: its table is there, and the column it speaks of.
RunPhase(s) ==
    CASE s.does = "table" -> TRUE
      [] s.does = "column" -> s.table \in job.tables /\ (<<s.table, s.name>> \in seen <=> <<s.table, s.name>> \in job.columns)
      [] s.does \in {"index", "indexwith", "reads", "date", "undate", "reopen"} ->
             s.table \in job.tables
             /\ (s.name \in {"none", "date"} \/ <<s.table, s.name>> \in job.columns)
      [] OTHER -> s.table \in job.tables

\* JobStore.reactivate of what the filter for tech titles had closed.
Reopened(rs) == {IF r.tech /\ ~r.active THEN [r EXCEPT !.active = TRUE, !.dated = FALSE] ELSE r : r \in rs}

After(s) ==
    CASE s.does = "table" ->
             [job EXCEPT !.tables = @ \cup {s.table}, !.columns = @ \cup
                 {<<J, c>> : c \in IF s.table = J /\ J \notin job.tables THEN BaseColumns ELSE {}}]
      [] s.does = "column" -> [job EXCEPT !.columns = @ \cup {<<s.table, s.name>>}]
      [] s.does = "index" -> [job EXCEPT !.indexes = @ \cup {<<s.table, s.name>>}]
      [] s.does = "indexwith" -> IF <<s.table, s.name>> \in seen THEN job
                                 ELSE [job EXCEPT !.indexes = @ \cup {<<s.table, s.name>>}]
      [] s.does = "date" -> [job EXCEPT !.rows = {IF r.active THEN r ELSE [r EXCEPT !.dated = TRUE] : r \in @}]
      [] s.does = "undate" -> [job EXCEPT !.rows = {IF r.active THEN [r EXCEPT !.dated = FALSE] ELSE r : r \in @}]
      [] s.does = "reopen" -> [job EXCEPT !.rows = Reopened(@)]
      [] s.does = "copy" -> [job EXCEPT !.copied = @ \cup job.runs]
      [] s.does = "drop" -> [job EXCEPT !.tables = @ \ {s.table}, !.runs = {}]
      [] s.does = "rename" -> [job EXCEPT !.tables = (@ \ {s.table}) \cup {s.name}, !.runs = job.copied, !.copied = {}]
      [] s.does = "lock" -> IF job.week = "open" /\ job.rows # {} THEN [job EXCEPT !.week = "locked"] ELSE job
      [] s.does = "pick" -> IF job.week = "locked" THEN [job EXCEPT !.week = "picked"] ELSE job
      [] OTHER -> job

\* Mutant of OpensATransaction: every statement is committed on its own.
OpensNone(s) == FALSE

OpensATransaction(s) == s.does \in {"reads", "date", "undate", "reopen", "copy", "lock", "pick"}

\* Phase 35 leaves out its copy when there was no table to copy from.
LeftOut(s) == running = 35 /\ ("pipeline_company_runs" \notin db.tables) /\ s.does \in {"copy", "drop", "index"}

Execute ==
    /\ AtStatement /\ (LeftOut(Now) \/ RunPhase(Now))
    /\ job' = (IF LeftOut(Now) THEN job ELSE After(Now))
    /\ wrote' = (wrote \/ OpensATransaction(Now))
    /\ db' = (IF wrote' THEN db ELSE job')
    /\ step' = step + 1
    /\ UNCHANGED <<began, running, seen, editor, found, lost>>

\* The end of the phase's `with conn`.
CommitPhase ==
    /\ running > 0 /\ step = Len(Statements(running)) + 1
    /\ db' = job /\ wrote' = FALSE /\ step' = step + 1
    /\ UNCHANGED <<began, job, running, seen, editor, found, lost>>

\* The phase has returned and goes into the ledger.
Record ==
    /\ running > 0 /\ step = Len(Statements(running)) + 2
    /\ db' = [db EXCEPT !.ledger = @ \cup {running}] /\ job' = db'
    /\ running' = 0
    /\ UNCHANGED <<began, wrote, step, seen, editor, found, lost>>

\* A statement that cannot be run: the phase's rows are rolled back and migrate raises.
RaisePhase ==
    /\ AtStatement /\ ~LeftOut(Now) /\ ~RunPhase(Now)
    /\ job' = db /\ wrote' = FALSE /\ running' = -1
    /\ UNCHANGED <<began, db, step, seen, editor, found, lost>>

Die ==
    /\ running >= 0 /\ lost < MaxCrashes
    /\ job' = db /\ wrote' = FALSE /\ running' = -1 /\ lost' = lost + 1
    /\ UNCHANGED <<began, db, step, seen, editor, found>>

----------------------------------------------------------------------------
(* job_edit.ensure_schema, on another connection of the web service.       *)

EditorReads ==
    /\ editor = "idle" /\ E \in db.tables
    /\ editor' = "read" /\ found' = db.columns
    /\ UNCHANGED <<began, db, job, wrote, running, step, seen, lost>>

\* Adds a column it did not find; a column added meanwhile ends the request.
EditorAdds(t, c, from, to) ==
    /\ editor = from /\ ~wrote
    /\ editor' = IF <<t, c>> \in db.columns /\ <<t, c>> \notin found THEN "done" ELSE to
    /\ db' = [db EXCEPT !.columns = @ \cup {<<t, c>>}] /\ job' = db'
    /\ UNCHANGED <<began, wrote, running, step, seen, found, lost>>

EditorCreates ==
    /\ editor = "full" /\ ~wrote /\ editor' = "done"
    /\ db' = [db EXCEPT !.tables = @ \cup {"admin_edits", "admin_salary_corrections"}] /\ job' = db'
    /\ UNCHANGED <<began, wrote, running, step, seen, found, lost>>

Editor == EditorReads \/ EditorAdds(E, "manually_edited_at", "read", "half")
          \/ EditorAdds(J, "admin_hidden", "half", "full") \/ EditorCreates

Migrate == BeginPhase \/ StartPhase \/ AllApplied \/ Execute \/ CommitPhase \/ Record \/ RaisePhase
MigrationsNext == Migrate \/ Die \/ Editor
MigrationsSpec == MigrationsInit /\ [][MigrationsNext]_migrationVars

\* migrate is called again by the next run, and finishes unless its process is lost.
MigrationsFairness == WF_migrationVars(Migrate)

----------------------------------------------------------------------------
\* A recorded phase that is not being run has been applied whole, wherever an earlier attempt
\* at it was lost: its tables and columns are there (migrate: "the next run resumes at the failure").
RecordedPhasesAreWhole ==
    \A n \in db.ledger \ {running} : \A s \in Range(Statements(n)) :
        began.ledger \/ n > began.phase =>
            /\ s.does = "table" /\ s.table # "company_runs_v2" => s.table \in db.tables
            /\ s.does = "column" => <<s.table, s.name>> \in db.columns

\* The phases stand in an order in which each finds the tables and columns it speaks of, on a
\* new database and on one stopped anywhere (test_a_database_can_be_built_from_nothing); what
\* can fail is a column the editor added since the phase looked.
OnlyTheEditorStopsAPhase ==
    [][running > 0 /\ running' = -1 /\ lost' = lost => editor # "idle"]_migrationVars

\* The company runs of earlier nights live through the change of their key, at whatever
\* statement the process is lost (migrate_to_phase_35).
CompanyRunsSurvive == began.phase = 34 => CompanyRuns \subseteq db.runs

\* Once phase 30 is recorded, a Listing has a closing date exactly when it is closed
\* (storage.py: "`closed_at IS NOT NULL` and `is_active = 0` always agree").
ClosuresAreDated == 30 \in db.ledger => \A r \in db.rows : r.active # r.dated

\* The week that was locked in advance has its Roles (migrate_to_phase_42).
LockedWeeksHaveTheirRoles == db.week # "locked"

\* A database that was given to migrate reaches the latest phase once processes last.
MigrationsConverge == <>[](Pending = {})
\* Wherever a migration was lost, what it recorded is whole and what was there before lives on.
MigratedWhole ==
    /\ [](RecordedPhasesAreWhole /\ CompanyRunsSurvive /\ ClosuresAreDated /\ LockedWeeksHaveTheirRoles)
    /\ OnlyTheEditorStopsAPhase
=============================================================================
