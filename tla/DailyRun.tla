------------------------------- MODULE DailyRun -------------------------------
(***************************************************************************)
(* The Daily Run (hk_jobs/daily_run) against Railway and GitHub: attempts   *)
(* of workflow runs, one at a time (the concurrency group of daily.yml), a  *)
(* profile's phases in order, the Daily Run Record, the upload and its      *)
(* answer, the reports, and what the next attempt restores from.  "Re-run   *)
(* jobs" starts another attempt under the same run id.                     *)
(*                                                                         *)
(* A catalogue is what has been done to it: the phases completed on it and  *)
(* the ai_usage totals it carries.  CataloguePublication models the inside  *)
(* of a publication; here it accepts an upload, or refuses it.             *)
(***************************************************************************)
EXTENDS Integers, Sequences, FiniteSets

CONSTANTS
    RunIds,         \* workflow runs
    Profiles,       \* the profiles in use, among those of ProfilePhases
    MaxAttempts,    \* bound: attempts in all
    MaxBatch,       \* bound: Roles one enrichment batch holds
    None

PhaseNames == {"restore", "scrape", "descriptions", "deepseek", "salary_audit", "linkedin_fetch",
               "linkedin_promote", "salary_repair", "publish"}

\* What has been done to a database, and the Roles its ai_usage counts for a run id.
Catalogue == [done: SUBSET (Nat \X PhaseNames), usage: [RunIds -> Nat]]

RequiredPhases == {"restore", "scrape", "descriptions", "deepseek", "salary_repair", "publish"}

ProfilePhases ==
    [hosted |-> <<"restore", "scrape", "descriptions", "deepseek", "salary_audit",
                  "linkedin_fetch", "linkedin_promote", "publish">>,
     enrich_only |-> <<"restore", "deepseek", "publish">>,
     repair |-> <<"restore", "salary_repair", "publish">>]

Reporters == <<"email", "railway_record", "github_summary">>

\* DailyRunRecord: the states of its phases, its verdict, what it has reported.
PhaseStates == {"pending", "running", "success", "warning", "failed", "skipped"}
Verdicts == {"running", "success", "warning", "failed"}
Outcomes == {"success", "failed"}
PhaseMaps == UNION {[DOMAIN ProfilePhases[p] -> PhaseStates] : p \in Profiles}
Record == [run: RunIds, attempt: Nat, profile: Profiles, phases: PhaseMaps, status: Verdicts,
           restored: {None, "railway", "github_artifact", "fresh"}, published: Nat \cup {None},
           reporting: Seq(Outcomes)]

ASSUME DailyRunAssumption ==
    /\ Profiles \subseteq {"hosted", "enrich_only", "repair"}
    /\ MaxAttempts \in Nat /\ MaxBatch \in Nat
    /\ None \notin RunIds \cup Nat \cup Catalogue \cup Record \cup {"accepted", "refused"}

VARIABLES
    live,           \* Railway: the catalogue readers see
    receipts,       \* the attempt each run id has a receipt for, or None
    operations,     \* pipeline_operations: the attempt and verdict last reported, or None
    artifact,       \* GitHub: the database of the newest successful attempt
    uploads,        \* uploads on their way to Railway
    attempts,       \* attempts started so far
    pc,             \* where the current attempt is
    rec,            \* its Daily Run Record, or the last one
    local,          \* the runner's data/jobs.db
    answer,         \* what Railway answered to its upload, or None
    seen,           \* history: the live catalogue its restore copied, or None
    emptyHanded     \* history: attempts whose enrichment wrote nothing it tried

railway == <<live, receipts, operations>>
vars == <<railway, artifact, uploads, attempts, pc, rec, local, answer, seen, emptyHanded>>

Fresh == [done |-> {}, usage |-> [r \in RunIds |-> 0]]
Phases == ProfilePhases[rec.profile]
Running == {i \in DOMAIN rec.phases : rec.phases[i] = "running"}
Current == CHOOSE i \in Running : TRUE

Init ==
    /\ live = Fresh
    /\ receipts = [r \in RunIds |-> None] /\ operations = [r \in RunIds |-> None]
    /\ artifact = None /\ uploads = {}
    /\ attempts = 0 /\ pc = "idle" /\ rec = None
    /\ local = Fresh /\ answer = None /\ seen = None /\ emptyHanded = {}

----------------------------------------------------------------------------
(* run_daily: the loop over the phases.                                    *)

\* The workflow starts a run, or re-runs one: a new record, on an empty runner.
StartAttempt(run, profile) ==
    /\ pc = "idle" /\ attempts < MaxAttempts
    /\ attempts' = attempts + 1
    /\ rec' = [run |-> run, attempt |-> attempts + 1, profile |-> profile,
               phases |-> [i \in DOMAIN ProfilePhases[profile] |-> "pending"],
               status |-> "running", restored |-> None, published |-> None,
               reporting |-> <<>>]
    /\ pc' = "loop"
    /\ UNCHANGED <<railway, artifact, uploads, local, answer, seen, emptyHanded>>

BeginPhase ==
    /\ pc = "loop"
    /\ \E i \in DOMAIN rec.phases :
        /\ rec.phases[i] = "pending"
        /\ \A j \in 1 .. i - 1 : rec.phases[j] # "pending"
        /\ rec' = [rec EXCEPT !.phases[i] = "running"]
    /\ pc' = "phase"
    /\ UNCHANGED <<railway, artifact, uploads, attempts, local, answer, seen, emptyHanded>>

Requires(r, i) == ProfilePhases[r.profile][i] \in RequiredPhases

\* Mutant of Finalized: phases that never ran stay as they are.
FinalizedAsIs(r) == [r EXCEPT !.status = "failed"]

\* DailyRunRecord.finalize.
Finalized(r) ==
    LET ended == [i \in DOMAIN r.phases |->
                    IF r.phases[i] \in {"pending", "running"} THEN "skipped" ELSE r.phases[i]]
        failed == \E i \in DOMAIN ended : Requires(r, i) /\ ended[i] \in {"failed", "skipped"}
        warned == \/ \E i \in DOMAIN ended : ~Requires(r, i) /\ ended[i] \in {"warning", "failed"}
                  \/ \E i \in DOMAIN r.reporting : r.reporting[i] = "failed"
    IN [r EXCEPT !.phases = ended,
                 !.status = IF failed THEN "failed" ELSE IF warned THEN "warning" ELSE "success"]

\* The loop is left after the last phase.
Finalize ==
    /\ pc = "loop"
    /\ \A i \in DOMAIN rec.phases : rec.phases[i] # "pending"
    /\ rec' = Finalized(rec)
    /\ pc' = "report"
    /\ UNCHANGED <<railway, artifact, uploads, attempts, local, answer, seen, emptyHanded>>

\* The current phase ends well, with the facts it reports.
Succeed(facts) ==
    /\ rec' = [facts EXCEPT !.phases[Current] = "success"]
    /\ pc' = "loop"

\* The current phase raises: a required one ends the run, an optional one warns.
FailPhase ==
    IF Requires(rec, Current)
    THEN /\ rec' = Finalized([rec EXCEPT !.phases[Current] = "failed"])
         /\ pc' = "report"
    ELSE /\ rec' = [rec EXCEPT !.phases[Current] = "warning"]
         /\ pc' = "loop"

----------------------------------------------------------------------------
(* CommandPhaseExecutor: one phase.                                        *)

At(key) == pc = "phase" /\ Phases[Current] = key

\* Mutant of RestoreRailway: what was fetched is not put in place.
RestoreNothing ==
    /\ At("restore")
    /\ seen' = live
    /\ Succeed([rec EXCEPT !.restored = "railway"])
    /\ UNCHANGED <<railway, artifact, uploads, attempts, local, answer, emptyHanded>>

\* Railway's restore point, a copy of the live catalogue.
RestoreRailway ==
    /\ At("restore")
    /\ local' = live /\ seen' = live
    /\ Succeed([rec EXCEPT !.restored = "railway"])
    /\ UNCHANGED <<railway, artifact, uploads, attempts, answer, emptyHanded>>

\* Railway is unavailable: the newest successful artifact, or a new history.
RestoreElsewhere ==
    /\ At("restore")
    /\ \/ /\ artifact # None /\ local' = artifact
          /\ Succeed([rec EXCEPT !.restored = "github_artifact"])
       \/ /\ local' = Fresh
          /\ Succeed([rec EXCEPT !.restored = "fresh"])
    /\ UNCHANGED <<railway, artifact, uploads, attempts, answer, seen, emptyHanded>>

Did(key) == [local EXCEPT !.done = @ \cup {<<rec.attempt, key>>}]

\* A phase that changes the local catalogue and has nothing else to say.
Work ==
    /\ pc = "phase" /\ Phases[Current] \notin {"restore", "deepseek", "publish"}
    /\ local' = Did(Phases[Current])
    /\ Succeed(rec)
    /\ UNCHANGED <<railway, artifact, uploads, attempts, answer, seen, emptyHanded>>

\* A phase raises: a command exits non-zero, a key is missing.
Raise ==
    /\ pc = "phase" /\ Phases[Current] # "publish"
    /\ FailPhase
    /\ UNCHANGED <<railway, artifact, uploads, attempts, local, answer, seen, emptyHanded>>

\* The enrichment of a batch that is empty, or of which something was written.
Enrich ==
    /\ At("deepseek")
    /\ \E batch \in 0 .. MaxBatch :
        local' = IF batch = 0 THEN Did("deepseek")
                 ELSE [Did("deepseek") EXCEPT !.usage[rec.run] = batch]
    /\ Succeed(rec)
    /\ UNCHANGED <<railway, artifact, uploads, attempts, answer, seen, emptyHanded>>

\* Every Role of the batch failed.  ai_usage.record replaces the totals of the
\* run id, and the guard compares them with what the restored row said before.
EnrichNothing ==
    /\ At("deepseek")
    /\ \E batch \in 1 .. MaxBatch :
        /\ local' = [Did("deepseek") EXCEPT !.usage[rec.run] = batch]
        /\ IF batch - local.usage[rec.run] > 0 THEN FailPhase ELSE Succeed(rec)
    /\ emptyHanded' = emptyHanded \cup {rec.attempt}
    /\ UNCHANGED <<railway, artifact, uploads, attempts, answer, seen>>

----------------------------------------------------------------------------
(* _publish, and Railway's side of it.                                     *)

SendUpload ==
    /\ At("publish")
    /\ uploads' = uploads \cup {[run |-> rec.run, attempt |-> rec.attempt,
                                 profile |-> rec.profile, catalogue |-> local, seen |-> seen]}
    /\ pc' = "wait"
    /\ UNCHANGED <<railway, artifact, attempts, rec, local, answer, seen, emptyHanded>>

Answered(u, what) ==
    /\ uploads' = uploads \ {u}
    /\ answer' = IF pc = "wait" /\ rec.attempt = u.attempt THEN what ELSE answer
    /\ UNCHANGED <<operations, artifact, attempts, pc, rec, local, seen, emptyHanded>>

\* publish_catalogue commits, whether or not anybody still waits for it.  An attempt's
\* snapshot has bytes of its own; the same bytes again are CataloguePublication's.
Accept(u) ==
    /\ receipts[u.run] = None
    /\ live' = u.catalogue
    /\ receipts' = [receipts EXCEPT ![u.run] = u.attempt]
    /\ Answered(u, "accepted")

\* A conflict with the run id's receipt, an invalid snapshot, a busy database.
Refuse(u) == Answered(u, "refused") /\ UNCHANGED <<live, receipts>>

\* Mutant of HearAnswer: any answer will do.
HearAnything ==
    /\ pc = "wait" /\ answer # None
    /\ Succeed([rec EXCEPT !.published = rec.attempt])
    /\ UNCHANGED <<railway, artifact, uploads, attempts, local, answer, seen, emptyHanded>>

HearAnswer ==
    /\ pc = "wait" /\ answer # None
    /\ IF answer = "accepted" THEN Succeed([rec EXCEPT !.published = rec.attempt])
                              ELSE FailPhase
    /\ UNCHANGED <<railway, artifact, uploads, attempts, local, answer, seen, emptyHanded>>

\* 180 seconds are over, or the connection breaks, whatever Railway did or will do.
UploadTimesOut ==
    /\ pc = "wait"
    /\ FailPhase
    /\ UNCHANGED <<railway, artifact, uploads, attempts, local, answer, seen, emptyHanded>>

----------------------------------------------------------------------------
(* Reporting, and the end of the attempt.                                  *)

\* One reporter.  Railway may store the record and its answer be lost.
Report ==
    /\ pc = "report" /\ Len(rec.reporting) < Len(Reporters)
    /\ \E outcome \in {"success", "failed"} :
        rec' = Finalized([rec EXCEPT !.reporting = Append(@, outcome)])
    /\ IF Reporters[Len(rec.reporting) + 1] = "railway_record"
       THEN \/ operations' = [operations EXCEPT ![rec.run] =
                    [run |-> rec.run, attempt |-> rec.attempt, status |-> rec.status]]
            \/ operations' = operations
               /\ rec'.reporting[Len(rec'.reporting)] = "failed"
       ELSE UNCHANGED operations
    /\ UNCHANGED <<live, receipts, artifact, uploads, attempts, pc, local, answer, seen, emptyHanded>>

\* The runner is thrown away.
Gone == pc' = "idle" /\ local' = Fresh /\ answer' = None /\ seen' = None

\* The exit code; a green attempt's database is what others may restore.
Exit ==
    /\ pc = "report" /\ Len(rec.reporting) = Len(Reporters)
    /\ artifact' = IF rec.status # "failed" /\ \A i \in DOMAIN rec.reporting : rec.reporting[i] # "failed"
                   THEN local ELSE artifact
    /\ Gone
    /\ UNCHANGED <<railway, uploads, attempts, rec, emptyHanded>>

\* The runner is lost: the 300-minute limit, a cancelled job.
Interrupt ==
    /\ pc # "idle"
    /\ Gone
    /\ UNCHANGED <<railway, artifact, uploads, attempts, rec, emptyHanded>>

Step ==
    \/ BeginPhase \/ Finalize \/ RestoreRailway \/ RestoreElsewhere \/ Work \/ Raise
    \/ Enrich \/ EnrichNothing \/ SendUpload \/ HearAnswer \/ UploadTimesOut
    \/ Report \/ Exit

Next ==
    \/ \E run \in RunIds, profile \in Profiles : StartAttempt(run, profile)
    \/ Step
    \/ \E u \in uploads : Accept(u) \/ Refuse(u)
    \/ Interrupt

Spec == Init /\ [][Next]_vars

----------------------------------------------------------------------------
(* Properties.                                                             *)

TypeOK ==
    /\ \A c \in {live, local} \cup ({artifact, seen} \ {None}) :
            c.usage \in [RunIds -> 0 .. MaxBatch] /\ \A w \in c.done : w[1] \in 1 .. attempts
    /\ receipts \in [RunIds -> (1 .. attempts) \cup {None}]
    /\ attempts \in 0 .. MaxAttempts
    /\ rec \in Record \cup {None} /\ (rec = None <=> attempts = 0)
    /\ pc \in {"idle", "loop", "phase", "wait", "report"}
    /\ pc \in {"phase", "wait"} => Cardinality(Running) = 1
    /\ answer \in {None, "accepted", "refused"}

\* ADR 0013 "Publication is never attempted after an incomplete required path":
\* whatever is on its way to Railway went through every required phase of its
\* own attempt, in a run that may be the third under the same id.
UploadsAreComplete ==
    \A u \in uploads : \A key \in RequiredPhases \ {"restore", "publish"} :
        (\E i \in DOMAIN ProfilePhases[u.profile] : ProfilePhases[u.profile][i] = key)
            => <<u.attempt, key>> \in u.catalogue.done

\* A record that calls its run a success or a warning, on the runner or in
\* Railway's ledger, is one whose catalogue Railway has a receipt for, whatever
\* was lost, repeated or reported late.
GreenRunsArePublished ==
    \A r \in ({rec} \cup {operations[run] : run \in RunIds}) \ {None} :
        r.status \in {"success", "warning"} => receipts[r.run] = r.attempt

\* What is published went through its whole run, and a run that says so is published.
PublishedRunsAreWhole == UploadsAreComplete /\ GreenRunsArePublished

\* A record tells its run from the first phase on: what ran, ran in order and
\* before what did not; nothing ran after a required failure; and a record with
\* a verdict leaves no phase open (run_daily "always return a complete record").
RecordTellsTheRun ==
    rec # None =>
        /\ \A j \in DOMAIN rec.phases : \A i \in 1 .. j - 1 :
            rec.phases[j] \in {"running", "success", "warning", "failed"}
                => rec.phases[i] \in {"success", "warning"}
        /\ rec.status # "running"
            => \A i \in DOMAIN rec.phases : rec.phases[i] \notin {"pending", "running"}

\* A publication takes work off the live catalogue only when its attempt had not
\* seen that work: Railway could not be restored from, or an upload given up for
\* lost was published in between.
OnlyUnseenWorkIsLost ==
    [][live.done \subseteq live'.done \/ \E u \in uploads \ uploads' : u.seen # live]_vars

----------------------------------------------------------------------------
(* What the repository says and the code does not do.                      *)

\* execution.py:232 "so it catches both shapes of 'we tried and wrote nothing.'"
EmptyHandedRunsFail ==
    rec # None /\ rec.attempt \in emptyHanded =>
        \A i \in DOMAIN rec.phases : Phases[i] = "deepseek" => rec.phases[i] # "success"
=============================================================================
