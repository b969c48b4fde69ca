---------------------------- MODULE EnrichmentQueue ----------------------------
(***************************************************************************)
(* Which Roles a night pays the model for.  A Role is a candidate while it  *)
(* has no enrichment, one of an older prompt, no salary, or a text and no   *)
(* summary; the salary audit picks the priced ones it has not judged yet.   *)
(* Each of these rules once picked the same Roles every night for ever.     *)
(***************************************************************************)
EXTENDS Integers

CONSTANTS
    Listed,
    Internships,    \* Roles the title names an internship: left unpriced on purpose
    RetryDays       \* SUMMARY_RETRY_DAYS

ASSUME QueueAssumption == Internships \subseteq Listed /\ RetryDays \in Nat

VARIABLES
    described,      \* jobs.description_clean is not empty
    enriched,       \* job_enrichments, as far as the selections read it
    byHand,         \* manually_edited_at is set
    picked,         \* the selection of the run at work
    rest,           \* history: days since an answer that leaves nothing to ask
    early,          \* history: Roles asked about again before a week was over
    verdicts        \* history: verdicts on an estimate since it was last enriched

queueVars == <<described, enriched, byHand, picked, rest, early, verdicts>>

LongAgo == RetryDays + 1
NoRow == [there |-> FALSE, current |-> FALSE, priced |-> FALSE, summary |-> FALSE,
          age |-> LongAgo, judged |-> FALSE]
Later(days) == IF days = LongAgo THEN days ELSE days + 1
NoEditor == [mode |-> "idle", roles |-> {}]

QueueInit ==
    /\ described \in [Listed -> BOOLEAN]
    /\ enriched = [r \in Listed |-> NoRow]
    /\ byHand = {} /\ picked = NoEditor
    /\ rest = [r \in Listed |-> LongAgo] /\ early = {}
    /\ verdicts = [r \in Listed |-> 0]

----------------------------------------------------------------------------
(* _fetch_unenriched.                                                      *)

Unpriced(r) == ~enriched[r].priced /\ r \notin Internships

\* Mutant of SummaryDue: a summary the model declined is asked for every night.
SummaryMissing(r) == ~enriched[r].summary /\ described[r]

\* The two moments are compared as texts whose separators differ, so the day that is
\* RetryDays ago does not count yet.
SummaryDue(r) == ~enriched[r].summary /\ described[r] /\ enriched[r].age > RetryDays

Stale(r) == ~enriched[r].there \/ ~enriched[r].current \/ Unpriced(r) \/ SummaryDue(r)

\* re_enrich and boutique_only pass every arm by, and only the hand-edited stay out.
Candidates(mode) == {r \in Listed \ byHand : mode = "everything" \/ Stale(r)}

\* What the board shows, the order and the limit leave some of the candidates.
Pick(mode) ==
    /\ picked = NoEditor
    /\ \E roles \in SUBSET Candidates(mode) :
           /\ roles # {}
           /\ picked' = [mode |-> mode, roles |-> roles]
           /\ early' = IF mode = "ordinary"
                       THEN early \cup {r \in roles : rest[r] <= RetryDays} ELSE early
    /\ UNCHANGED <<described, enriched, byHand, rest, verdicts>>

\* The insert or update of one answer: an estimate is never replaced by none, everything
\* else is the answer's, and the audit's older verdict no longer counts.
Rewritten(old, priced, summary) ==
    [there |-> TRUE, current |-> TRUE, priced |-> old.priced \/ priced,
     summary |-> summary, judged |-> FALSE, age |-> 0]

\* One Role's answer in its batch's transaction; an internship is never given a price.
WriteAnswer(r) ==
    /\ r \in picked.roles
    /\ \E priced \in BOOLEAN, summary \in BOOLEAN :
           /\ priced => r \notin Internships
           /\ summary => described[r]
           /\ enriched' = [enriched EXCEPT ![r] = Rewritten(@, priced, summary)]
           /\ rest' = [rest EXCEPT ![r] =
                  IF priced \/ enriched[r].priced \/ r \in Internships THEN 0 ELSE LongAgo]
    /\ picked' = [picked EXCEPT !.roles = @ \ {r}]
    /\ verdicts' = [verdicts EXCEPT ![r] = 0]
    /\ UNCHANGED <<described, byHand, early>>

\* All tries failed: the row is left as it was.
Unanswered(r) ==
    /\ r \in picked.roles
    /\ picked' = [picked EXCEPT !.roles = @ \ {r}]
    /\ UNCHANGED <<described, enriched, byHand, rest, early, verdicts>>

\* The run ends, or dies with the batches it has not written.
EndRun ==
    /\ picked # NoEditor /\ picked' = NoEditor
    /\ UNCHANGED <<described, enriched, byHand, rest, early, verdicts>>

----------------------------------------------------------------------------
(* salary_audit.run_audit.                                                 *)

\* _select_outliers: the last audit is not newer than the enrichment.  Which of them look
\* like outliers, and are not priced by a rule, is open.
ToJudge == {r \in Listed \ byHand : enriched[r].priced /\ ~enriched[r].judged}

\* The verdicts of a run in one transaction.  "too high" with no lower figure proposed is
\* counted as fine and, unlike the others, not logged.
JudgeEstimates ==
    /\ picked = NoEditor
    /\ \E judged \in SUBSET ToJudge, noOp \in SUBSET Listed :
           /\ judged # {} /\ noOp \subseteq judged
           /\ enriched' = [r \in Listed |-> IF r \in judged \ noOp
                               THEN [enriched[r] EXCEPT !.judged = TRUE] ELSE enriched[r]]
           /\ verdicts' = [r \in Listed |-> IF r \in judged \ noOp THEN 1 + verdicts[r]
                                           ELSE verdicts[r]]
    /\ UNCHANGED <<described, byHand, picked, rest, early>>

----------------------------------------------------------------------------
(* What changes around the runs.                                           *)

\* DescriptionFetcher._write_results: a batch's texts in one transaction; what failed, was
\* skipped or came back empty is left for another night.
Describe ==
    /\ picked = NoEditor
    /\ \E got \in SUBSET {r \in Listed : ~described[r]} :
           got # {} /\ described' = [r \in Listed |-> described[r] \/ r \in got]
    /\ UNCHANGED <<enriched, byHand, picked, rest, early, verdicts>>

\* salary.version() moves with the prompt, the anchors and the clamp; the rows' version is
\* then grandfathered (ACCEPTED_PRIOR_VERSIONS) or not.
NewVersion ==
    /\ picked = NoEditor
    /\ enriched' = [r \in Listed |-> [enriched[r] EXCEPT !.current = FALSE]]
    /\ rest' = [r \in Listed |-> LongAgo]
    /\ UNCHANGED <<described, byHand, picked, early, verdicts>>

\* An admin's correction comes back with the restored catalogue.
Correct(r) ==
    /\ picked = NoEditor /\ r \notin byHand
    /\ byHand' = byHand \cup {r}
    /\ enriched' = [enriched EXCEPT ![r].there = TRUE, ![r].priced = TRUE]
    /\ UNCHANGED <<described, picked, rest, early, verdicts>>

NewDay ==
    /\ picked = NoEditor
    /\ enriched' = [r \in Listed |-> [enriched[r] EXCEPT !.age = Later(@)]]
    /\ rest' = [r \in Listed |-> Later(rest[r])]
    /\ UNCHANGED <<described, byHand, picked, early, verdicts>>

QueueNext ==
    \/ \E mode \in {"ordinary", "everything"} : Pick(mode)
    \/ EndRun \/ JudgeEstimates \/ Describe \/ NewVersion \/ NewDay
    \/ \E r \in Listed : WriteAnswer(r) \/ Unanswered(r) \/ Correct(r)
QueueSpec == QueueInit /\ [][QueueNext]_queueVars

----------------------------------------------------------------------------
\* A Role that is priced under the prompt in force, or never will be, is paid for again by
\* ordinary nights only after more than a week, even when the model writes it no summary
\* (enrichment.py, arms 3 and 4 of _fetch_unenriched).
SettledRolesRest == early = {}

\* Whatever flags a run is given, the rows an admin corrected are neither asked about nor
\* written (enrichment.py and salary_audit.py select with manually_edited_at IS NULL).
HandEditedRowsAreLeftAlone ==
    [][\A r \in byHand : /\ r \notin picked'.roles
                         /\ enriched'[r].priced = enriched[r].priced
                         /\ enriched'[r].summary = enriched[r].summary
                         /\ verdicts'[r] = verdicts[r]]_queueVars

\* The judge gives one logged verdict on an estimate, however many nights it stays on its
\* row (salary_audit.py _select_outliers).
EstimatesAreJudgedOnce == \A r \in Listed : verdicts[r] <= 1
\* What is settled is left alone: answered, judged or corrected by hand.
SettledRowsAreLeftAlone == [](SettledRolesRest /\ EstimatesAreJudgedOnce) /\ HandEditedRowsAreLeftAlone
=============================================================================
