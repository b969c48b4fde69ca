------------------------------- MODULE ScrapeRun -------------------------------
(***************************************************************************)
(* One night's scrape: a pool of workers takes the company entries, each    *)
(* worker fetches with a time limit, stores what came under one lock and    *)
(* closes what did not come, the empty-handed are tried once more, and what *)
(* the run did is indexed and recorded when all is over.  The Listings of   *)
(* an entry are told apart by the night they were last seen and by whether  *)
(* they are open, so an entry keeps counts of them.                         *)
(***************************************************************************)
EXTENDS Integers, FiniteSets, FiniteSetsExt

CONSTANTS
    Entries,        \* companies.yaml: records of a slug and a source
    Known,          \* Listings of each entry that are open before the first night
    PoolSize,       \* worker threads
    MaxNights,      \* bound
    Postings        \* bound: Listings each source ever has, the known ones among them

ASSUME ScrapeAssumption ==
    /\ IsFiniteSet(Entries) /\ Known \in [Entries -> Nat] /\ PoolSize \in Nat \ {0}
    /\ MaxNights \in Nat \ {0} /\ Postings \in [Entries -> Nat]

VARIABLES
    phase,          \* how far the run is
    night,          \* the night, and so the run's fetched_at
    stage,          \* where each entry's worker is
    reply,          \* what each entry's adapter returned: how many Listings
    writeLock,      \* db_lock: the entry that holds it
    result,         \* CompanyResult of each entry
    retries,        \* the entries the retry pass has still to try
    rows,           \* jobs: per entry and night last seen, how many are open and closed
    indexed,        \* the search index: Listings of each entry it finds
    history,        \* job_history: the last count of each slug
    runs            \* pipeline_company_runs of this run

scrapeVars == <<phase, night, stage, reply, writeLock, result, retries, rows, indexed, history, runs>>

Nights == 0..MaxNights
Slugs == {e.slug : e \in Entries}
NoThread == [slug |-> "nobody", source |-> "nobody"]
NoResult == [kind |-> "none", found |-> 0]
Empty == [open |-> 0, closed |-> 0]

OpenOf(e) == SumFunction([n \in Nights |-> rows[e][n].open])
ClosedOf(e) == SumFunction([n \in Nights |-> rows[e][n].closed])
Unheard(e) == Postings[e] - OpenOf(e) - ClosedOf(e)
SeenTonight(e) == rows[e][night].open + rows[e][night].closed

ScrapeInit ==
    /\ phase = "idle" /\ night = 0 /\ writeLock = NoThread /\ retries = {}
    /\ stage = [e \in Entries |-> "resulted"]
    /\ reply = [e \in Entries |-> 0]
    /\ result = [e \in Entries |-> NoResult]
    /\ rows = [e \in Entries |-> [n \in Nights |->
                   IF n = 0 THEN [open |-> Known[e], closed |-> 0] ELSE Empty]]
    /\ indexed = [e \in Entries |-> OpenOf(e)]
    /\ history = [s \in Slugs |-> -1]
    /\ runs = [e \in Entries |-> "none"]

\* run: every enabled entry is submitted to the pool.
StartRun ==
    /\ phase \in {"idle", "dead"} /\ night < MaxNights
    /\ phase' = "scrape" /\ night' = night + 1
    /\ stage' = [e \in Entries |-> "queued"]
    /\ result' = [e \in Entries |-> NoResult]
    /\ runs' = [e \in Entries |-> "none"]
    /\ UNCHANGED <<reply, writeLock, retries, rows, indexed, history>>

----------------------------------------------------------------------------
(* _run_company, on the pool's threads and again in the retry pass.        *)

AtWork == {e \in Entries : stage[e] \notin {"queued", "resulted"}}

Fetch(e) ==
    /\ stage[e] = "queued" /\ Cardinality(AtWork) < PoolSize
    /\ stage' = [stage EXCEPT ![e] = "fetching"]
    /\ UNCHANGED <<phase, night, reply, writeLock, result, retries, rows, indexed, history, runs>>

\* Mutant of Resulted: the results are keyed by slug, and the last one stands for all.
ResultedBySlug(e, r) ==
    /\ stage' = [stage EXCEPT ![e] = "resulted"] /\ reply' = [reply EXCEPT ![e] = 0]
    /\ result' = IF phase = "retry" /\ r.found = 0 THEN result
                 ELSE [x \in Entries |-> IF x = e THEN r
                       ELSE IF phase = "retry" /\ x.slug = e.slug THEN NoResult ELSE result[x]]

\* A result in the pool's list; in the retry pass it takes the place of the first one only
\* when it found something.
Resulted(e, r) ==
    /\ stage' = [stage EXCEPT ![e] = "resulted"] /\ reply' = [reply EXCEPT ![e] = 0]
    /\ result' = IF phase = "retry" /\ r.found = 0 THEN result ELSE [result EXCEPT ![e] = r]

\* The adapter's Listings; a failure inside most adapters is an empty list.
Answer(e) ==
    /\ stage[e] = "fetching"
    /\ \E k \in 0..Postings[e] : reply' = [reply EXCEPT ![e] = k]
    /\ stage' = [stage EXCEPT ![e] = "waiting"]
    /\ UNCHANGED <<phase, night, writeLock, result, retries, rows, indexed, history, runs>>

RaiseInRun(e) ==
    /\ stage[e] = "fetching"
    /\ Resulted(e, [kind |-> "raised", found |-> 0])
    /\ UNCHANGED <<phase, night, writeLock, retries, rows, indexed, history, runs>>

\* The time is up, but the executor is left by waiting for its thread.
TimeOut(e) ==
    /\ stage[e] = "fetching"
    /\ stage' = [stage EXCEPT ![e] = "hanging"]
    /\ UNCHANGED <<phase, night, reply, writeLock, result, retries, rows, indexed, history, runs>>

\* The hung thread comes back at last; its answer is dropped.
LateEnd(e) ==
    /\ stage[e] = "hanging"
    /\ Resulted(e, [kind |-> "timeout", found |-> 0])
    /\ UNCHANGED <<phase, night, writeLock, retries, rows, indexed, history, runs>>

\* upsert_many, one transaction: Listings seen before, open or closed, those a failed attempt
\* of tonight has stored, and new ones are open and of tonight.
Earlier == 0..(night - 1)
Some(e, Kept(_)) ==
    {f \in [Earlier -> 0..reply[e]] : \A n \in Earlier : f[n] <= Kept(rows[e][n])}
Store(e) ==
    /\ stage[e] = "waiting" /\ writeLock = NoThread
    /\ \E again \in Some(e, LAMBDA r : r.open), back \in Some(e, LAMBDA r : r.closed),
          same \in 0..rows[e][night].open :
           /\ reply[e] - same - SumFunction([n \in Earlier |-> again[n] + back[n]]) \in 0..Unheard(e)
           /\ rows' = [rows EXCEPT ![e] = [n \in Nights |-> LET r == rows[e][n] IN
                  IF n < night THEN [open |-> r.open - again[n], closed |-> r.closed - back[n]]
                  ELSE IF n = night THEN [r EXCEPT !.open = r.open + reply[e] - same] ELSE r]]
    /\ writeLock' = e /\ stage' = [stage EXCEPT ![e] = "stored"]
    /\ UNCHANGED <<phase, night, reply, result, retries, indexed, history, runs>>

\* The guard of mark_inactive_for_run.  The average is over the nights on which Listings of
\* this entry were last seen, tonight's not among them, and those re-seen are tonight's.
PastNights(e) == {n \in Earlier : rows[e][n] # Empty}
Suspicious(e) ==
    LET open == MapThenSumSet(LAMBDA n : rows[e][n].open, PastNights(e))
    IN reply[e] * 10 * Cardinality(PastNights(e)) < 3 * open

\* Mutant of Gone: finishing one source closes what the others of its slug have not re-seen.
SeenNoMoreOfTheSlug(e) == {x \in Entries : x.slug = e.slug}

\* The entries whose unseen Listings are closed.
SeenNoMore(e) == IF reply[e] = 0 \/ Suspicious(e) THEN {} ELSE {e}

\* mark_inactive_for_run, a transaction of its own; the lock is given back.
CloseUnseen(e) ==
    /\ stage[e] = "stored"
    /\ rows' = [x \in Entries |-> IF x \in SeenNoMore(e)
                    THEN [n \in Nights |-> IF n < night
                              THEN [open |-> 0, closed |-> rows[x][n].open + rows[x][n].closed]
                              ELSE rows[x][n]]
                    ELSE rows[x]]
    /\ Resulted(e, [kind |-> "ok", found |-> reply[e]])
    /\ writeLock' = NoThread
    /\ UNCHANGED <<phase, night, retries, indexed, history, runs>>

\* Mutant of StoreFails: the lock is given back on the way of success alone.
StoreFailsLocked(e) ==
    /\ stage[e] \in {"waiting", "stored"} /\ writeLock \in {NoThread, e} /\ phase = "scrape"
    /\ Resulted(e, [kind |-> "store", found |-> 0])
    /\ writeLock' = e
    /\ UNCHANGED <<phase, night, retries, rows, indexed, history, runs>>

\* A write fails: a result like another in the pool, the end of the run in the retry pass.
StoreFails(e) ==
    /\ stage[e] \in {"waiting", "stored"} /\ writeLock \in {NoThread, e}
    /\ writeLock' = NoThread
    /\ IF phase = "scrape"
       THEN Resulted(e, [kind |-> "store", found |-> 0]) /\ UNCHANGED phase
       ELSE /\ phase' = "dead" /\ result' = [x \in Entries |-> NoResult]
            /\ stage' = [stage EXCEPT ![e] = "resulted"] /\ reply' = [reply EXCEPT ![e] = 0]
    /\ UNCHANGED <<night, retries, rows, indexed, history, runs>>

CompanyWork(e) == Fetch(e) \/ Answer(e) \/ RaiseInRun(e) \/ TimeOut(e) \/ LateEnd(e)
           \/ Store(e) \/ CloseUnseen(e) \/ StoreFails(e)

----------------------------------------------------------------------------
(* run, once the pool is left.                                             *)

AllResulted == \A e \in Entries : stage[e] = "resulted"

\* _retry_failed_companies: what found nothing, one after another.
StartRetries ==
    /\ phase = "scrape" /\ AllResulted
    /\ phase' = "retry" /\ retries' = {e \in Entries : result[e].found = 0}
    /\ UNCHANGED <<night, stage, reply, writeLock, result, rows, indexed, history, runs>>

Retry(e) ==
    /\ phase = "retry" /\ AllResulted /\ e \in retries
    /\ retries' = retries \ {e}
    /\ stage' = [stage EXCEPT ![e] = "queued"]
    /\ UNCHANGED <<phase, night, reply, writeLock, result, rows, indexed, history, runs>>

\* reconcile_cross_posted elects the shown copies (module CrossPosting); deactivate_aged_out
\* closes Listings six months old.
RetireAged ==
    /\ phase = "retry" /\ AllResulted /\ retries = {}
    /\ phase' = "aged"
    /\ \/ UNCHANGED rows
       \/ \E e \in Entries, n \in Nights :
              /\ rows[e][n].open > 0
              /\ rows' = [rows EXCEPT ![e][n] = [open |-> @.open - 1, closed |-> @.closed + 1]]
    /\ UNCHANGED <<night, stage, reply, writeLock, result, retries, indexed, history, runs>>

\* rebuild_search_index, from all open Listings.
RebuildIndex ==
    /\ phase = "aged" /\ phase' = "indexed"
    /\ indexed' = [e \in Entries |-> OpenOf(e)]
    /\ UNCHANGED <<night, stage, reply, writeLock, result, retries, rows, history, runs>>

Reported(s) == {e \in Entries : e.slug = s /\ result[e].kind = "ok"}

SourceCounted(s) == MapThenSumSet(LAMBDA e : result[e].found, Reported(s))

\* record_scrape_snapshot, one transaction; a slug with no result keeps its last count.
RecordHistory ==
    /\ phase = "indexed" /\ phase' = "recorded"
    /\ history' = [s \in Slugs |-> IF Reported(s) = {} THEN history[s] ELSE SourceCounted(s)]
    /\ UNCHANGED <<night, stage, reply, writeLock, result, retries, rows, indexed, runs>>

Status(r) == IF r.kind # "ok" THEN "failed" ELSE IF r.found = 0 THEN "zero" ELSE "success"

\* record_pipeline_company_runs, and the run is over.
RecordRuns ==
    /\ phase = "recorded" /\ phase' = "idle"
    /\ runs' = [e \in Entries |-> Status(result[e])]
    /\ UNCHANGED <<night, stage, reply, writeLock, result, retries, rows, indexed, history>>

FinishCompany == RetireAged \/ RebuildIndex \/ RecordHistory \/ RecordRuns

\* The runner is lost; what was committed stays, and the next night begins anew.
RunnerDies ==
    /\ phase \notin {"idle", "dead"}
    /\ phase' = "dead" /\ writeLock' = NoThread /\ retries' = {}
    /\ stage' = [e \in Entries |-> "resulted"]
    /\ reply' = [e \in Entries |-> 0] /\ result' = [e \in Entries |-> NoResult]
    /\ UNCHANGED <<night, rows, indexed, history, runs>>

ScrapeNext ==
    \/ StartRun \/ StartRetries \/ FinishCompany \/ RunnerDies
    \/ \E e \in Entries : CompanyWork(e) \/ Retry(e)
ScrapeSpec == ScrapeInit /\ [][ScrapeNext]_scrapeVars

\* The threads are scheduled; what an adapter does is not promised.
Scheduled ==
    /\ WF_scrapeVars(StartRetries) /\ WF_scrapeVars(FinishCompany)
    /\ \A e \in Entries :
           /\ WF_scrapeVars(Fetch(e)) /\ WF_scrapeVars(Retry(e))
           /\ WF_scrapeVars(Answer(e) \/ RaiseInRun(e) \/ TimeOut(e))
           /\ SF_scrapeVars(Store(e) \/ CloseUnseen(e) \/ StoreFails(e))

\* Every request an adapter makes ends, by its own timeouts.
AdaptersEnd == \A e \in Entries : WF_scrapeVars(LateEnd(e))

----------------------------------------------------------------------------
\* A Listing is closed as gone only by an answer of its own source that has Listings and
\* not this one; another source of the same company, a failure or an empty answer closes
\* nothing, and no Listing seen tonight is closed (storage.py mark_inactive_for_run).
OnlyItsSourceClosesAListing ==
    [][\A e \in Entries, n \in Nights :
           phase \in {"scrape", "retry"} /\ phase' # "aged" /\ rows'[e][n].closed > rows[e][n].closed
               => stage[e] = "stored" /\ reply[e] > 0 /\ n < night]_scrapeVars

\* What a result counts is in the store, and nothing came of an attempt that timed out or
\* raised (pipeline.py _run_company, _retry_failed_companies).
ReportsAreStored ==
    \A e \in Entries :
        stage[e] = "resulted" /\ phase # "dead" =>
            /\ result[e].kind = "ok" => SeenTonight(e) >= result[e].found
            /\ result[e].kind \in {"timeout", "raised"} => SeenTonight(e) = 0

\* A night that ends has told of every source of every company, also when the retry pass
\* took some of them up again (pipeline.py: "Keyed on (slug, source), never on slug alone").
EverySourceIsReported ==
    phase = "idle" /\ night > 0 =>
        \A e \in Entries : result[e].kind # "none" /\ (runs[e] = "success" => SeenTonight(e) > 0)

\* A company's count is of all its sources, in whatever order their workers ended, so it is
\* what the store took in tonight when nothing failed (analytics.py record_scrape_snapshot).
HistoryIsOfTheCompany ==
    phase \in {"recorded", "idle"} /\ night > 0 =>
        \A s \in Slugs : LET ours == {e \in Entries : e.slug = s}
                         IN (\A e \in ours : result[e].kind = "ok")
                            => /\ history[s] <= MapThenSumSet(SeenTonight, ours)
                               /\ history[s] >= MapThenSumSet(LAMBDA e : result[e].found, ours)

\* When a run has ended, search finds what the board shows: no Listing closed since, none
\* left out (pipeline.py run: "Rebuild search AFTER cross-source reconciliation").
SearchFindsTheBoard ==
    phase \in {"indexed", "recorded", "idle"} => \A e \in Entries : indexed[e] = OpenOf(e)

\* Every run ends or dies, whatever its adapters answer, once they do answer.
RunsEnd == []<>(phase \in {"idle", "dead"})
\* What a night tells of itself is what it did, source by source.
NightsAddUp ==
    /\ ReportsAreStored /\ EverySourceIsReported /\ HistoryIsOfTheCompany /\ SearchFindsTheBoard
=============================================================================
