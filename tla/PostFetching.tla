----------------------------- MODULE PostFetching -----------------------------
(***************************************************************************)
(* Fetching Recruiter Posts from a vendor that bills by result.  A run      *)
(* (the nightly poll, a backfill, a discovery search, an email harvest,     *)
(* several of them started by hand beside each other) goes through its      *)
(* targets: it checks the month's spend, calls the vendor, logs the cost,   *)
(* stores what came and stamps the recruiter's watermark, each step a       *)
(* commit of its own in jobs.db.  Time goes on between the steps, an answer *)
(* may be lost after it was billed, and the process may die.                *)
(***************************************************************************)
EXTENDS Naturals, FiniteSets

CONSTANTS
    Recruiters, Posts, Runs,
    Interval,       \* POSTS_RUN_INTERVAL
    Cap,            \* HARD_CAP_USD, in results
    Page,           \* maxPosts of a poll
    LastDay,        \* bound: the calendar
    MaxRuns,        \* bound: runs started
    Query           \* what a discovery search asks for

ASSUME FetchingAssumption ==
    /\ IsFiniteSet(Posts) /\ IsFiniteSet(Runs) /\ Runs # {}
    /\ Interval \in Nat \ {0} /\ Cap \in Nat /\ Page \in Nat \ {0}
    /\ LastDay \in Nat /\ MaxRuns \in Nat
    /\ Query \notin Recruiters

VARIABLES
    today,          \* dates are all that is compared, so the clock is the calendar
    posted,         \* when and by whom each post was published; at = 0 is not yet
    status,         \* rows of linkedin_posts: extraction_status
    watermark,      \* recruiter_fetch_state.last_fetched_at; 0 is NULL
    cadence,        \* run_cadence.runs
    logged,         \* vendor_costs of the month
    fetch,          \* the runs
    started, turns, overlap,    \* history: runs claimed, turns taken, claims side by side
    billed,                     \* history: results billed, less those of a lost answer or run
    excused                     \* history: posts the vendor was not asked for, or cut off

fetchTables == <<status, watermark, cadence, logged>>
fetchHistory == <<started, turns, overlap, billed, excused>>
fetchVars == <<today, posted, fetchTables, fetch, fetchHistory>>

AtDesk == [job |-> "none", step |-> "idle", todo |-> {}, who |-> Query,
           read |-> 0, got |-> {}, items |-> 0, index |-> 0]

\* The next target, if there is one.
Onward(f) == IF f.todo \subseteq {f.who} THEN AtDesk
             ELSE [AtDesk EXCEPT !.job = f.job, !.step = "check", !.todo = f.todo \ {f.who}]

FetchInit ==
    /\ today = 1
    /\ posted = [p \in Posts |-> [by |-> Query, at |-> 0]]
    /\ status = [p \in Posts |-> "absent"]
    /\ watermark = [r \in Recruiters |-> 0]
    /\ cadence = 0 /\ logged = 0
    /\ fetch = [x \in Runs |-> AtDesk]
    /\ started = 0 /\ turns = 0 /\ overlap = FALSE
    /\ billed = 0 /\ excused = {}

----------------------------------------------------------------------------
(* claim_run: the counter is read, and advanced by a statement of its own.  *)

ClaimRun(x) ==
    /\ fetch[x].job = "none" /\ started < MaxRuns
    /\ fetch' = [fetch EXCEPT ![x].job = "watchlist", ![x].step = "claim", ![x].index = cadence]
    /\ started' = started + 1
    /\ overlap' = (overlap \/ \E y \in Runs : fetch[y].step = "claim")
    /\ UNCHANGED <<today, posted, fetchTables, turns, billed, excused>>

Due(index) == index % Interval = 0

\* force records the run as well.
DecideRun(x) ==
    /\ fetch[x].step = "claim"
    /\ cadence' = cadence + 1
    /\ \E force \in BOOLEAN :
           IF force \/ Due(fetch[x].index)
           THEN /\ fetch' = [fetch EXCEPT ![x] = [AtDesk EXCEPT !.job = "watchlist", !.step = "check", !.todo = Recruiters]]
                /\ turns' = turns + (IF Due(fetch[x].index) THEN 1 ELSE 0)
           ELSE fetch' = [fetch EXCEPT ![x] = AtDesk] /\ UNCHANGED turns
    /\ UNCHANGED <<today, posted, status, watermark, logged,
                   started, overlap, billed, excused>>

\* fetch_watchlist(backfill), fetch_discovery and run_email_harvest, by hand.
StartByHand(x, job) ==
    /\ fetch[x].job = "none" /\ started < MaxRuns
    /\ fetch' = [fetch EXCEPT ![x].job = job, ![x].step = "check",
                     ![x].todo = IF job = "discovery" THEN {Query} ELSE Recruiters]
    /\ started' = started + 1
    /\ UNCHANGED <<today, posted, fetchTables, turns, overlap, billed, excused>>

----------------------------------------------------------------------------
(* One target after the other.                                             *)

\* check_budget; a harvest first skips the recruiters it has asked for lately.
CheckBudget(x) ==
    /\ fetch[x].step = "check" /\ fetch[x].todo # {}
    /\ \E who \in fetch[x].todo : \E fresh \in BOOLEAN :
           fetch' = [fetch EXCEPT ![x] =
               IF @.job = "harvest" /\ fresh
               THEN Onward([@ EXCEPT !.who = who])
               ELSE IF logged >= Cap THEN AtDesk
               ELSE [@ EXCEPT !.step = "call", !.who = who]]
    /\ UNCHANGED <<today, posted, fetchTables, fetchHistory>>

LaterOf(a, b) == IF a > b THEN a ELSE b

\* Mutant of CatchupFloor: the two days that were right for a daily poll.
TwoDays == 2

CatchupFloor == Interval + 1

\* _resolve_since: the DATE of the watermark, or of the floor when it is older.
ResolveSince(r) ==
    LaterOf(watermark[r], IF today > CatchupFloor THEN today - CatchupFloor ELSE 0)

Published(p) == posted[p].at > 0

\* What the vendor holds for a call; it answers with the newest, at most a page.
Available(x, since) ==
    {p \in Posts : /\ Published(p)
                   /\ \/ fetch[x].job = "discovery"
                      \/ posted[p].by = fetch[x].who /\ posted[p].at >= since}

Newest(set, got) == \A p \in got : \A q \in set \ got : posted[p].at >= posted[q].at

Answers(set) ==
    IF Cardinality(set) <= Page THEN {set}
    ELSE {got \in SUBSET set : Cardinality(got) = Page /\ Newest(set, got)}

\* An old watermark is capped by the floor; the gap was longer than the cadence allows.
Capped(x, since) ==
    {p \in Posts : /\ Published(p) /\ posted[p].by = fetch[x].who /\ posted[p].at < since
                   /\ status[p] = "absent"
                   /\ today > watermark[fetch[x].who] + (Interval + 1)}

\* The jobs that stamp a watermark; a search and a harvest have none.
Stamped == {"watchlist", "backfill"}

CallVendor(x) ==
    /\ fetch[x].step = "call"
    /\ LET who == fetch[x].who
           since == IF fetch[x].job = "watchlist" THEN ResolveSince(who) ELSE 0
           set == IF fetch[x].job = "harvest" THEN {} ELSE Available(x, since)
       IN \E got \in Answers(set) :
          \E items \in IF fetch[x].job = "harvest" THEN {0, 1} ELSE {Cardinality(got)} :
             \/ /\ billed' = billed + items
                /\ fetch' = [fetch EXCEPT ![x].step = "log", ![x].got = got, ![x].items = items,
                          ![x].read = IF fetch[x].job \in Stamped THEN today ELSE 0]
                /\ excused' = excused \cup {p \in set \ got : status[p] = "absent"}
                       \cup (IF fetch[x].job = "watchlist" THEN Capped(x, since) ELSE {})
             \* with_retry asked twice, and no answer came.
             \/ fetch' = [fetch EXCEPT ![x] = Onward(@)] /\ UNCHANGED <<billed, excused>>
    /\ UNCHANGED <<today, posted, fetchTables, started, turns, overlap>>

\* ApifyAuthError ends the run: the token is bad for every target.
RejectToken(x) ==
    /\ fetch[x].step = "call"
    /\ fetch' = [fetch EXCEPT ![x] = AtDesk]
    /\ UNCHANGED <<today, posted, fetchTables, fetchHistory>>

\* record_cost: a row of vendor_costs when the call returned something.
RecordCost(x) ==
    /\ fetch[x].step = "log"
    /\ logged' = logged + fetch[x].items
    /\ fetch' = [fetch EXCEPT ![x].step = "store", ![x].items = 0]
    /\ UNCHANGED <<today, posted, status, watermark, cadence, fetchHistory>>

\* A repeated sighting refreshes the engagement counts only.
StoredAs(p) == IF status[p] = "absent" THEN "pending" ELSE status[p]

\* upsert_posts, or record_email.
UpsertPosts(x) ==
    /\ fetch[x].step = "store"
    /\ LET f == fetch[x] IN
       /\ status' = [p \in Posts |-> IF p \in f.got THEN StoredAs(p) ELSE status[p]]
       /\ fetch' = [fetch EXCEPT ![x] =
              IF f.job \in Stamped THEN [@ EXCEPT !.step = "stamp", !.got = {}]
              ELSE Onward(@)]
       /\ excused' = excused \ f.got
    /\ UNCHANGED <<today, posted, watermark, cadence, logged, started, turns, overlap, billed>>

\* record_fetch_result(ok): the moment is that of the stamp, not of the call.
Stamp(x) ==
    /\ fetch[x].step = "stamp"
    /\ watermark' = [watermark EXCEPT ![fetch[x].who] = today]
    /\ fetch' = [fetch EXCEPT ![x] = Onward(@)]
    \* Published while the answer was on its way, on a day the next poll does not ask for.
    /\ excused' = excused \cup
           {p \in Posts : /\ posted[p].by = fetch[x].who /\ posted[p].at >= fetch[x].read
                          /\ posted[p].at < today /\ status[p] = "absent"}
    /\ UNCHANGED <<today, posted, status, cadence, logged,
                   started, turns, overlap, billed>>

\* record_fetch_result(error): the next poll starts from the same watermark.
TargetFails(x) ==
    /\ fetch[x].step \in {"log", "store", "stamp"}
    /\ billed' = billed - fetch[x].items
    /\ fetch' = [fetch EXCEPT ![x] = Onward(@)]
    /\ UNCHANGED <<today, posted, fetchTables, started, turns, overlap, excused>>

\* The process dies.
DieFetching(x) ==
    /\ fetch[x].job # "none"
    /\ billed' = billed - fetch[x].items
    /\ fetch' = [fetch EXCEPT ![x] = AtDesk]
    /\ UNCHANGED <<today, posted, fetchTables, started, turns, overlap, excused>>

----------------------------------------------------------------------------
(* The world.                                                              *)

Publish(p, r) ==
    /\ ~Published(p)
    /\ posted' = [posted EXCEPT ![p] = [by |-> r, at |-> today]]
    /\ UNCHANGED <<today, fetchTables, fetch, fetchHistory>>

\* run_promotion settles a pending post.
Classify(p) ==
    /\ status[p] = "pending"
    /\ status' = [status EXCEPT ![p] = "settled"]
    /\ UNCHANGED <<today, posted, watermark, cadence, logged, fetch, fetchHistory>>

Tick ==
    /\ today < LastDay /\ today' = today + 1
    /\ UNCHANGED <<posted, fetchTables, fetch, fetchHistory>>

FetchNext ==
    \/ \E x \in Runs :
          \/ ClaimRun(x) \/ DecideRun(x)
          \/ \E job \in {"backfill", "discovery", "harvest"} : StartByHand(x, job)
          \/ CheckBudget(x) \/ CallVendor(x) \/ RejectToken(x) \/ RecordCost(x)
          \/ UpsertPosts(x) \/ Stamp(x) \/ TargetFails(x) \/ DieFetching(x)
    \/ \E p \in Posts : Classify(p) \/ \E r \in Recruiters : Publish(p, r)
    \/ Tick

FetchSpec == FetchInit /\ [][FetchNext]_fetchVars

----------------------------------------------------------------------------
(* Properties.                                                             *)

\* No post falls between two polls: one that is older than the day the next poll
\* asks from has been stored, unless it was cut off by the page, came while an
\* answer was on its way across midnight, or lay beyond the floor after a gap longer
\* than the cadence leaves (fetcher: "a fixed window would silently create a gap";
\* cadence: "the floor has to cover the cadence").
NoPostFallsBetweenPolls ==
    \A p \in Posts : LET r == posted[p].by IN
        Published(p) /\ status[p] = "absent" /\ p \notin excused
            => posted[p].at >= watermark[r]

\* The poll takes one run in Interval, the first included, as long as no two runs
\* are claimed side by side (cadence: "one in four" is the off-by-one to avoid).
OneRunInInterval == ~overlap => turns * Interval \in cadence .. cadence + Interval - 1

\* What the vendor bills exceeds the cap by less than one call of each run going on:
\* the spend is looked at before every call, whatever other runs are doing, and all of
\* it is on record but what a lost answer cost (check_budget: "a hard stop").
SpendStaysNearTheCap == billed < Cap + Cardinality(Runs) * Page

\* A post that was classified is not put back by a later sighting, whoever sees it.
VerdictsOutlastSightings ==
    [][\A p \in Posts : status[p] = "settled" => status'[p] = "settled"]_fetchVars
\* A poll leaves no gap, comes when it is due and spends what it may, and what was decided
\* about a post outlasts it.
PollsAreAccountedFor ==
    /\ [](NoPostFallsBetweenPolls /\ OneRunInInterval /\ SpendStaysNearTheCap)
    /\ VerdictsOutlastSightings
=============================================================================
