# FinEx Careers in TLA+

A verification project kept beside FinEx Careers: the nightly pipeline that
collects finance jobs for Hong Kong (`hk_jobs/`) and the web service that shows
them to job seekers (`webapp/backend/`, with two stateful parts of
`webapp/frontend/`).  The modules model the parts of the program that keep state
across processes, requests and nights; TLC checks them on small instances, and
TLAPS proves the central results for every value of the constants.

A reader who wants the short version: the heart of the system is the nightly
hand-over of a whole catalogue into a live SQLite file that admins are editing
at the same time.  `CataloguePublication` models it, `CatalogueHandover` says
what it promises, and `CataloguePublication_proofs` proves that the one implements
the other.  Around it are the night that makes the catalogue, the election of one
card per vacancy, the accounts and records of a Seeker, and what Seekers are shown
and sent.  Section 4 says what each run checks, section 5 what is proved and how,
section 6 what the project does not say, section 7 where code and docs disagreed.

## 1. Inventory

The program runs in three places: GitHub Actions runs the Daily Run once a
night; one web process on Railway serves the board from `jobs.db`, `seekers.db`
and `employers.db` on a persistent volume; browsers run the React front end.

| part | code | state | what is hard | modules |
|---|---|---|---|---|
| Catalogue publication | `pipeline_publish.py` | `jobs.db`, receipts, backups, `_LOCK` | concurrent uploads, admin writes during a publication, crashes, retries | `CatalogueRows`, `CatalogueHandover`, `CataloguePublication` |
| Admin corrections | `job_edit.py` | rows of `jobs` and `job_enrichments`, `admin_edits` | read before the transaction; three forms of one value | `CatalogueRows`, `CataloguePublication` |
| Recruiter submissions | `submissions.py`, `admin.py`, `main.py` | `submitted_roles.jsonl`, direct Roles | read-modify-write of a whole file; two stores, no transaction over both | `SubmissionQueue` |
| Daily Run | `hk_jobs/daily_run/` | Daily Run Record, the runner's `jobs.db` | phases that fail, are skipped or die; retries under one run id; lost answers | `DailyRun` |
| Job store | `hk_jobs/storage.py` | `jobs` | long sequences of legal calls; scoped re-election | `CrossPosting`, `ScrapeRun` |
| Scrape | `hk_jobs/pipeline.py`, `analytics.py` | a pool of threads, results, runs | a timed-out company still at work; thin answers | `ScrapeRun` |
| Adapters | `hk_jobs/adapters/` | one fetch | a site that changes between two of its pages | `BoardPages` |
| Descriptions | `description_fetcher.py` | texts, names | passes that overlap, die or meet the scrape | `Descriptions` |
| Recruiter posts | `hk_jobs/posts/` | watermarks, spend, posts, their Listings | five jobs over two tables, none of them atomic | `PostFetching`, `PostPromotion` |
| Enrichment | `enrichment.py`, `ai_budget.py`, `enrichers/deepseek.py` | spend, enrichment rows | concurrent spend against one allowance; answers bought again | `ModelCalls`, `EnrichmentQueue` |
| Salary | `salary*.py` | estimates | an order of rules; several writers of one figure | `SalaryRules`, `Estimates` |
| Migrations | `migrations.py` | schema, ledger | a death inside or after a phase | `Migrations` |
| Weekly alerts | `alerts.py`, `seekers_store.py` | alert rows | a crash between mail and mark; two runs at once | `WeeklyAlerts` |
| Rate limiter | `rate_limit.py` | moments of each key | time read before the lock; capacity | `RateLimiter` |
| Seeker accounts | `seekers_store.py`, `auth.py`, `identity_protocol.py` | accounts, sessions, links, identities, records | statements of two requests in any order; deletion meanwhile | `AccountRequests`, `SeekerRecords` |
| Employers | `employers_store.py` | accounts, sessions, links | as Seekers | `AccountRequests` |
| Saved Roles | `frontend/src/savedRoles/`, `seekers_store.py` | localStorage, `saved_roles` | two tabs, lost answers, sign-in and sign-out | `SavedRoles` |
| Board reads | `job_read.py`, `search_index.py`, `board_visibility.py`, `role_access.py` | grants | three reads of one answer across a publication | `CatalogueRows`, `BoardReads` |
| Recommendations and feed | `recommendations.py`, `role_feed.py`, `resume_intelligence.py`, `RecommendedRoles.tsx` | signals, a panel | pages ranked anew while verdicts change | `RoleFeed` |
| Weekly highlights | `weekly_highlight*.py`, `job_read.py`, `admin.py` | selections | two admins, closed Roles, weeks | `WeeklyHighlights` |
| Scripts | `scripts/` | as the parts they touch | stale reads | actors of `SubmissionQueue`, `SeekerRecords` |
| Front end | `webapp/frontend/` | browser | | the two parts above |
| Admin intelligence; reports and mail; backups and synchronisation | `admin_intelligence.py`, `notifications.py`, `reports/`, `mailer.py`, ... | none of their own | I/O | not modelled |

### How the parts interact

- **Daily Run -> publication.**  The runner restores the live catalogue, works on
  its own copy for up to five hours and uploads the whole of it.  The two sides
  share only HTTP: an answer may be lost, an upload may be committed after the
  caller gave up, and "Re-run jobs" sends other bytes under the same run id.
- **Daily Run -> its phases.**  A phase is one step of `DailyRun`; the inside of
  the scrape is `ScrapeRun`, whose adapters are `BoardPages`; of the enrichment
  `ModelCalls`, `EnrichmentQueue`, `SalaryRules` and `Estimates`; of the
  descriptions `Descriptions`; of the posts `PostFetching` and `PostPromotion`.
- **Scrape, promotion, ageing -> job store.**  All of them close, reopen or add
  Listings and then re-elect which copy of a vacancy the board shows
  (`CrossPosting`); the web service follows the elected id when a Seeker's saved
  copy has closed.
- **Publication <-> admins.**  Both write `jobs.db`.  SQLite's write lock orders
  their transactions, but what they read before the transaction is not covered:
  the direct Roles (`pipeline_publish.py:419`), the row of a correction form
  (`job_edit.py:331`).
- **Publication <-> readers.**  A page of the board is three statements
  (`BoardReads`), and a publication gives every Listing another row number.
- **Submissions -> publication.**  An approval writes a direct Role to `jobs.db`
  and the verdict to `submitted_roles.jsonl`.
- **Publication -> alerts.**  Every publication starts an Alert run in the
  background (`admin.py:195`); nothing keeps two of them apart.
- **Requests -> limiter and account store.**  Request threads share one table of
  moments; every call of the store is a statement or transaction of its own.

### What makes each part correct

| part | properties it needs |
|---|---|
| Publication | readers find one whole catalogue; a receipt is unique and true; what is replaced is backed up; corrections and direct Roles survive; the lock is always released |
| Submissions | an approved row is a Role on the board; a submission is lost in no way but the known ones |
| Daily Run | nothing incomplete is uploaded; a green record is a published one; a record tells its run; no seen work is lost |
| Job store | one card, one link and one id per open vacancy; an id stays with its employer; a saved copy's redirect lasts |
| Scrape, adapters | a Listing is closed only by an answer of its own source; totals add up; a run ends; a listing read while it changes lacks only what an adapter cannot notice |
| Descriptions, posts | what was learned stays; no post falls between two polls; the vendor's bill stays near the cap; a promoted post gets its Listing |
| Enrichment, salary | the spend stays near the allowance; nothing settled is bought or judged again; a stored figure is one the board may show |
| Migrations | what is recorded is whole; every database converges; rows survive |
| Accounts | links work once; nothing outlives its account; an account opens only to its owner; a saved Role is in one place or the other |
| Alerts, feed, highlights | nothing of a deleted Seeker is stored again; what was kept is heeded; a panel's pages fit together; a banner shows live Roles somebody chose |
| Rate limiter | the table is bounded; no key gets more calls than its limit |
| Board reads | pages partition the answer; counts agree with it; nobody opens what is not for them |

The hazards behind these, each at its line, are listed in `PROJECT.json`.

## 2. How the modules are put together

A component has a module of its own: its constants with their named assumption, its
variables, `...Init`, one action per step another actor can observe, `...Next`, its
properties and, after them, the mutated forms its properties are tried against.
Components that share state are one module or extend one (`CatalogueRows` under the
publication and the reads, `SalaryRules` under `Estimates`).  The abstract module
`CatalogueHandover` is instantiated by `CataloguePublication`.

Components that share no variable are checked together, in one run each for what
belongs together, to keep the number of runs small: the `MC` module extends them
and a variable (`part`, `area`) says which of them a behaviour is of while the
others rest.  So a run's state space is the sum of the parts' and not their product,
and each property speaks of all of its part's behaviours.

| MC module | components | runs |
|---|---|---|
| `MCCataloguePublication`, `MCCatalogue` | publication; board reads | `direct_roles`, `hidden_roles`, `publication` |
| `MCDailyRun`, `MCNight` | Daily Run; scrape | `empty_handed`, `daily_run` |
| `MCCrossPosting`, `MCListings` | job store, adapters; posts fetched, posts promoted, descriptions | `saved_role`, `hidden_vacancy`, `cross_posting` |
| `MCPricing`, `MCProgress` | publication, scrape, migrations; model calls, queue, estimates | `progress` |
| `MCRequests` | limiter; submissions | `requests` |
| `MCSeekers` | accounts, records, Saved Roles | `seekers` |
| `MCWeeklyAlerts` | alerts, feed, highlights | `alerts` |

**Left to do**: the composition of `DailyRun` over `CataloguePublication`.

## 3. The modules

### The catalogue: CatalogueRows, CatalogueHandover, CataloguePublication

`CatalogueRows` is the data of a catalogue row and its three representations of a
correction: the value an admin types, the cell SQLite stores and the text of the
audit.  A row keeps two board flags (`is_active`, `admin_hidden`) and one figure
(`pay`) that stands for the fields a snapshot brings along.  The conversions are
`job_edit`'s own: `_to_storage`, `_to_text` and `_from_audit`, the last of which
turns the text of `is_active` back into a value and leaves that of `admin_hidden`
as it is.

`CataloguePublication` is `publish_catalogue` for any number of request threads.
One action is one stretch between two points another thread can observe:

| action | code |
|---|---|
| `Receive` | the request arrives and tries `_LOCK` without waiting |
| `Validate` | checks the bytes and the size guard |
| `CheckReceipt` | the same run and snapshot: "already"; the same run, other bytes: "conflict" |
| `BackUp`, `ReadDirect`, `Begin` | the backup, the direct rows, `BEGIN IMMEDIATE` |
| `Import`, `Commit`, `Finish` | the copy with the corrections laid over it, the count check and the commit, the `finally` |
| `Fail`, `Reply` | any exception before the commit; the answer |
| `OpenForm`, `ApplyEdit`, `Approve` | the other writers of the file |
| `Crash` | the process dies: SQLite drops the open transaction, the lock and the requests are gone |

The two SELECTs of the direct rows (419-422) are one action: an approval writes
both tables in one transaction and an answer between them differs only in which of
the two lists lacks it.

`CatalogueHandover` says what ADR 0015 promises: catalogue, corrections and
receipts change in single steps, and a publication swaps every pipeline Role and
leaves its receipt at once.  Of the direct Roles it promises only that those left
on the board are the ones that were there, because the code loses some (section 7,
`direct_roles`).  `HandsOver` is the refinement; `live`, `audit` and `receipts` map
to themselves.

### The board's pages: BoardReads

A request is `Ask`, `LookUp` (the rowids a search finds), `Count`, `ReadThePage`:
three statements of `list_jobs`, each on what the catalogue is by then, with
`PublishCatalogue` and `SignOut` between any two of them.  Visibility (open,
primary, not hidden, recent, within an employer's share), audience, the weighted
search and its phrases, the order and the reserved places of recruiters' posts are
translated from the SQL.  Reading a page grants each of its Roles for an hour
(`HourPasses`), and `OpenDetail` opens a Role on a grant.

### The night: DailyRun, ScrapeRun, BoardPages

`DailyRun`: three execution profiles with the phases, in order, of `registry.py`;
the record of `model.py`; the restore from Railway, the newest successful artifact
or nothing; the enrichment guard; the upload, its answer and its timeout; the
reporters.  A catalogue is the set of phases done to it, each with its attempt, and
the `ai_usage` totals it carries.  On the other side Railway accepts or refuses an
upload at any time, also after the caller has given up; the inside of that is
`CataloguePublication`.  `Interrupt` is the 300-minute limit of the workflow, a
cancelled job or a lost runner.

`ScrapeRun`: an entry is a company and a source.  A worker fetches, its adapter
answers with so many Listings, raises, or is late: the one-thread executor gives up
at the time limit but is left by waiting for its thread.  `Store` takes the lock all
companies write under and upserts, `CloseUnseen` closes what the answer did not have
unless the guard finds it suspiciously thin, and `StoreFails` must give the lock
back.  The retry pass, the ageing, the search index, the history per company and the
rows per company and source follow.  Listings of an entry differ only by the night
they were last seen and by whether they are open, so an entry keeps counts of them.

`BoardPages` is the paging loop of the adapters.  Each adapter is a record of the
choices its code makes: what it takes for the total and whether the first or the last
one counts, when it ends, what a refused page does, how far it goes, what it checks
before it answers and whether it remembers what it has seen.  The site meanwhile
gains and loses postings, serves a page over and over, refuses, or fails at details.
The rows a comprehension keeps are `Those` of `Orders`, which says by places what
`SelectSeq` says by recursion; `BoardReads` sorts with the same module.

### The Listings: CrossPosting, Descriptions, PostFetching, PostPromotion

`CrossPosting` is the election of one card per vacancy.  `Elect(S)` is
`reconcile_cross_posted` over the open rows `S`: vacancies are the clusters of one
employer's similar titles that have several sources; each gets one shown copy
(fullest, then `DISPLAY_ORDER`), one apply link (`APPLY_ORDER`) and one id.  A full
pass ends a scrape and a promotion; `deactivate` and `reactivate` run a scoped pass
over the slugs they touched, which is their second transaction, so a crash can fall
between.  What is abstracted:

- a title stands for everything `_titles_match` compares (words, seniority,
  districts), `Similar` for its verdict;
- `cross_posted` is 1 exactly where `apply_url` is set, and an id no row carries is
  as good as a new uuid;
- the upsert of one company and the closing of what its source no longer lists are
  one action, since the "suspiciously few" branch, which closes nothing, is also
  what a crash between the two leaves;
- the company name of a Listing never changes (the repair of names is left out);
- a slug whose open rows name several employers expands to any one of them: the
  code takes whichever row comes last.

`unelected` is a history: the employers a scoped pass went by.

`Descriptions`: passes that ask sites for the texts of Listings, a batch of threads
at a time, each batch written before the next is asked for; the scrape that upserts
and closes the same rows; the repair of advertisers' names; the death of a process.

`PostFetching`: the runs over a watchlist (`watchlist`, `backfill`, `discovery`,
`harvest`), each target in the steps of `fetcher.py`: budget, call, cost, posts,
watermark, every one a commit of its own.  Time is a calendar, because dates are all
the code compares.  `excused` is a history: posts that were cut off by the page, came
while an answer was on its way across midnight, or lay beyond the floor.

`PostPromotion`: five jobs over the posts and their Listings (promotion, email
backfill, ghost check, expiry, repair of names), each a process that reads first and
writes later and may die.  `dropped` and `stale` are histories.

### Figures: ModelCalls, EnrichmentQueue, SalaryRules, Estimates

`ModelCalls`: a run's batches, the workers of a batch, two passes for a Role, tries,
and `RunBudget`, whose check and charge are apart.  `EnrichmentQueue`: which Roles a
night picks, arm by arm of `_fetch_unenriched`, what an answer or its lack leaves in
the row, and the audit's choice.  `SalaryRules` is `clamp_salary` in its order, with
the reviewed rules and their priorities, the ceilings, the floor raise, discounts and
rounding; a title carries what it matches in the tables.  `Estimates` lets every
writer of a figure have its turn in any order: enrichment, audit, the two nightly
repairs, a replay of the rules, an admin.

### Migrations

Every phase of `migrations.py` as a sequence of statements.  SQLite commits a schema
statement on its own unless rows were written before it in the same phase, and a
phase is recorded after it has returned; a process may be lost anywhere.  It starts
from a new database, one of several phases with its ledger, and one from before there
was a ledger.  The editor of the web service adds two columns by itself.

### The Seeker: AccountRequests, SeekerRecords, SavedRoles

`AccountRequests`: the routes of an account, for Seekers and for Employers.  A thread
runs one request; each call of the store is a statement of its own and an action:
check a password, rehash it, begin a session, drop the old links and mint a new one,
follow a link and claim it, set the password and revoke, match and link a provider's
subject, extend a session, delete.  `Crash` is a restart.

`SeekerRecords`: the tables that hang on an account.  A desk is somebody who acts on
what they read earlier: a staff member with a list of links, a script with copied
files, the Seeker's own page.

`SavedRoles`: two tabs of a browser, localStorage, the account's rows, and requests
whose answers come late, never, or after the user has signed out.

### What reaches a Seeker: WeeklyAlerts, RoleFeed, WeeklyHighlights

`WeeklyAlerts`: `run_weekly_alerts` one Seeker at a time, for runs that may overlap:
who is due is read once, then for each Seeker the account, the Roles already sent,
the mail, and two separate writes, the Roles and the moment.  Which Roles match a
Seeker is an input.  A mail's `at` is the moment of its run, taken once at the start,
because that is what `mark_alert_sent` stores.  Two histories serve the properties:
`mails`, and `before`, what each run could have known when it started.

`RoleFeed`: the evidence of a Seeker, the scores made of it, the pages with employer
diversity, and the panel, whose requests and verdicts overtake one another.
`WeeklyHighlights`: the shortlist by pay band, category and employer, two admins'
selections, the weeks, and the banner resolved Role by Role while the catalogue
changes.

### Requests: RateLimiter, SubmissionQueue

`RateLimiter.allow` in two steps, the clock read outside the lock and everything
else inside: sweep, refusal, eviction, entry.  A tracked and a new key are two
actions because they take different branches.  `RedisRateLimiter` keeps its state
in Redis and is not modelled.

`SubmissionQueue`: `submitted_roles.jsonl` as a file system sees it: an inode has
lines, a path names an inode.  Only so does it show that a request which opened the
queue before a rename appends to a file nobody reads any more, and that two rewrites
share one temporary path.  `Load`, `Decide`, `OpenTmp`, `WriteTmp`, `Replace` are the
steps of one decision, made by the web process or by `scripts/review_submissions.py`;
`OpenAppend` and `Append1` those of one submission.  Crashes leave the files as they
are.

## 4. The runs

Twelve runs; each finishes in less than four minutes on two workers.

| run | question | bounds |
|---|---|---|
| `publication` | Can any order of uploads, corrections, an approval, failures and crashes break what readers find, what receipts say or what is backed up?  Are the board's pages whole across publications? | two threads, one admin, one direct Role, two pipeline Roles, two nights; five uploads: both nights, the second night's content under the first one's run id, a corrupt one, one with foreign columns; pages of two, an employer's share of two |
| `progress` | What must come to an end does: uploads, scrapes, migrations, the run of a model; and what do they leave? | two threads and one correction; two sources of one company, one night; six databases, one lost process; three Roles in batches of two, two tries, an allowance of four; one Role for the estimates, with the titles, answers and figures listed in `MCPricing` |
| `daily_run` | Is a green record a published one, and can seen work be lost?  Who closes a Listing? | two attempts of the hosted or the repair profile under one run id or two; two nights of two sources of one company on two threads |
| `requests` | Does a key ever get more calls than its limit?  How can a submission be lost? | two callers, three keys with two windows, a table of two, a clock of five; two admins, two submissions, four inodes |
| `seekers` | Does a link work twice, does anything outlive its account, does a saved Role get lost? | two threads, two accounts, one address, one subject, two links, two sessions; one Seeker, two desks, three documents; two tabs, two Roles |
| `cross_posting` | Do long sequences of legal calls keep one card, link and id per vacancy, every text and every post?  Does a fetch miss a posting? | four Listings of two employers, three slugs, three sources, two titles, two ids; one post, three runs, four days, a cap and a page of one; two promoted posts, two jobs; two Listings, two passes, batches of one, two tries; six openings, two pages of two, a feed of three, three changes of the site |
| `alerts` | What do overlapping and dying runs repeat, what becomes of a deleted Seeker, do the panel's pages fit together, is the banner live? | two runs, one Seeker, two Roles, two moments, two mails; the catalogues of `MCWeeklyAlerts`, three verdicts, one deed elsewhere; two editors, two saves, one change |
| `direct_roles`, `hidden_roles`, `empty_handed`, `saved_role`, `hidden_vacancy` | What the repository says, against what its code does (section 7) | as the run of the module |

Why the bounds are enough.  *Publication*: a third thread can only be answered
"busy"; two Roles tell a Role that closes from one whose figure changes; the size
guard applies from three live Roles on, so that it bites exactly when the direct
Role is live; one backup is kept, so that a second one trims the first.
*Submissions*: both holes of `save_queue` need at most two rewrites and one append,
and with four inodes a request, two rewrites and the queue can each hold one of
their own.  *Alerts*: two mails to one Seeker are the first repetition, and with one
unit as the interval two moments tell "due" from "not due".  *Rate limiter*: the
clock runs past the longest window, the table is one key too small.  *Daily Run*:
two attempts are what an upload needs to be late for, and a run id to be used twice;
a batch of one is enough to be all failed.  *Scrape*: two sources of one slug on two
threads are what it takes to mix up a slug and an entry; four known Listings are
enough for the guard against thin answers.  *Cross-posting*: three copies under two
slugs are the least with which a vacancy can lose one copy and stay on several
sources.  *Posts*: one post and two runs show every order of a reading and a writing;
three runs pass the interval of two.
*Adapters*: two pages of two and six openings let a site run past the last page and gain
more between two pages than a page holds.  *Accounts*: two threads race for one address
and one link, a second link is the newer one.  What the bounds cannot settle for the
larger instance, the theorems of section 5 do for the properties they state.

Symmetry is used over threads, admins, runs, submissions, inodes, ids and titles
where the modules treat them alike; `progress`, which checks liveness, has none.

**Fairness**, in `progress` only:

- `RequestsProceed` (`WF` of each thread's next step): a request that has been
  accepted runs on, since nothing inside `publish_catalogue` waits without a bound
  (the lock is tried, `BEGIN IMMEDIATE` has a busy timeout that ends in an exception,
  a crash frees everything).
- `Scheduled`: the pool's threads are scheduled (`WF` of their steps, `SF` where they
  compete for `db_lock`); what an adapter answers is not promised.  `AdaptersEnd`:
  every HTTP request of an adapter ends by its own timeout, and so does the adapter.
  Without the latter `RunsEnd` fails, for `pipeline.py:249-251` leaves its executor by
  waiting, although the comment at 41-43 speaks of a limit.
- `MigrationsFairness` (`WF(Migrate)`): the next run calls `migrate` again; lost
  processes are bounded.
- `CallsFairness`: httpx's timeout ends every request, and the loops go on.

Arrivals, failures, crashes, sites, admins and Seekers owe nothing.  The parts of
`progress` a behaviour is not of rest in a state in which nothing of theirs is
enabled, so that the fairness asks nothing of them.

**Deadlock** is not checked where the system may stop: submissions that are all
decided, attempts and nights that are used up, bounds that are reached.

Every property of a passing run has a mutant in `PROJECT.json`: a plausible slip in
one definition (a lock not released, a guard dropped, a mark that comes first) with
which TLC finds the property violated.  The mutated forms stand next to the
definitions they replace and are used nowhere else.

## 5. The proofs

TLAPS checks the following for every value of the constants that the named
assumptions allow.  Except for types, each is a property one of the runs checks on
its small instance; the inductive invariants were model-checked before they were
proved.

| module | theorem | what it says |
|---|---|---|
| `CataloguePublication_proofs` | `TypeCorrect` | every variable keeps its type |
| | `AnswersTrue`, `OneReceipt`, `BackedUp` | receipts are true and final; what is replaced is in the newest backup |
| | `OnlyUnseenAreLost` | a direct Role is lost only in the known way |
| | `OnePublication`, `DirectCarry` | what readers find is one publication under every correction |
| | `Refinement` | `Spec => HandsOver` |
| | `MigrationsKeep` | a recorded phase is in place, runs and closing dates survive, locked weeks have their Roles |
| | `MigrationsAreWhole` | and no phase is stopped by anything but the editor's columns |
| `DailyRun_proofs` | `RecordIsTheRun` | a record tells its run, in order, and its verdict is final |
| | `GreenRunsAreWhole` | what is published went through its whole run; a green record has its receipt |
| | `OnlyTheUnseenIsLost` | work is taken off the board only by an attempt that had not restored it |
| `Listings_proofs` | `TypeCorrect`, `RedirectsWithinEmployers` | apply links lead to stored copies; no id spans two employers |
| | `OneCardEach` | between passes every vacancy no pass missed has one card, one link, one id |
| | `RedirectsAreKept` | a redirect is lost only when its vacancy is left on one source, merged or read in part |
| | `DescriptionsStay` | a stored text and an advertiser's name stay, and a killed process forgets one batch at most |
| | `PromotionsStay` | a promoted post is listed or on its way; no prose for a name; emails and matches stay |
| | `PollsLeaveNoGap` | no post falls between two polls; one run in `Interval`; less than a page per run over the cap; a verdict outlasts later sightings |
| `NightlyWork_proofs` | `CallsAreBounded` | spend beyond the allowance is at most one answer per worker; a truncated answer is not bought again |
| | `SettledStaySettled` | a settled Role rests from ordinary nights, an estimate is judged once, an admin's rows are left alone |
| | `FiguresHold` | a stored figure is a range under its ceilings that describes its coordinate; no estimate is lost; repairs only lower, and once |
| | `NightsAreTold` | a night tells of every source; what a result counts is stored; a company's count is of all its sources; search finds the board |
| | `SourcesCloseTheirOwn` | a Listing is closed as gone only by an answer of its own source that has Listings and not this one |
| | `PagesAreWhole` | a quiet site is read whole; what must account for its rows misses nothing that stayed; nothing is answered twice |
| `Seekers_proofs` | `LinksWorkOnceAtMost`, `ErasedForGood` | a link works once; nothing outlives its account |
| | `AccountsAreTheirOwners` | one account per address, opened by evidence, one link of a kind but for the known race, resets sign out, closed sessions stay closed |
| | `RecordsHold` | evidence is of its document; nothing outlives the Seeker; every copy is logged; one verdict per Role |
| | `SavedForGood` | a saved Role is in the browser or the account until unsaved |
| `Readers_proofs` | `NothingIsLeft`, `MailsAreHeeded` | a deleted Seeker leaves nothing; a recorded mail is heeded by later runs |
| | `ReadersSeeTheBoard` | pages partition the answer, posts keep their cadence, counts agree, shares are filled, nobody sees what is not for them |
| `Requests_proofs` | `TableBounded`, `LimitKept` | the table keeps its capacity and no key passes its limit |
| | `TypeCorrect`, `ApprovedOnTheBoard`, `OnlyUnseenAreLost` | the queue keeps its types; an approved row is on the board; a submission is lost only in the two known ways |

### The arguments

**Publication.**  The types alone are not inductive: a thread past "idle" must have
an upload to serve (`Serving`).  The safety properties need who holds what: at most
one thread is between `_LOCK` and its release, and only a thread inside `BEGIN
IMMEDIATE` holds SQLite's write lock (`Exclusive`); and what that thread has put aside
is still what is live: the backup it made is of the current base, its receipt is still
missing, its uncommitted copy is its snapshot under the corrections on record
(`Held`).  Together with what a receipt and an answer say (`ReceiptInv`) they make
`PublicationInv`, from which `AnswersTrue`, `OneReceipt`, `BackedUp` and
`OnlyUnseenAreLost` follow, and on which `OnePublication` is proved as an invariant of
its own.  Direct Roles need more (`DirectInv`): a row that a thread read before its
transaction may lack corrections made since, but has none that is not on record
(`Fits`), and the whole record laid over such a row gives what the live row has; and a
Role that was never approved has left no trace.  The refinement maps every step: a
commit to `Publish`, an edit to `Correct`, an approval to `GoLive`, everything else to
a stutter.

**Migrations** (`MigrationsInv`).  A connection sees what is committed unless a
statement of its phase has written, and then every later one does; the phases come in
order, and what is behind the phase at work is applied or was before there was a
ledger.  The runs of a company are in the old table, the new one or the copy, and
phase 35 commits nothing between the copy and its end; a date of closing is given
before the phase that relies on it.  That no phase is stopped needs more
(`Undisturbed`): for each list of statements, what it creates, renames and reads is
there because an earlier statement or phase made it (`PhasesFollow`), and what
`ensure_schema` and a phase saw of the columns is still so until the editor acts.

**Daily Run** (`RunInv`).  A record has at most one phase at work, those before it
over and those after it to come (`RecordIsOrdered`); its verdict follows from its
phases; what a phase did is in the runner's catalogue, which contains what it was
restored from (`WorkIsKept`); an upload carries what its attempt had seen, and who is
told of a publication finds the receipt (`AnswersAreReceipts`).

**Cross-posting** (`ElectionInv`).  An elected id is one a copy of the vacancy already
carries or one no row carries (`ElectedIdFacts`); a vacancy lies within an employer
(`CrossedFacts`).  At rest all vacancies agree but those of the employers a scoped pass
missed; between a closing and its re-election, all but those and the ones the closing
touched.  A pass over a set of employers leaves the clusters of the others as they are.

**Descriptions** (`DescriptionsInv`): what came is of the batch at work, a batch is of
stored Listings and within its size, so nothing is written for a Listing whose text
was not just read, and a death loses a batch.

**Promotion** (`NotesInv`): a post that is marked promoted and not listed is held by a
run that has passed it by (`OnTheWay`); while a repair is under way, a Listing with
prose for a name is in its list or in a promotion's hands (`Misnamed`); while a
backfill is, every Listing it has read gets the email or is `stale` (`Mailed`).

**Fetching** (`FetchInv`).  For gaps: a run past its call carries every post older than
its reading that is not stored (`Caught`), and no watermark passes one.  For the bill:
what is billed is what is logged and the results whose cost waits for its log; that sum
over runs is written as the cardinality of the set of pairs of a run and a result
(`Unlogged`), which needs no induction; and every run on its way to a call found the
log under the cap.  For the cadence: without an overlap at most one run is between its
reading and its writing of the counter.

**Model calls** (`CallsInv`): only a batch's Roles have requests out, a batch has no
more Roles than there are workers, and what is spent leaves room under the bound for
the dearest answer to each of them; a Role whose answer was cut short is at work no
more.

**Enrichment** (`QueueInv` of `NightlyWork_proofs`): a Role that rests has a row that no
arm of the selection asks for, and its age is no more than the days it has rested; a
verdict marks its row judged until the next answer; an admin's row is in no selection,
because corrections come only between runs.

**Figures** (`EstimatesInv`).  `clamp_salary` is followed stage by stage: the ceilings,
the floor raise and the coordinate each keep a band payable, keep its low end and let
nothing over the ceilings (`Keeps`); a title's band, a discount and a floor keep what is
left of that; and the last net makes a range of it (`ClampIs`).  Where a rule wins, the
figure is the rule's, whatever came before (`ClampOfARule`), which is why a replay twice
is a replay once.  What a coordinate finds has to be figures of the table for any answer
(`FoundIsTyped`), and for a whole ladder that is a theorem of its own: the part of a
ladder that a seniority sits in is never empty, because every place in the order of its
pay is taken by some band (`RanksAreTaken`, by the smallest downward-closed part of the
ladder that is large enough).  A row's soundness (`RowSound`) is the invariant, and one
lemma per writer keeps it.

**Scrape** (`NightsInv`): a first attempt starts from nothing seen tonight and a second
one is made only for what found nothing, so a result that says "timeout" or "raised"
goes with an entry of which nothing was stored but by an attempt still in the lock; the
retry pass works on one entry at a time, which is why its failing store can end the
run; no night to come has Listings.  A step of a worker touches its entry alone
(`Alone`), and one lemma carries the invariant over every such step (`WorkIsAlone`).  A company's
count is a sum over its sources, and no theorem of the library speaks of one; that the
recursive sum on a finite set exists (`SumsExist`) and grows with its terms
(`SumsCompare`) is proved by the smallest counterexample, and from the two follows that
what is recorded of a company is of all its sources (`CountsAreOfTheCompany`).

**Adapters** (`PagesInv`).  What was listed the whole time stands behind what was
gained, and a total that is not told anew is the number of it (`GainedInFront`); as long
as no more is gained than a page holds, a later page therefore has nothing but what
stayed (`PageIsSteady`), and rows that are as many as the total are all of it.  Where
postings only went away, everything seen is of a set as large as the first total
(`LostFromTheFirst`).  A quiet site's rows are its front, up to where the pages have come
(`ReadFromTheFront`, `QuietPage`).  That the 45 adapters are of this kind (one that
accounts for its rows remembers them and raises at a refused page) is checked record by
record (`AdaptersAre`).

**Accounts** (`AccountsInv`).  A thread that is past the look-up knows an account; a
thread that comes to linking was vouched for or founded the account; a link that still
works has not worked; a link minted beside one that works is its rival.  Each table has
a lemma that says what a step may do to it, and the invariant is carried table by table.

**Records** (`RecordsInv`): a desk that is at work knows whose rows it read; what was
counted is ahead of what was entered.  **Saved Roles** (`SavedInv`): what a lift carries
a visitor has saved, and it or the account has whatever is owed.

**Alerts** (`AlertInv`): what a run saw when it started is still so, because what is
kept of a mail only grows (`SnapshotsHold`); the mail a run is recording is its own
last one (`RunsKnowTheirMail`); marks are kept but for stragglers (`Straggled`).

**Board** (`BoardInv`): while no publication has come between the statements of a
request, what was found, counted and answered is what the table still gives.  The rest
is about orders.  Whatever the keys, an answer's rows are in one total order
(`BeforeOrders`), so every place of it is taken once (`AheadIs`, `InOrderOfIs`).  A
post's slot is 4n - 1 of its place n among the posts, the others' are the slots between,
and no slot is given twice (`SlotsAre`).  For the cadence: as long as a post is missing
from the first n rows, the next one's slot is above all of theirs, which bounds how many
others are among them, and the other way round (`NextOfItsKind`, `CadenceKept`).  For
the pages: every place of an answer is one place of one page (`PlacesOnPages`,
`OnePlace`).

**Limiter** (`TableInv`, `LimitInv`): a new key enters only a table the sweep left room
in, and the longest window only grows.  For the limit, the moments of a key are in order
up to the longest wait for the lock (`InOrder`), and every moment that still counts is
among the ones its list holds (`WhatCountsIsHeld`), so that a call let through when
fewer than the limit are held is within it.  That a set of places has a last one is
proved by well-founded induction on an explicit set.

**Queue** (`QueueInv`): a temporary file that is whole while somebody saves is the work
of one who has still to rename it and holds its rows (`WholeFilesHaveWriters`); approved
rows are on the board in every inode and in every admin's hands.

### What they rest on

The assumptions are the ASSUMEs of the modules, which TLC evaluates in the passing
runs: types of the constants, null values outside the sets they extend, finite sets
where something is counted (Listings, posts, runs, Roles of a batch, the entries of
`companies.yaml`), positive page,
batch, backup and interval sizes, a reflexive and symmetric similarity, and of
`SubmissionQueue` enough inodes that one is always free.  `SalaryAssumption` and
`EstimatesAssumption` say that figures are a month's pay: ceilings are whole multiples
of the 5,000 the discounts round to, bands of the tables and the rules are ranges whose
low end is at least 3,000 and under the board's ceiling, and so is what a model or a
judge writes once its shorthand is repaired (the smallest figure of the tables is
10,500, of the rules 5,000).  A figure of a few dollars, which a discount would round
away, is outside the theorem.  `MigrationsAssumption` says which phases a database may
have reached.  `MigrationsAreWhole` has a hypothesis besides, `Migratable`: a database
from before the ledger has reached phase 38.  An older one is stopped at phase 10 (see
section 7), so the theorem would be false of it; `MigrationsKeep` holds for it too.  The bounds that keep TLC's
state spaces finite (`MaxRuns`, `MaxMails`, ...) are constants of any value, and no
proof uses their size.

### Only model-checked

- The liveness properties `RequestsAreAnswered`, `RunsEnd`, `MigrationsConverge` and
  `EveryRoleIsSettled`: liveness under fairness and ENABLED are out of the prover's
  reach.  The five violations.
- The action properties of `RoleFeed` and `WeeklyHighlights`, which compute with
  recursively built sequences (folds over pages and weeks).

## 6. What is not modelled

- Admin intelligence and analytics: read-only aggregates.  Landing pages, sitemaps and
  similar Roles of `job_read`.
- Network I/O: markup, mailers, the LLM client, prompts.  Their outcomes are choices in
  the modules that call them.
- The tables of salary figures and the patterns of titles: inputs of `SalaryRules`.
- Backups by an operator, PocketBase, `create_restore_point`.
- The signal flags and the seniority consensus, recomputed whole by each full pass.
- The views of the front end other than Saved Roles and the recommendations panel.
- `RedisRateLimiter`; the Employers' profile form and drafts, one statement each.
- `DailyRun` is not composed with `CataloguePublication`: it knows of Railway only what
  `AnswersAreTrue` says.

## 7. Where code and words disagree

### What the violation runs show

- `direct_roles`: `publish_catalogue` reads the direct rows, an admin approves a
  submission, the transaction begins, and `_copy_rows` deletes the new Role.
  Approving again returns early because the row is already marked approved.
- `hidden_roles`: the audit stores `'True'`; `_from_audit` gives that text back as
  the cell, and `NOT 'True'` is 1 in SQLite, so the Role an admin hid is on the
  board after the next publication.
- `empty_handed`: the enrichment guard subtracts the run id's earlier total from the
  new one, which has replaced it; on a re-run the difference is zero and a phase
  that wrote nothing is a success.
- `saved_role`: of a vacancy's two copies one closes; the re-election clears the id
  of the survivor, and the Seeker's saved copy reads as closed while the vacancy is
  open.
- `hidden_vacancy`: the shown copy is the last open Listing of its slug; when it
  closes, the scoped pass knows no employer for that slug, nothing is re-elected and
  the other copies stay suppressed.

### Exceptions the properties make

The properties of the passing runs are stated as strongly as the code allows, and
their exceptions are themselves observations:

- `OnlyUnseenSubmissionsAreLost` names two holes: a submission appended between
  `load_queue` and `tmp.replace` is gone although it was answered (`main.py:2697`
  says a mail outage "never loses the submission"), and a rewrite can rename the
  temporary file another has just emptied (`submissions.py:46`).
- `KeptMailsAreHeeded` excepts a mail that was not kept when the next run started
  (a death at `alerts.py:191`, or two runs at once: `alerts.py:16` says one mail per
  Seeker per seven days), and a moment marked over by an older run.
- A Seeker who opts out between the due query and the send is mailed all the same
  (`alerts.py:157`): nothing is read again in between.
- `LimitHolds` shortens the window by twice the longest wait for the lock, since a
  moment may be older than the one appended before it (`rate_limit.py:144` says they
  are appended in order).
- `OnlyUnseenWorkIsLost` excepts a publication whose attempt had not restored what is
  live.
- `OneCardPerVacancy` excepts the employers a scoped pass missed or read in part.
  `key_by_slug` (`storage.py:964-972`) keeps one key per slug, so where a slug's rows
  name two employers, as JobsDB's do, another employer of the slug is read in part and
  its election split or reset, which the comment at 954-961 means to rule out; and a
  closing of one employer's last row under a slug leaves its sibling slug unelected as
  long as another employer's row stays.
- `OnlyLoneOrMergedVacanciesLoseRedirects` excepts a survivor alone on its source and a
  merge of two ids.
- `AccountsStayWithTheirOwners` excepts two links minted by requests that overlap, a
  reset that died before it signed out, and a sign-in whose password was checked
  before a reset and whose session begins after it (`main.py:3336-3347`,
  `auth.py:319`).
- `RecordsHangTogether` marks a correction, a re-analysis and a review that were read
  before a document or a capstone was replaced and written after it
  (`seekers_store.py:2532`).
- `PagesMissNothing` excepts an adapter that holds on to the first total while a site
  gains more postings than a page holds: what was gained is counted in place of postings
  it has not come to, and the listing passes for complete (`direct_sf_rmk.py:187`,
  `:197`).  It takes three gains and six openings; the proof asked for the exception.
- `PollsAreAccountedFor` excepts posts cut off by the page, published while an answer
  was on its way across midnight, or beyond the floor; the cost of a lost answer is on
  no record.
- `PromotionsAreKept` excepts posts whose run died between the mark and the store
  (`promote.py:172`, `:197`) and signals written from an older reading.

### Met on the way

Read in the code while modelling, and not settled by a run:

- *Publication*: an admin's closing of pipeline Roles makes the count check refuse the
  next publication, because it compares counts from before the corrections with counts
  after them (`pipeline_publish.py:442`); the size guard answers a repeated upload
  before its receipt does (`:396`).
- *Job store*: an admin's `is_active` goes past `JobStore.deactivate` and its
  re-election (`job_edit.py:63`, `:180`; `storage.py:92-96`, `:733`).
- *Scrape*: a thin answer just over the guard closes Listings; adapters that do not
  remember what they saw count a posting twice in `jobs_found`.
- *Adapters*: one that reads its total again on every page can miss a posting when
  another vanishes; Eightfold without a count stops after its first page; a Workday
  posting whose detail fails is stored under its path.
- *Descriptions*: an advertiser's name that comes without a text is stored by
  `--repair-companies` only.
- *Enrichment*: newest first under a limit leaves the oldest of a growing backlog
  unpriced (`enrichment.py:505`); a "too high" verdict without a lower figure is logged
  nowhere, so the same Role is judged again each night; the judge is outside
  `RunBudget`; the audit passes by stated and "high" figures.
- *Salary*: `clamp_salary` may raise (the floor raise), so `salary.lowered`, which
  compares before the clamp (`salary.py:169`) where its docstring says "never to raise
  one" (149), can raise; at a boutique the discount is applied to a figure that has
  had it; the nightly ceiling repair cuts a reviewed band (`salary_repair.py:216`,
  `salary_clamp.py:1858`).  The alignment of cross-posted copies in the replay
  (363-382) is not modelled.
- *Migrations*: a database from before the ledger that is older than phase 38 does not
  converge (`migrations.py:24-28`, `:1535-1543`); `idx_jobs_is_primary` is missing on a
  new database and after a death between ALTER and CREATE INDEX; a death in phase 39
  leaves reopened Listings unelected.
- *Board reads*: row numbers found by the search are used after a publication has
  given them to other Listings (`job_read.py:858-862`, `:1447`); what is answered is
  visible to its reader, but may not be what was asked for.
- *Front end*: a shared link loses its sort (`JobBoardPage.tsx:47`, `:230-238`); an
  expired session leaves an admin's answer on the screen; a field typed in while a save
  is in flight is overwritten, and `JobEditor.tsx` sends the whole form, so that stale
  fields revert a colleague's correction.
- *Feed*: an undo does not bring back an earlier "more like this"
  (`RecommendedRoles.tsx:191`, `seekers_store.py:1748-1756`); a dismissed Role can be
  shown by a page ranked earlier; "Show me others" after a dismissal skips a Role; a
  corrected skill never changes the fit (`resume_intelligence.py:843-845`).
- *Highlights*: the workflow mails candidates and locks nothing, though
  `daily.yml:183-186` says "locks"; a hidden Role can be in the banner (ADR 0032:71-80);
  `NOT LIKE '%intern%'` drops "Internal Audit" and "International"; on a Monday the
  coming week is the live one; a closed Role of the banner is still answered by
  `get_weekly_highlight_role`.
