----------------------------- MODULE CrossPosting -----------------------------
(***************************************************************************)
(* The election of one card per vacancy (hk_jobs/storage.py, JobStore).     *)
(* The same vacancy is found on several sources; reconcile_cross_posted     *)
(* groups open Listings by employer and similar title, elects the copy the  *)
(* board shows, the copy applicants are sent to and the id a Saved Role     *)
(* follows when its copy closes (ADR 0027, 0029, 0030).  A full pass runs   *)
(* after every scrape and promotion; deactivate and reactivate re-elect     *)
(* only the company slugs they touched.                                     *)
(*                                                                         *)
(* A title stands for everything _titles_match compares: words, seniority   *)
(* and districts.  cross_posted is 1 exactly where apply_url is set.  An id  *)
(* no row carries is as good as a new uuid.  All writes hold db_lock.       *)
(***************************************************************************)
EXTENDS Naturals, Sequences, FiniteSets

CONSTANTS
    Listings,       \* (source, source_id) pairs
    SourceOf,       \* the source of each
    SlugOf,         \* its company_slug
    NameOf,         \* its company name, normalised; None if too short to trust
    Titles, Similar,\* titles, and the pairs of them _titles_match accepts
    Richness,       \* how full a row can be: description, disclosed salary
    Ids,            \* vacancy ids
    None

ApplyOrder == <<"longtail", "workday", "eightfold", "successfactors", "greenhouse",
    "direct_site", "efinancialcareers", "linkedin", "indeed", "jobsdb", "linkedin_posts">>

DisplayOrder == <<"jobsdb", "eightfold", "workday", "successfactors", "greenhouse",
    "direct_site", "efinancialcareers", "longtail", "linkedin", "indeed", "linkedin_posts">>

Sources == {ApplyOrder[i] : i \in DOMAIN ApplyOrder}
Slugs == {SlugOf[l] : l \in Listings}

ASSUME CrossPostingAssumption ==
    /\ SourceOf \in [Listings -> Sources]
    /\ DOMAIN SlugOf = Listings /\ DOMAIN NameOf = Listings
    /\ Similar \subseteq Titles \X Titles
    /\ \A t \in Titles : <<t, t>> \in Similar
    /\ \A p \in Similar : <<p[2], p[1]>> \in Similar
    /\ Richness \subseteq Nat
    /\ None \notin Listings \cup Titles \cup Ids

VARIABLES
    title,      \* the title of each stored row, None where there is no row
    rich,       \* how full it is
    open,       \* rows with is_active = 1
    primary,    \* rows with is_primary = 1
    applyTo,    \* apply_url: the copy it leads to, None for its own
    vacancy,    \* vacancy_id
    step,       \* where the pipeline is
    touched,    \* slugs of a re-election that is due
    resume,     \* where the pipeline goes on after it
    unelected   \* history: employers a re-election passed over or read in part

rows == <<title, rich, open>>
election == <<primary, applyTo, vacancy>>
vars == <<rows, election, step, touched, resume, unelected>>

Stored == {l \in Listings : title[l] # None}

Rank(order, s) == CHOOSE i \in DOMAIN order : order[i] = s
First(order, C) ==
    {l \in C : \A m \in C : Rank(order, SourceOf[l]) <= Rank(order, SourceOf[m])}

Employer(l) == IF NameOf[l] = None THEN <<"slug", SlugOf[l]>> ELSE <<"name", NameOf[l]>>

\* Mutant of Cluster: similar titles alone make a vacancy.
ClusterAcross(l, S) ==
    LET Linked(C) == \A m \in C, n \in S : <<title[m], title[n]>> \in Similar => n \in C
    IN  {m \in S : \A C \in SUBSET S : l \in C /\ Linked(C) => m \in C}

\* One vacancy: the rows of an employer that a chain of similar titles links.
\* Whatever holds l and every row similar to a row it holds, holds the chain.
Cluster(l, S) ==
    LET G == {m \in S : Employer(m) = Employer(l)}
        Linked(C) == \A m \in C, n \in G : <<title[m], title[n]>> \in Similar => n \in C
    IN  {m \in G : \A C \in SUBSET G : l \in C /\ Linked(C) => m \in C}

SeveralSources(C) == \E l, m \in C : SourceOf[l] # SourceOf[m]
Crossed(S) == {C \in {Cluster(l, S) : l \in S} : SeveralSources(C)}

Shown(C) ==
    LET fullest == {l \in C : \A m \in C : rich[m] <= rich[l]}
        byOrder == First(DisplayOrder, C)
    IN  (byOrder \cap fullest) \cup (IF byOrder \subseteq fullest THEN {} ELSE fullest)

\* Mutant of ElectedIds: every pass mints an id.
ElectedIdsAnew(C) == Ids \ {vacancy[l] : l \in Listings}

ElectedIds(C) ==
    LET existing == {vacancy[l] : l \in C} \ {None}
        preferred == {vacancy[l] : l \in First(DisplayOrder, C)}
    IN  CASE existing = {} -> Ids \ {vacancy[l] : l \in Listings}
          [] Cardinality(existing) = 1 -> existing
          [] OTHER -> (preferred \ {None}) \cup (IF None \in preferred THEN existing ELSE {})

\* reconcile_cross_posted over the open rows S: what it writes for the copies shown,
\* linked to and identified, and what it elects.  One source is never several, which
\* is the fast path.
Vacancy(l, S) == CHOOSE C \in Crossed(S) : l \in C

Write(S, shown, sent, id) ==
    LET Copies == UNION Crossed(S)
    IN  /\ primary' = (primary \ Copies) \cup (S \ Copies) \cup {shown[C] : C \in Crossed(S)}
        /\ applyTo' = [l \in Listings |-> IF l \in Copies THEN sent[Vacancy(l, S)]
                                          ELSE IF l \in S THEN None ELSE applyTo[l]]
        /\ vacancy' = [l \in Listings |-> IF l \in Copies THEN id[Vacancy(l, S)]
                                          ELSE IF l \in S THEN None ELSE vacancy[l]]

Identifies(S, id) ==
    /\ \A C \in Crossed(S) : id[C] \in ElectedIds(C)
    /\ \A C, D \in Crossed(S) : C # D /\ id[C] = id[D] => \E l \in C : vacancy[l] = id[C]

Elect(S) ==
    \E shown \in [Crossed(S) -> S] :
      /\ \A C \in Crossed(S) : shown[C] \in Shown(C)
      /\ \E sent \in [Crossed(S) -> S] :
           /\ \A C \in Crossed(S) : sent[C] \in First(ApplyOrder, C)
           /\ \E id \in [Crossed(S) -> Ids] : Identifies(S, id) /\ Write(S, shown, sent, id)

\* The employers a scoped pass reads whole: of each touched slug the one a dictionary
\* keyed by slug keeps, among those its open rows name.
EmployersOf(s) == {Employer(l) : l \in {m \in open : SlugOf[m] = s}}

Picks == {f \in [touched -> SUBSET {Employer(l) : l \in open}] :
            \A s \in touched : IF EmployersOf(s) = {} THEN f[s] = {}
                               ELSE \E E \in EmployersOf(s) : f[s] = {E}}

\* Mutant of Scope: the touched slugs alone.
ScopeAlone(f) == {l \in open : SlugOf[l] \in touched}

\* The open rows it loads: those of the touched slugs, and of every slug with an
\* open row of an employer picked.
Scope(f) ==
    {l \in open : \/ SlugOf[l] \in touched
                 \/ \E m \in open, s \in touched : SlugOf[m] = SlugOf[l] /\ Employer(m) \in f[s]}

-----------------------------------------------------------------------------
Init ==
    /\ title = [l \in Listings |-> None]
    /\ rich = [l \in Listings |-> 0]
    /\ open = {} /\ primary = Listings
    /\ applyTo = [l \in Listings |-> None]
    /\ vacancy = [l \in Listings |-> None]
    /\ step = "rest" /\ touched = {} /\ resume = "rest" /\ unelected = {}

Upserted(found, open0) ==
    /\ \E t \in [found -> Titles], r \in [found -> Richness] :
         /\ title' = [l \in Listings |-> IF l \in found THEN t[l] ELSE title[l]]
         /\ rich' = [l \in Listings |-> IF l \in found THEN r[l] ELSE rich[l]]
    /\ open' = open0 \cup found
    /\ UNCHANGED election

\* run: the scrape begins, after a run that ended or one that died.
StartRun ==
    /\ step \in {"rest", "crashed"}
    /\ step' = "scraping"
    /\ UNCHANGED <<rows, election, touched, resume, unelected>>

\* _run_company under db_lock: what was found is upserted; what this source no
\* longer lists is closed, unless the scrape found suspiciously little.
Scrape(s, src) ==
    LET own == {l \in Listings : SlugOf[l] = s /\ SourceOf[l] = src}
    IN  /\ step = "scraping"
        /\ \E found \in (SUBSET own) \ {{}} :
             \/ /\ Upserted(found, open)
                /\ UNCHANGED <<step, touched, resume>>
             \/ /\ ~ (open \cap own \subseteq found)
                /\ Upserted(found, open \ own)
                /\ touched' = {s} /\ step' = "reelecting" /\ resume' = step
        /\ UNCHANGED unelected

\* reconcile_cross_posted() over every open row, at the end of a scrape or a promotion.
Reconcile ==
    /\ step \in {"scraping", "promoted"}
    /\ Elect(open)
    /\ step' = "rest" /\ unelected' = {}
    /\ UNCHANGED <<rows, touched, resume>>

\* deactivate: Listings past the board's window, expired posts.
Retire ==
    /\ step = "rest"
    /\ \E R \in (SUBSET open) \ {{}} :
         /\ open' = open \ R
         /\ touched' = {SlugOf[l] : l \in R}
    /\ step' = "reelecting" /\ resume' = "rest"
    /\ UNCHANGED <<title, rich, election, unelected>>

\* reactivate: migration phase 39, before the scrape.
Restore ==
    /\ step \in {"rest", "crashed"}
    /\ \E R \in (SUBSET (Stored \ open)) \ {{}} :
         /\ open' = open \cup R
         /\ touched' = {SlugOf[l] : l \in R}
    /\ step' = "reelecting" /\ resume' = "scraping"
    /\ UNCHANGED <<title, rich, election, unelected>>

Touched == {Employer(l) : l \in {m \in Stored : SlugOf[m] \in touched}}

\* The scoped pass deactivate and reactivate end with.  A slug whose rows name two
\* employers has one picked, and the other is read where it shares a slug only.
Reelect ==
    /\ step = "reelecting"
    /\ \E f \in Picks :
         LET S == Scope(f)
             Due == unelected \cup Touched \cup {Employer(l) : l \in S}
         IN  /\ Elect(S)
             /\ unelected' = (Due \cap {Employer(l) : l \in open \ S}) \ UNION {f[s] : s \in touched}
    /\ step' = resume
    /\ touched' = {}
    /\ UNCHANGED <<rows, resume>>

\* run_promotion: recruiter posts become Listings, then a full pass.
Promote ==
    /\ step = "rest"
    /\ \E found \in (SUBSET {l \in Listings : SourceOf[l] = "linkedin_posts"}) \ {{}} :
         Upserted(found, open)
    /\ step' = "promoted"
    /\ UNCHANGED <<touched, resume, unelected>>

Crash ==
    /\ step \notin {"rest", "crashed"}
    /\ step' = "crashed" /\ touched' = {}
    /\ UNCHANGED <<rows, election, resume, unelected>>

Next ==
    \/ StartRun \/ Reconcile \/ Retire \/ Restore \/ Reelect \/ Promote \/ Crash
    \/ \E s \in Slugs, src \in Sources \ {"linkedin_posts"} : Scrape(s, src)

Spec == Init /\ [][Next]_vars
-----------------------------------------------------------------------------
TypeOK ==
    /\ title \in [Listings -> Titles \cup {None}]
    /\ rich \in [Listings -> Richness \cup {0}]
    /\ open \subseteq Stored
    /\ primary \subseteq Listings /\ Listings \ Stored \subseteq primary
    /\ applyTo \in [Listings -> Stored \cup {None}]
    /\ vacancy \in [Listings -> Ids \cup {None}]
    /\ step \in {"rest", "scraping", "promoted", "reelecting", "crashed"}
    /\ resume \in {"rest", "scraping"}
    /\ touched \subseteq Slugs /\ (touched # {} <=> step = "reelecting")
    /\ unelected \subseteq {Employer(l) : l \in Listings}

Agreed(C) ==
    IF SeveralSources(C)
    THEN /\ Cardinality(C \cap primary) = 1
         /\ \E a \in C, v \in Ids : \A l \in C : applyTo[l] = a /\ vacancy[l] = v
    ELSE C \subseteq primary /\ \A l \in C : applyTo[l] = None /\ vacancy[l] = None

\* When the pipeline rests, an open vacancy found on several sources has one card,
\* one apply link, to an open copy of it, and one id, and every other open Listing
\* stands for itself: reconcile_cross_posted's contract, kept through any sequence
\* of scrapes, promotions, closings, reopenings and crashes for every employer but
\* those a scoped pass missed since the last full one: no open Listing was left of
\* the touched slug, or the slug bears two employers (storage.py:964-972).
OneCardPerVacancy ==
    step = "rest" =>
        \A l \in open : Employer(l) \notin unelected => Agreed(Cluster(l, open))

\* A Saved Role whose copy closed is never redirected to another employer's Role:
\* an id is shared within one employer only, whatever was merged, split, closed or
\* restored (_elect_vacancy_id, job_read._resolve_vacancy_refs).
RedirectsStayWithTheEmployer ==
    \A l, m \in Listings :
        vacancy[l] # None /\ vacancy[l] = vacancy[m] => Employer(l) = Employer(m)

\* The closed row l is redirected to m, and to nothing after the step.
Redirected(l, m) ==
    l \in Stored \ open /\ m \in open /\ vacancy[l] # None /\ vacancy[m] = vacancy[l]
Loses(l, m) ==
    /\ Redirected(l, m)
    /\ l \notin open' /\ m \in open'
    /\ \A n \in open' : vacancy'[n] # vacancy'[l]

\* A closed copy keeps its redirect while its vacancy is open on several sources,
\* unless the vacancy was merged with another that has an id of its own, or its
\* employer read in part: a re-election adopts the id the copies carry.
OnlyLoneOrMergedVacanciesLoseRedirects ==
    [][\A l, m \in Listings :
         Loses(l, m) => LET C == Cluster(m, open)' IN
                          \/ ~ SeveralSources(C)
                          \/ \E n \in C : vacancy[n] \notin {None, vacancy[l]}
                          \/ Employer(m) \in unelected']_vars

\* What ADR 0030 says: a Saved Role follows its vacancy to a copy still open.
RedirectsLast ==
    [][\A l, m \in Listings : Loses(l, m) => <<title[l], title'[m]>> \notin Similar]_vars

\* What deactivate's docstring says: closing the shown copy does not take an open
\* vacancy off the board.
OpenVacanciesAreShown ==
    step = "rest" => \A l \in open : Cluster(l, open) \cap primary # {}
=============================================================================
