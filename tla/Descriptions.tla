---------------------------- MODULE Descriptions ----------------------------
(***************************************************************************)
(* The descriptions of Listings.  A scrape reads listing pages only, so a   *)
(* later pass asks each site for the text of a Listing, a batch at a time,  *)
(* and on JobsDB learns who the advertiser is, because the scrape names     *)
(* some Listings after the wrong employer.  Passes may overlap, and the     *)
(* next scrape finds the same Listings without their text.                  *)
(***************************************************************************)
EXTENDS Naturals, FiniteSets

CONSTANTS
    Ads,            \* Listings
    SourceOfAd,     \* their sources
    Fetchers,       \* processes that run DescriptionFetcher.run
    WriteEvery,     \* _WRITE_BATCH
    Tries           \* max_retries of a source that is asked again; 1 for the others

ASSUME DescriptionsAssumption ==
    /\ IsFiniteSet(Ads) /\ SourceOfAd \in [Ads -> DOMAIN Tries]
    /\ WriteEvery \in Nat \ {0} /\ \A s \in DOMAIN Tries : Tries[s] \in Nat \ {0}

VARIABLES
    ad,             \* the rows: state, whether described, and the name in company
    fetcher         \* what each process is at

descriptionVars == <<ad, fetcher>>

Off == [job |-> "none", todo |-> {}, batch |-> {}, came |-> [a \in Ads |-> "no"],
        tries |-> [a \in Ads |-> 0], read |-> [a \in Ads |-> "none"]]

DescriptionsInit ==
    /\ ad = [a \in Ads |-> [state |-> "absent", described |-> FALSE, company |-> "none"]]
    /\ fetcher = [x \in Fetchers |-> Off]

----------------------------------------------------------------------------
(* The scrape, as far as these columns go.                                 *)

\* Mutant of TextAfter: the text of the last scrape stands, and it may have none.
TextOfTheScrape(a, carried) == carried

TextAfter(a, carried) == carried \/ ad[a].described

\* JobStore.upsert: a row keeps its text when the card has none, and its company always.
Sighted(a) ==
    /\ \E carried \in BOOLEAN, card \in {"card", "advertiser"} :
           ad' = [ad EXCEPT ![a] = [state |-> "open", described |-> TextAfter(a, carried),
                                    company |-> IF @.state = "absent" THEN card ELSE @.company]]
    /\ UNCHANGED fetcher

Gone(a) ==
    /\ ad[a].state = "open" /\ ad' = [ad EXCEPT ![a].state = "closed"]
    /\ UNCHANGED fetcher

----------------------------------------------------------------------------
(* DescriptionFetcher.run.                                                 *)

Undescribed == {a \in Ads : ad[a].state = "open" /\ ~ad[a].described /\ SourceOfAd[a] # "indeed"}

\* limit, incremental and sources take some of them.
StartDescribing(x) ==
    /\ fetcher[x].job = "none"
    /\ \E todo \in SUBSET Undescribed :
           todo # {} /\ fetcher' = [fetcher EXCEPT ![x].job = "describe", ![x].todo = todo]
    /\ UNCHANGED ad

\* --repair-companies asks for the advertiser of every open JobsDB Listing.
StartRepair(x) ==
    /\ fetcher[x].job = "none"
    /\ \E todo \in SUBSET {a \in Ads : ad[a].state = "open" /\ SourceOfAd[a] = "jobsdb"} :
           todo # {} /\ fetcher' = [fetcher EXCEPT ![x].job = "repair", ![x].todo = todo,
                                             ![x].read = [a \in Ads |-> ad[a].company]]
    /\ UNCHANGED ad

BatchOf(p) == LET size == IF p.job = "repair" THEN 1 ELSE WriteEvery
              IN IF Cardinality(p.todo) <= size THEN {p.todo}
                 ELSE {b \in SUBSET p.todo : Cardinality(b) = size}

TakeBatch(x) ==
    /\ fetcher[x].batch = {} /\ fetcher[x].todo # {}
    /\ \E b \in BatchOf(fetcher[x]) : fetcher' = [fetcher EXCEPT ![x].batch = b, ![x].todo = @ \ b]
    /\ UNCHANGED ad

InFlight(x, a) == a \in fetcher[x].batch /\ fetcher[x].came[a] = "no"

\* What a request may bring: text, for JobsDB with the advertiser's name or with the name alone.
\* "nothing" is an empty answer, an error status, and an exception, which is caught and counted.
Replies(x, a) ==
    CASE SourceOfAd[a] = "jobsdb" /\ fetcher[x].job = "repair" -> {"name", "nothing"}
      [] SourceOfAd[a] = "jobsdb" -> {"text", "both", "name", "nothing"}
      [] SourceOfAd[a] \in {"workday", "eightfold", "linkedin"} -> {"text", "nothing"}
      [] OTHER -> {"skipped"}

Described(x, a) ==
    /\ InFlight(x, a)
    /\ \E r \in Replies(x, a) : fetcher' = [fetcher EXCEPT ![x].came[a] = r, ![x].tries[a] = 0]
    /\ UNCHANGED ad

\* A request the site refuses for now, or that is lost, is sent again after a pause; the last
\* one is given up.
RateLimited(x, a) ==
    /\ InFlight(x, a) /\ Tries[SourceOfAd[a]] > 1
    /\ fetcher' = IF fetcher[x].tries[a] + 1 < Tries[SourceOfAd[a]]
               THEN [fetcher EXCEPT ![x].tries[a] = @ + 1]
               ELSE [fetcher EXCEPT ![x].tries[a] = 0, ![x].came[a] = "nothing"]
    /\ UNCHANGED ad

----------------------------------------------------------------------------
(* _write_results, and the repair's update.                                *)

HasText(r) == r \in {"text", "both"}
HasName(r) == r \in {"name", "both"}

CompanyAfter(a, r) == IF HasName(r) THEN "advertiser" ELSE ad[a].company

\* A name that comes without text is not stored by this pass.
Written(came, batch) ==
    [a \in Ads |-> IF a \in batch /\ HasText(came[a])
                   THEN [ad[a] EXCEPT !.described = TRUE, !.company = CompanyAfter(a, came[a])] ELSE ad[a]]

Repaired(p) ==
    [a \in Ads |-> IF a \in p.batch /\ HasName(p.came[a]) /\ p.read[a] # "advertiser"
                   THEN [ad[a] EXCEPT !.company = CompanyAfter(a, p.came[a])] ELSE ad[a]]

Complete(p) == p.batch # {} /\ \A a \in p.batch : p.came[a] # "no"

CommitBatch(x) ==
    /\ Complete(fetcher[x])
    /\ ad' = IF fetcher[x].job = "repair" THEN Repaired(fetcher[x]) ELSE Written(fetcher[x].came, fetcher[x].batch)
    /\ fetcher' = [fetcher EXCEPT ![x] = IF @.todo = {} THEN Off ELSE [@ EXCEPT !.batch = {}, !.came = Off.came]]

\* The process is killed.
Killed(x) ==
    /\ fetcher[x].job # "none" /\ fetcher' = [fetcher EXCEPT ![x] = Off]
    /\ UNCHANGED ad

Describing(x) == TakeBatch(x) \/ CommitBatch(x) \/ \E a \in Ads : Described(x, a) \/ RateLimited(x, a)

DescriptionsNext ==
    \/ \E a \in Ads : Sighted(a) \/ Gone(a)
    \/ \E x \in Fetchers : StartDescribing(x) \/ StartRepair(x) \/ Describing(x) \/ Killed(x)

DescriptionsSpec == DescriptionsInit /\ [][DescriptionsNext]_descriptionVars

----------------------------------------------------------------------------
\* A description that was stored is never lost again: not to a scrape whose card has none, not
\* to an answer that has none, nor with the process (storage.py _UPSERT: "without this guard
\* every re-scrape would wipe the descriptions").
TextsAreKept ==
    [][\A a \in Ads : ad[a].described => ad'[a].described]_descriptionVars

\* Once a Listing bears its advertiser's name, no scrape, no answer without a name and no repair
\* that read the row earlier takes it away (_UPSERT: "Leaving company stable on re-scrape").
AdvertisersAreKept ==
    [][\A a \in Ads : ad[a].company = "advertiser" => ad'[a].company = "advertiser"]_descriptionVars

\* A killed process loses what one batch had fetched and no more (DescriptionFetcher.run:
\* "everything already committed stays written").
NoMoreThanABatchIsLost ==
    \A x \in Fetchers : Cardinality({a \in Ads : HasText(fetcher[x].came[a])}) <= WriteEvery

\* What was learned of a Listing stays known, and a process that is killed forgets little.
DescriptionsAreKept == TextsAreKept /\ AdvertisersAreKept /\ []NoMoreThanABatchIsLost
=============================================================================
