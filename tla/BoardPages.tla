----------------------------- MODULE BoardPages -----------------------------
(***************************************************************************)
(* How an adapter reads a career site page by page while the site goes on   *)
(* living.  Every adapter is the same loop with its own ends: what it takes *)
(* for the total, when it has enough, what a page that fails does, and what *)
(* it checks before it answers.  BaseAdapter._safe_fetch turns an exception *)
(* into an empty answer.                                                    *)
(***************************************************************************)
EXTENDS Integers, FiniteSets, Sequences, SequencesExt, Orders

CONSTANTS
    Openings,       \* the postings a site may list
    Elsewhere,      \* those among them that are not in Hong Kong
    PageSize,       \* rows of a page
    FeedCap,        \* rows of a feed that is cut off
    MaxPages,       \* max_pages, _PAGE_CAP
    MaxChanges      \* bound: changes of a site while it is read

ASSUME BoardAssumption ==
    /\ IsFiniteSet(Openings) /\ Elsewhere \subseteq Openings
    /\ PageSize \in Nat \ {0} /\ FeedCap \in Nat \ {0} /\ MaxPages \in Nat \ {0} /\ MaxChanges \in Nat

----------------------------------------------------------------------------
(* The adapters.  total: the first page's, or the one last told.  enough:   *)
(* when rows, requested offset, rows received or pages reach it.  fresh: a  *)
(* page with nothing new ends it.  short: so does one that is not full.     *)
(* check: what must hold of the count.  cap: what running out of pages      *)
(* means.  refused, broken: what a page answered with an error status, or   *)
(* not at all, does.  hk: rows are checked to be in Hong Kong.  detail:     *)
(* what a failed detail page does to its row or to the whole.               *)

\* A page of the bank's own site: whatever goes wrong is an exception.
Site == [feed |-> "pages", total |-> "last", enough |-> "never", fresh |-> TRUE, short |-> "next",
         check |-> "none", cap |-> "keep", refused |-> "raise", broken |-> "raise",
         hk |-> TRUE, detail |-> "must"]
Feed == [Site EXCEPT !.feed = "whole", !.detail = "none"]
Counted == [Site EXCEPT !.enough = "rows", !.check = "equal"]

\* Boards shared by many companies.
Workday == [Site EXCEPT !.total = "first", !.enough = "offset", !.fresh = FALSE, !.hk = FALSE, !.detail = "may"]
Eightfold == [Site EXCEPT !.enough = "offset", !.fresh = FALSE, !.hk = FALSE, !.detail = "none"]
EFC == [Site EXCEPT !.enough = "pages", !.fresh = FALSE, !.refused = "keep", !.detail = "none"]
JobsDB == [Site EXCEPT !.total = "first", !.enough = "rows", !.fresh = FALSE,
                       !.refused = "keep", !.broken = "keep", !.hk = FALSE, !.detail = "none"]
LinkedIn == [Site EXCEPT !.refused = "keep", !.broken = "keep", !.hk = FALSE, !.detail = "none"]
Indeed == LinkedIn
Greenhouse == Feed
SuccessFactors == [Site EXCEPT !.short = "end", !.refused = "keep", !.hk = FALSE, !.detail = "may"]
Longtail == [Feed EXCEPT !.hk = FALSE]

\* Sites that must account for every row they announce.
AXA == [Counted EXCEPT !.detail = "none"]
MorganStanley == [Counted EXCEPT !.enough = "received"]
GoldmanSachs == Counted
Optiver == Counted
Phenom == [Counted EXCEPT !.detail = "may"]
CICC == [Counted EXCEPT !.detail = "none"]
SfRmk == [Counted EXCEPT !.total = "first"]
Deloitte == [Counted EXCEPT !.enough = "pages"]
Barclays == [Counted EXCEPT !.enough = "pages"]
Wizpresso == [Counted EXCEPT !.enough = "pages", !.cap = "raise"]
MTR == [Counted EXCEPT !.total = "same", !.short = "raise", !.cap = "raise", !.hk = FALSE]
Airport == MTR
WeLab == [Feed EXCEPT !.check = "equal", !.detail = "must"]
OracleHCM == [Site EXCEPT !.total = "first", !.enough = "offset", !.check = "atmost", !.cap = "raise", !.detail = "may"]

\* Sites whose end is taken for granted.
Minsheng == [Site EXCEPT !.enough = "pages"]
KPMG == [Site EXCEPT !.short = "end", !.detail = "none"]
ZABank == [Site EXCEPT !.enough = "received", !.detail = "none"]
Macquarie == [Site EXCEPT !.short = "end"]
WingLung == [Site EXCEPT !.enough = "rows", !.hk = FALSE, !.detail = "none"]
PingAn == [Site EXCEPT !.enough = "pages", !.detail = "none"]
BankOfAmerica == [Site EXCEPT !.enough = "offset"]
HashKey == [Site EXCEPT !.cap = "raise"]
TwoSigma == Site
Towngas == [Site EXCEPT !.enough = "offset", !.fresh = FALSE, !.hk = FALSE, !.detail = "may"]

\* One page or one file that holds everything, or no more than it can.
UBS == [Feed EXCEPT !.feed = "capped", !.detail = "may"]
Amundi == [Feed EXCEPT !.feed = "capped"]
Mox == Feed
BankOfCommunications == [Feed EXCEPT !.hk = FALSE]
ICBC == [Feed EXCEPT !.hk = FALSE]
CCB == [Feed EXCEPT !.detail = "skip"]
HKLife == [Feed EXCEPT !.hk = FALSE, !.detail = "must"]
BOCHK == Feed
HKMA == [Feed EXCEPT !.hk = FALSE, !.detail = "may"]
HKMC == [Feed EXCEPT !.hk = FALSE]
HKMCA == [Feed EXCEPT !.hk = FALSE]
JaneStreet == Feed

Adapters == {Workday, Eightfold, EFC, JobsDB, LinkedIn, Indeed, Greenhouse, SuccessFactors, Longtail,
    AXA, MorganStanley, GoldmanSachs, Optiver, Phenom, CICC, SfRmk, Deloitte, Barclays, Wizpresso,
    MTR, Airport, WeLab, OracleHCM, Minsheng, KPMG, ZABank, Macquarie, WingLung, PingAn,
    BankOfAmerica, HashKey, TwoSigma, Towngas, UBS, Amundi, Mox, BankOfCommunications, ICBC, CCB,
    HKLife, BOCHK, HKMA, HKMC, HKMCA, JaneStreet}

----------------------------------------------------------------------------
VARIABLES
    adapter,        \* whose fetch this is
    site,           \* what the site lists now, in its order
    stuck,          \* the site ignores the page it is asked for
    progress,       \* "listing", "listed", "answered" or "raised"
    page,           \* pages read
    pageRows,           \* rows kept so far
    got,            \* rows received so far
    total,          \* the total the loop goes by; -1 when none was told
    steady,         \* postings listed the whole time
    trouble,        \* what the fetch met: "appeared", "vanished", "refused", "broken", "detail"
    changes         \* how many postings have appeared or vanished

boardVars == <<adapter, site, stuck, progress, page, pageRows, got, total, steady, trouble, changes>>

BoardInit ==
    /\ adapter \in Adapters
    /\ site \in {SetToSeq(s) : s \in SUBSET Openings}
    /\ stuck \in BOOLEAN
    /\ progress = "listing" /\ page = 0 /\ pageRows = <<>> /\ got = 0 /\ total = -1
    /\ steady = Range(site) /\ trouble = {} /\ changes = 0

----------------------------------------------------------------------------
(* The site, between two requests.                                         *)

Appear(o) ==
    /\ progress = "listing" /\ page > 0 /\ changes < MaxChanges /\ o \notin Range(site)
    /\ site' = <<o>> \o site /\ trouble' = trouble \cup {"appeared"} /\ changes' = changes + 1
    /\ UNCHANGED <<adapter, stuck, progress, page, pageRows, got, total, steady>>

Vanish(o) ==
    /\ progress = "listing" /\ page > 0 /\ changes < MaxChanges /\ o \in Range(site)
    /\ site' = Those(site, Openings \ {o}) /\ steady' = steady \ {o}
    /\ trouble' = trouble \cup {"vanished"} /\ changes' = changes + 1
    /\ UNCHANGED <<adapter, stuck, progress, page, pageRows, got, total>>

----------------------------------------------------------------------------
(* One turn of the loop.                                                   *)

Offset == IF adapter.enough = "received" THEN got ELSE page * PageSize
Width == CASE adapter.feed = "whole" -> Len(site) [] adapter.feed = "capped" -> FeedCap [] OTHER -> PageSize
ThePage == LET from == IF stuck THEN 0 ELSE Offset
           IN SubSeq(site, from + 1, IF from + Width > Len(site) THEN Len(site) ELSE from + Width)

\* Rows of the page that were not seen before.
New == Those(ThePage, Openings \ Range(pageRows))

\* Mutant of Told: the total told last stands.
ToldLast == Len(site)

\* The total the loop goes by.
Told == IF adapter.total \in {"first", "same"} /\ total # -1 THEN total ELSE Len(site)

Over == ThePage = <<>> \/ (adapter.fresh /\ New = <<>>)

Enough ==
    LET kept == Cardinality(Range(pageRows'))
    IN IF adapter.feed # "pages" THEN TRUE
       ELSE CASE
            adapter.enough = "rows" -> kept >= Told
         [] adapter.enough = "offset" -> page' * PageSize >= Told
         [] adapter.enough = "received" -> got' >= Told
         [] adapter.enough = "pages" -> page' * PageSize >= Len(site)
         [] OTHER -> FALSE

\* MTR and the airport: the total may not change, nor a page fall short before it is reached.
Contradicted ==
    \/ adapter.total = "same" /\ total \notin {-1, Len(site)}
    \/ adapter.short = "raise" /\ Len(ThePage) < PageSize /\ Cardinality(Range(pageRows \o New)) < Told
    \/ adapter.feed = "capped" /\ Len(ThePage) >= FeedCap

EndOfListing ==
    /\ progress = "listing" /\ page < MaxPages /\ ~Contradicted /\ Over
    /\ progress' = "listed" /\ total' = Told
    /\ UNCHANGED <<adapter, site, stuck, page, pageRows, got, steady, trouble, changes>>

Contradiction ==
    /\ progress = "listing" /\ page < MaxPages /\ Contradicted
    /\ progress' = "raised"
    /\ UNCHANGED <<adapter, site, stuck, page, pageRows, got, total, steady, trouble, changes>>

ReadPage ==
    /\ progress = "listing" /\ page < MaxPages /\ ~Contradicted /\ ~Over
    /\ pageRows' = pageRows \o (IF adapter.fresh \/ adapter.enough = "rows" THEN New ELSE ThePage)
    /\ got' = got + Len(ThePage) /\ page' = page + 1 /\ total' = Told
    /\ progress' = IF Enough \/ (adapter.short = "end" /\ Len(ThePage) < PageSize) THEN "listed"
                   ELSE IF page' = MaxPages THEN (IF adapter.cap = "raise" THEN "raised" ELSE "listed")
                   ELSE "listing"
    /\ UNCHANGED <<adapter, site, stuck, steady, trouble, changes>>

\* An error status, after the retries: an exception, or the end of the listing.
Refused ==
    /\ progress = "listing"
    /\ progress' = IF adapter.refused = "keep" THEN "listed" ELSE "raised"
    /\ trouble' = trouble \cup {"refused"}
    /\ UNCHANGED <<adapter, site, stuck, page, pageRows, got, total, steady, changes>>

Broken ==
    /\ progress = "listing"
    /\ progress' = IF adapter.broken = "keep" THEN "listed" ELSE "raised"
    /\ trouble' = trouble \cup {"broken"}
    /\ UNCHANGED <<adapter, site, stuck, page, pageRows, got, total, steady, changes>>

----------------------------------------------------------------------------
(* After the loop.                                                         *)

Accounted == LET n == Cardinality(Range(pageRows))
             IN CASE adapter.check = "equal" -> n = total
                  [] adapter.check = "atmost" -> n <= total
                  [] OTHER -> TRUE

\* The detail pages of what is left; the answer is in rows.
Answered ==
    /\ progress = "listed" /\ Accounted
    /\ LET here == IF adapter.hk THEN Those(pageRows, Openings \ Elsewhere) ELSE pageRows
       IN \/ progress' = "answered" /\ pageRows' = here /\ UNCHANGED trouble
          \/ /\ here # <<>> /\ adapter.detail # "none" /\ trouble' = trouble \cup {"detail"}
             /\ \/ adapter.detail = "must" /\ progress' = "raised" /\ UNCHANGED pageRows
                \/ adapter.detail = "may" /\ progress' = "answered" /\ pageRows' = here
                \/ adapter.detail = "skip" /\ progress' = "answered"
                   /\ \E o \in Range(here) : pageRows' = Those(here, Openings \ {o})
    /\ UNCHANGED <<adapter, site, stuck, page, got, total, steady, changes>>

Unaccounted ==
    /\ progress = "listed" /\ ~Accounted
    /\ progress' = "raised"
    /\ UNCHANGED <<adapter, site, stuck, page, pageRows, got, total, steady, trouble, changes>>

Loop == EndOfListing \/ Contradiction \/ ReadPage \/ Refused \/ Broken \/ Answered \/ Unaccounted

BoardNext == Loop \/ \E o \in Openings : Appear(o) \/ Vanish(o)

BoardSpec == BoardInit /\ [][BoardNext]_boardVars

----------------------------------------------------------------------------
Here(s) == IF adapter.hk THEN s \ Elsewhere ELSE s

\* A site that holds still and answers every request is read whole by every adapter, as far as
\* its pages reach; nothing falls between two pages (the loops of adapters/*.py).
QuietSitesAreReadWhole ==
    progress = "answered" /\ trouble = {} /\ ~stuck =>
        \/ Here(Range(site)) = Range(pageRows)
        \/ Len(site) > MaxPages * PageSize /\ adapter.check # "equal" /\ adapter.feed = "pages"

\* An adapter that must account for every row announced answers with every posting that was
\* there the whole time, or with an exception, also when the site serves the same page over
\* and over, runs past the page cap or gains postings meanwhile ("listing is incomplete").  One
\* that holds on to the first total is misled when more are gained than a page holds: they are
\* counted in place of postings it has not come to.
AnnouncedPostingsAreAnswered ==
    progress = "answered" /\ adapter.check = "equal" /\ "vanished" \notin trouble
    /\ (adapter.total = "first" => changes <= (IF stuck THEN 0 ELSE PageSize)) =>
        Here(steady) \subseteq Range(pageRows)

\* One that holds on to the first page's total also notices postings that went away and pulled
\* others over the page break (direct_sf_rmk.py, direct_mtr.py, direct_hkairport.py).
FirstTotalsMissNothing ==
    progress = "answered" /\ adapter.check = "equal" /\ adapter.total # "last" /\ "appeared" \notin trouble =>
        Here(steady) \subseteq Range(pageRows)

\* No posting is answered twice by an adapter that remembers what it has seen, however the
\* site shifts between two pages.
NothingIsAnsweredTwice ==
    progress = "answered" /\ (adapter.fresh \/ (~stuck /\ trouble = {})) =>
        Len(pageRows) = Cardinality(Range(pageRows))

\* What a fetch answers is the listing: nothing missing that its adapter promises to notice,
\* and nothing twice.
PagesMissNothing ==
    /\ QuietSitesAreReadWhole /\ AnnouncedPostingsAreAnswered
    /\ FirstTotalsMissNothing /\ NothingIsAnsweredTwice
=============================================================================
