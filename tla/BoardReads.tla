----------------------------- MODULE BoardReads -----------------------------
(***************************************************************************)
(* Reading the board: which Listings a reader may see, what a search finds, *)
(* the order and the page that answer a request, the counts beside it, and  *)
(* the grants that let the reader open what was answered.  A request runs   *)
(* several statements, each on what the catalogue is by then; a publication *)
(* rewrites the table between them and gives every Listing another rowid.   *)
(***************************************************************************)
EXTENDS Integers, Sequences, FiniteSets, SequencesExt, Orders

CONSTANTS
    Catalogues,     \* tables of Listings to begin with; a Listing's rowid is its place
    PageSize, Cap,  \* rows on a page; Roles of one employer on the board (BOARD_COMPANY_CAP)
    GrantHours      \* hours a grant lasts

Tiers == {"mainstream", "boutique", "social"}
MemberTier == {"boutique", "social"}
Audiences == {"public", "member", "admin"}
Sorts == {"newest", "relevance", "company", "salary"}

\* A row of the jobs table: an open one may be posted today, within a month or (2) before.
Listings == [id : Nat, firm : STRING, tier : Tiers, priced : BOOLEAN, day : 0..2,
             state : {"open", "hidden", "closed", "copy"},
             match : {"exact", "title", "opposite", "skills", "text", "nothing"}]

ASSUME BoardReadsAssumption ==
    /\ PageSize \in Nat \ {0} /\ Cap \in Nat \ {0} /\ GrantHours \in Nat \ {0}
    /\ Catalogues \subseteq Seq(Listings)
    /\ \A c \in Catalogues : \A i, j \in DOMAIN c : c[i].id = c[j].id => i = j

VARIABLES
    table,          \* the jobs table, in the order of its rowids
    request,        \* what is asked, by whom
    stage,          \* "ask", "look", "count", "read", "answered", "refused"
    found,          \* rowids the search returned, best first
    total, answered,  \* what the request has answered so far: a count, Listings
    published,      \* a publication came between two statements of this request
    reader,         \* whose browser it is now
    grants,         \* Listing |-> hours its grant still holds, one of a member's Roles at first
    detail          \* the Listing whose details were answered last, or NoRole

readVars == <<table, request, stage, found, total, answered, published, reader, grants, detail>>

NoRole == [id |-> 0]
NoRequest == [reader |-> "public", query |-> "none", sort |-> "newest", tier |-> "all", page |-> 1]

----------------------------------------------------------------------------
(* What may be seen.                                                       *)

\* Open, primary, not hidden, posted within a month (day 2 stands for longer ago).
Core(c) == {i \in DOMAIN c : c[i].state = "open" /\ c[i].day < 2}

Fresher(c, i, j) == c[i].day < c[j].day \/ (c[i].day = c[j].day /\ i > j)

\* Mutant of BOARD_WHERE: Roles that are off the board take up places of the cap.
BoardBeforeHiding(c) ==
    {i \in Core(c) : Cardinality({j \in DOMAIN c : c[j].firm = c[i].firm /\ Fresher(c, j, i)}) < Cap}

\* board_visible_sql: the freshest of each employer.
BOARD_WHERE(c) ==
    {i \in Core(c) : Cardinality({j \in Core(c) : c[j].firm = c[i].firm /\ Fresher(c, j, i)}) < Cap}

InAudience(c, r) == {i \in DOMAIN c : r = "public" => c[i].tier \notin MemberTier}

----------------------------------------------------------------------------
(* search_index.matching_rowids.                                           *)

Hits(c, kinds) == {i \in DOMAIN c : c[i].match \in kinds}

\* Weighted by field: a hit in the title before one in the skills, then in the text.
Weight(l) == CASE l.match \in {"exact", "title", "opposite"} -> 0 [] l.match = "skills" -> 1 [] OTHER -> 2
ByWeight(c, s) ==
    InOrderOf(s, {p \in s \X s :
        \/ Weight(c[p[1]]) < Weight(c[p[2]])
        \/ Weight(c[p[1]]) = Weight(c[p[2]]) /\ p[1] < p[2]})

\* Titles that are the phrase come first; its opposites ("non financial") go.
Refined(c, s) ==
    LET kept == {i \in s : c[i].match # "opposite"}
        IsExact(i) == c[i].match = "exact"
    IN ByWeight(c, {i \in kept : IsExact(i)}) \o ByWeight(c, {i \in kept : ~IsExact(i)})

\* A phrase is looked for in the titles and the company, then in the skills, then anywhere;
\* a single word anywhere at once.
matching_rowids(c, query) ==
    LET titles == Hits(c, {"exact", "title", "opposite"})
        skills == Hits(c, {"skills"})
    IN CASE query = "phrase" /\ titles # {} -> Refined(c, titles)
         [] query = "phrase" /\ titles = {} /\ skills # {} -> ByWeight(c, skills)
         [] OTHER -> Refined(c, titles \cup skills \cup Hits(c, {"text"}))

----------------------------------------------------------------------------
(* list_jobs.                                                              *)

\* _where: visibility, audience, the search and the filters.
Scoped(c, r, f) ==
    {i \in BOARD_WHERE(c) \cap InAudience(c, r.reader) :
        /\ r.query # "none" => i \in Range(f)
        /\ r.tier # "all" => c[i].tier = r.tier}

Unpriced(l) == IF l.priced THEN 0 ELSE 1
PlaceIn(f, i) == IF i \in Range(f) THEN CHOOSE k \in DOMAIN f : f[k] = i ELSE Len(f) + 1

\* _order_sql, unpriced Listings demoted: the numbers a row is ordered by.
Keys(c, r, f, i) ==
    LET l == c[i]
    IN CASE r.sort = "relevance" /\ f # <<>> -> <<Unpriced(l), PlaceIn(f, i)>>
         [] r.sort = "company" -> <<IF l.firm = "a" THEN 0 ELSE 1, Unpriced(l)>>
         [] r.sort = "salary" -> <<Unpriced(l), 0>>
         [] OTHER -> <<l.day, Unpriced(l)>>

\* Which of two rows the order puts first, by rowid where the numbers are the same.
Before(c, r, f, s) ==
    {p \in s \X s :
        LET a == Keys(c, r, f, p[1])  b == Keys(c, r, f, p[2])
        IN \/ a[1] < b[1]
           \/ a[1] = b[1] /\ a[2] < b[2]
           \/ a = b /\ p[1] < p[2]}

\* _boosted_rows_sql: every fourth slot from the third on is for a recruiter's post.
BOOST_STRIDE == 4
BOOST_OFFSET == 3
FillOffsets == <<1, 2, 4>>

SlotOfPost(n) == BOOST_STRIDE * (n - 1) + BOOST_OFFSET

SlotOfOther(n) == BOOST_STRIDE * ((n - 1) \div Len(FillOffsets)) + FillOffsets[((n - 1) % Len(FillOffsets)) + 1]

IsPost(l) == l.tier = "social"

\* tier_rank: a row's place among the rows of its own kind.
TierRank(c, s, before, i) ==
    Cardinality({j \in s : IsPost(c[j]) = IsPost(c[i]) /\ <<j, i>> \in before}) + 1

Slot(c, s, before, i) ==
    IF IsPost(c[i]) THEN SlotOfPost(TierRank(c, s, before, i)) ELSE SlotOfOther(TierRank(c, s, before, i))

Boosted(c, s, before) ==
    InOrderOf(s, {p \in s \X s :
        \/ Slot(c, s, before, p[1]) < Slot(c, s, before, p[2])
        \/ /\ Slot(c, s, before, p[1]) = Slot(c, s, before, p[2])
           /\ TierRank(c, s, before, p[1]) < TierRank(c, s, before, p[2])})

Stream(c, r, f) == LET s == Scoped(c, r, f) IN Boosted(c, s, Before(c, r, f, s))

Offset(page) == (page - 1) * PageSize

PageOf(c, r, f) ==
    LET stream == Stream(c, r, f)
    IN [k \in 1..Cardinality({n \in 1..PageSize : Offset(r.page) + n <= Len(stream)}) |->
            c[stream[Offset(r.page) + k]]]

CountOf(c, r, f) == Cardinality(Scoped(c, r, f))
PagesFor(n) == (n + PageSize - 1) \div PageSize

----------------------------------------------------------------------------
(* research_facets.                                                        *)

scope_where(c, r) ==
    {i \in BOARD_WHERE(c) \cap InAudience(c, r.reader) :
        r.query # "none" => i \in Range(matching_rowids(c, r.query))}

tier_counts(c, r) == [t \in Tiers |-> Cardinality({i \in scope_where(c, r) : c[i].tier = t})]

----------------------------------------------------------------------------
(* A request, and the browser that makes it.                               *)

ReadInit ==
    /\ table \in Catalogues
    /\ request = NoRequest /\ stage = "ask" /\ found = <<>> /\ total = 0 /\ answered = <<>>
    /\ published = FALSE /\ detail = NoRole /\ reader \in Audiences
    /\ grants \in {[l \in s |-> GrantHours] : s \in {{}} \cup {{l} : l \in {x \in Range(table) : x.tier \in MemberTier}}}

\* GET /api/jobs; without a question only an admin is answered.
Ask(q, s, t, p) ==
    /\ stage = "ask"
    /\ request' = [reader |-> reader, query |-> q, sort |-> s, tier |-> t, page |-> p]
    /\ stage' = (IF q = "none" /\ reader # "admin" THEN "refused" ELSE "look")
    /\ found' = <<>> /\ total' = 0 /\ answered' = <<>> /\ published' = FALSE
    /\ UNCHANGED <<table, reader, grants, detail>>

LookUp ==
    /\ stage = "look" /\ stage' = "count"
    /\ found' = (IF request.query = "none" THEN <<>> ELSE matching_rowids(table, request.query))
    /\ UNCHANGED <<table, request, total, answered, published, reader, grants, detail>>

Count ==
    /\ stage = "count" /\ stage' = "read"
    /\ total' = CountOf(table, request, found)
    /\ UNCHANGED <<table, request, found, answered, published, reader, grants, detail>>

\* The page, with a grant for each of its Listings.
ReadThePage ==
    /\ stage = "read" /\ stage' = "answered"
    /\ answered' = PageOf(table, request, found)
    /\ grants' = [l \in DOMAIN grants \cup Range(answered') |->
                     IF l \in Range(answered') THEN GrantHours ELSE grants[l]]
    /\ UNCHANGED <<table, request, found, total, published, reader, detail>>

\* get_job: an admin, or a grant; recruiters' and boutiques' Roles for members alone.
AccessAllowed(l) ==
    /\ reader = "admin" \/ l \in DOMAIN grants
    /\ l.tier \in MemberTier => reader # "public"

OpenDetail(l) ==
    /\ stage = "answered" /\ AccessAllowed(l)
    /\ detail' = l
    /\ UNCHANGED <<table, request, stage, found, total, answered, published, reader, grants>>

SignOut ==
    /\ reader # "public" /\ reader' = "public" /\ detail' = NoRole
    /\ UNCHANGED <<table, request, stage, found, total, answered, published, grants>>

HourPasses ==
    /\ DOMAIN grants # {}
    /\ grants' = [l \in {x \in DOMAIN grants : grants[x] > 1} |-> grants[l] - 1]
    /\ UNCHANGED <<table, request, stage, found, total, answered, published, reader, detail>>

----------------------------------------------------------------------------
(* The catalogue under the reader.                                         *)

\* _copy_rows: the table is emptied and filled again, in the order of the incoming file; a
\* publication before the look-up is another table to begin with.
PublishCatalogue ==
    /\ stage \in {"count", "read"}
    /\ \E c \in {Reverse(table), SubSeq(table, 2, Len(table))} : c # table /\ table' = c
    /\ published' = TRUE
    /\ UNCHANGED <<request, stage, found, total, answered, reader, grants, detail>>

ReadNext ==
    \/ \E q \in {"none", "word", "phrase"}, s \in Sorts, t \in {"all"} \cup Tiers, p \in 1..2 : Ask(q, s, t, p)
    \/ LookUp \/ Count \/ ReadThePage \/ SignOut \/ HourPasses \/ PublishCatalogue
    \/ \E i \in DOMAIN table : OpenDetail(table[i])

ReadSpec == ReadInit /\ [][ReadNext]_readVars

----------------------------------------------------------------------------
Smaller(a, b) == IF a < b THEN a ELSE b

\* Whatever the catalogue and the order asked for, the pages of one question hold every Role
\* that answers it once and no other, and their number is the one announced (list_jobs: both
\* rules "change row order ONLY").
PagesPartitionTheAnswer ==
    stage = "answered" /\ ~published =>
        LET last == PagesFor(total)
            page(p) == PageOf(table, [request EXCEPT !.page = p], found)
            held == UNION {Range(page(p)) : p \in 1..last}
            rows == UNION {{<<p, k>> : k \in DOMAIN page(p)} : p \in 1..last}
        IN /\ request.page <= last => answered # <<>>
           /\ Cardinality(rows) = total
           /\ Cardinality(held) = total
           /\ page(last + 1) = <<>>

\* Of the first 4n rows of a question's stream, n are recruiters' posts as long as there are
\* posts, and none is more as long as there are others (_boosted_rows_sql: "One slot in every
\* BOOST_STRIDE is reserved").
PostsKeepTheirCadence ==
    stage = "read" =>
        LET stream == Stream(table, request, found)
            Posts(k) == Cardinality({n \in 1..k : table[stream[n]].tier = "social"})
            posts == Posts(Len(stream))
            others == Len(stream) - posts
        IN \A n \in 1..Len(stream) :
               /\ Posts(n) >= Smaller(posts, (n + 1) \div BOOST_STRIDE)
               /\ n - Posts(n) >= Smaller(others, n - ((n + 1) \div BOOST_STRIDE))

\* A reader is answered only Roles that are on the board and for them when the page is read,
\* however the catalogue was rewritten since the question was looked up.
AnswersAreForTheReader ==
    [][stage = "read" /\ stage' = "answered" =>
          \A l \in Range(answered') :
              \E i \in BOARD_WHERE(table) \cap InAudience(table, request.reader) : table[i] = l]_readVars

\* The counts beside the filters are the numbers of Roles those filters give (research_facets,
\* list_jobs: "one predicate all of them share").
FacetsAgreeWithTheBoard ==
    stage = "read" /\ ~published =>
        \A t \in Tiers :
            tier_counts(table, request)[t] = CountOf(table, [request EXCEPT !.tier = t], found)

\* What is opened was answered to this browser before, or an admin opens it, and a visitor
\* opens no member's Role, even with the grants of the member who used the browser before.
OnlyDiscoveredRolesAreOpened ==
    [][detail' # detail /\ detail' # NoRole =>
          /\ reader = "admin" \/ detail' \in DOMAIN grants
          /\ reader = "public" => detail'.tier \notin MemberTier]_readVars

\* Hidden and closed Roles, and copies, give their place in an employer's share to others: no
\* employer has fewer Roles on the board than it could (ADR 0035).
EmployersFillTheirShare ==
    \A f \in {table[i].firm : i \in DOMAIN table} :
        LET open == {i \in Core(table) : table[i].firm = f}
        IN Cardinality(BOARD_WHERE(table) \cap open) = Smaller(Cap, Cardinality(open))

\* What readers are given is the board: whole in its pages, in its order, with counts that are
\* true of it, for nobody it is not for.
ReadsShowTheBoard ==
    /\ [](/\ PagesPartitionTheAnswer /\ PostsKeepTheirCadence
          /\ FacetsAgreeWithTheBoard /\ EmployersFillTheirShare)
    /\ AnswersAreForTheReader /\ OnlyDiscoveredRolesAreOpened
=============================================================================
