-------------------------- MODULE WeeklyHighlights --------------------------
(***************************************************************************)
(* The promotion rail of the landing page: the shortlist drawn from the     *)
(* board (and mailed on Sundays), the selection an Ultimate Admin saves     *)
(* for the coming week, and the banner that resolves this week's selection  *)
(* Role by Role while the catalogue goes on changing.                       *)
(***************************************************************************)
EXTENDS Integers, Sequences, FiniteSets, SequencesExt, FiniteSetsExt

CONSTANTS
    Tables,                         \* catalogues, each a sequence of Roles, the strongest first
    Editors,
    Limit,                          \* Roles on the shortlist (12)
    MAX_PER_EMPLOYER, MAX_PER_CATEGORY,
    Picks,                          \* selections an admin may send, as places on the shortlist
    LastDay, MaxSaves, MaxChanges   \* bounds: days after the first, selections, changes of Roles

Bands == <<"Executive", "Senior", "Established">>

\* What a Role pays: a monthly or an annual figure the advert states, a monthly one beside the
\* words "per annum", an estimate from a sourced cell, or nothing fit to promote.
PayKinds == {"monthly", "annual", "worded annual", "estimate", "unfit"}

ASSUME HighlightsAssumption ==
    /\ Limit \in Nat \ {0} /\ MAX_PER_EMPLOYER \in Nat \ {0} /\ MAX_PER_CATEGORY \in Nat \ {0}
    /\ LastDay \in Nat /\ MaxSaves \in Nat /\ MaxChanges \in Nat
    /\ \A t \in Tables : \A i \in DOMAIN t : t[i].pay \in PayKinds /\ t[i].band \in Range(Bands)

VARIABLES
    roles,      \* the jobs table
    today,      \* Hong Kong's day; day 0 is a Sunday
    weeks,      \* week |-> saved selection, a sequence of Role ids, or Unsaved
    desk,       \* Admin |-> the request that saves a selection
    banner,     \* the request for the banner: what is left to resolve, what was resolved
    sent, changed   \* selections sent, changes of Roles so far

highlightVars == <<roles, today, weeks, desk, banner, sent, changed>>

Unsaved == <<-1>>
Weeks == 0..(LastDay \div 7 + 2)

\* week_bounds: the Monday before a day (day 1 begins week 1), and _upcoming_week: the next
\* Monday, which on a Monday is that day.
WeekOf(day) == (day + 6) \div 7
UpcomingWeek(day) == WeekOf(day + 6)

Away == [stage |-> "away", week |-> 0, available |-> {}, selection |-> <<>>]
Closed == [stage |-> "closed", left |-> <<>>, shown |-> <<>>, reader |-> "visitor"]

----------------------------------------------------------------------------
(* _pick_diverse.                                                          *)

\* suitable_highlight_salary on the figures the query computed.
SuitableByQuery(l) == l.pay # "unfit"

\* The same on the period the reader is shown (_salary_period reads the text).
SuitableByReading(l) == l.pay \notin {"unfit", "worded annual"}

MemberOnly(l) == l.tier \in {"boutique", "social"}

Of(chosen, field, value, t) == Cardinality({i \in Range(chosen) : t[i][field] = value})

Allowed(t, chosen, i, categories) ==
    /\ i \notin Range(chosen)
    /\ Of(chosen, "employer", t[i].employer, t) < MAX_PER_EMPLOYER
    /\ categories => Of(chosen, "category", t[i].category, t) < MAX_PER_CATEGORY

\* One turn of a pay band: its strongest Role that is allowed.
Turn(t, eligible, chosen, band) ==
    LET fit == {i \in eligible : t[i].band = band /\ Allowed(t, chosen, i, TRUE)}
    IN IF fit = {} \/ Len(chosen) = Limit THEN chosen ELSE Append(chosen, Min(fit))

\* Round after round, until the list is full or a round adds nothing.
Rounds(t, eligible) ==
    FoldLeft(LAMBDA chosen, band : Turn(t, eligible, chosen, band), <<>>,
             [k \in 1..(Len(Bands) * Limit) |-> Bands[((k - 1) % Len(Bands)) + 1]])

\* Then whoever the categories alone kept out.
Relaxed(t, eligible, chosen) ==
    FoldLeft(LAMBDA c, i : IF Len(c) < Limit /\ i \in eligible /\ Allowed(t, c, i, FALSE) THEN Append(c, i) ELSE c,
             chosen, [i \in DOMAIN t |-> i])

Eligible(t) == {i \in DOMAIN t : t[i].state = "open" /\ t[i].fresh /\ ~MemberOnly(t[i]) /\ SuitableByQuery(t[i])}

\* select_weekly_highlight_candidates.
Shortlist(t) == LET picked == Relaxed(t, Eligible(t), Rounds(t, Eligible(t)))
                IN [k \in DOMAIN picked |-> t[picked[k]].id]

RoleOf(id) == LET at == {i \in DOMAIN roles : roles[i].id = id}
              IN IF at = {} THEN [id |-> id, state |-> "gone"] ELSE roles[CHOOSE i \in at : TRUE]

----------------------------------------------------------------------------
HighlightsInit ==
    /\ roles \in Tables /\ today = 0
    /\ weeks = [w \in Weeks |-> Unsaved]
    /\ desk = [a \in Editors |-> Away] /\ banner = Closed /\ sent = 0 /\ changed = 0

Chosen(choice) == LET p == Shortlist(roles)
                     places == SelectSeq(choice, LAMBDA k : k \in DOMAIN p)
                 IN [n \in DOMAIN places |-> p[places[n]]]

\* An admin reads the queue and sends a selection of it.
SendSelection(a, choice) ==
    /\ desk[a].stage = "away" /\ sent < MaxSaves /\ sent' = sent + 1
    /\ desk' = [desk EXCEPT ![a] = [Away EXCEPT !.stage = "sent", !.selection = Chosen(choice)]]
    /\ UNCHANGED <<roles, today, weeks, banner, changed>>

Queue(a) == Range(Shortlist(roles))

\* save_banner_candidates_route: the coming week, and the queue as it is now.
ReadQueue(a) ==
    /\ desk[a].stage = "sent"
    /\ desk' = [desk EXCEPT ![a].stage = IF Range(desk[a].selection) \subseteq Queue(a) THEN "save" ELSE "away",
                            ![a].week = UpcomingWeek(today), ![a].available = Range(Shortlist(roles))]
    /\ UNCHANGED <<roles, today, weeks, banner, sent, changed>>

\* Mutant of Saved: the rows before the one that is refused stay.
SavedInPart(before, selection) ==
    IF IsInjective(selection) THEN selection ELSE SubSeq(selection, 1, 1)

\* A Role given twice breaks the UNIQUE constraint, and the whole replacement is rolled back.
Saved(before, selection) == IF IsInjective(selection) THEN selection ELSE before

\* save_weekly_highlights, one transaction.
SaveSelection(a) ==
    /\ desk[a].stage = "save"
    /\ weeks' = [weeks EXCEPT ![desk[a].week] = Saved(@, desk[a].selection)]
    /\ desk' = [desk EXCEPT ![a] = Away]
    /\ UNCHANGED <<roles, today, banner, sent, changed>>

----------------------------------------------------------------------------
\* GET /api/highlights: this week's references first.
OpenBanner(reader) ==
    /\ banner.stage = "closed"
    /\ banner' = [stage |-> "resolve", shown |-> <<>>, reader |-> reader,
                  left |-> IF weeks[WeekOf(today)] = Unsaved THEN <<>> ELSE weeks[WeekOf(today)]]
    /\ UNCHANGED <<roles, today, weeks, desk, sent, changed>>

Advertised(l, reader) ==
    /\ l.state \in {"open", "hidden"}
    /\ SuitableByReading(l)
    /\ MemberOnly(l) => reader # "visitor"

\* One Role more, as it is by now; a copy or a hidden one is addressable all the same.
ResolveRole ==
    /\ banner.stage = "resolve" /\ banner.left # <<>>
    /\ LET l == RoleOf(Head(banner.left))
       IN banner' = [banner EXCEPT !.left = Tail(@),
                                   !.shown = IF Advertised(l, banner.reader) THEN Append(@, l) ELSE @]
    /\ UNCHANGED <<roles, today, weeks, desk, sent, changed>>

AnswerBanner ==
    /\ banner.stage = "resolve" /\ banner.left = <<>>
    /\ banner' = Closed
    /\ UNCHANGED <<roles, today, weeks, desk, sent, changed>>

----------------------------------------------------------------------------
\* A publication closes, drops or reprices a Role, or an admin hides it.
CatalogueChanges(i, l) ==
    /\ roles' = [roles EXCEPT ![i] = l]
    /\ l # roles[i] /\ changed < MaxChanges /\ changed' = changed + 1
    /\ UNCHANGED <<today, weeks, desk, banner, sent>>

NextDay ==
    /\ today < LastDay /\ today' = today + 1
    /\ UNCHANGED <<roles, weeks, desk, banner, sent, changed>>

\* What becomes of a Role.
Fates(l) == {[l EXCEPT !.state = s] : s \in {"closed", "hidden"}} \cup {[l EXCEPT !.pay = "unfit"]}

HighlightsNext ==
    \/ ResolveRole \/ AnswerBanner \/ NextDay
    \/ \E a \in Editors : ReadQueue(a) \/ SaveSelection(a) \/ \E c \in Picks : SendSelection(a, c)
    \/ \E r \in {"visitor", "member"} : OpenBanner(r)
    \/ \E i \in DOMAIN roles : \E l \in Fates(roles[i]) : CatalogueChanges(i, l)

----------------------------------------------------------------------------
At(id) == CHOOSE i \in DOMAIN roles : roles[i].id = id

\* The shortlist never has too many Roles of one employer, nor one twice; it leaves an eligible
\* Role out only when it is full or the Role's employer is; and it has too many of a category only
\* when nothing else could fill it (_pick_diverse).
ShortlistIsDiverse ==
    LET p == Shortlist(roles)
        picked == {At(p[k]) : k \in DOMAIN p}
        Count(field, i) == Cardinality({j \in picked : roles[j][field] = roles[i][field]})
    IN /\ Len(p) <= Limit /\ IsInjective(p) /\ picked \subseteq Eligible(roles)
       /\ \A i \in picked : Count("employer", i) <= MAX_PER_EMPLOYER
       /\ \A i \in Eligible(roles) \ picked : Len(p) = Limit \/ Count("employer", i) = MAX_PER_EMPLOYER
       /\ (\E i \in picked : Count("category", i) > MAX_PER_CATEGORY) =>
              \A j \in Eligible(roles) \ picked :
                  Count("employer", j) = MAX_PER_EMPLOYER \/ Count("category", j) >= MAX_PER_CATEGORY

\* Every pay band that has a Role for the shortlist has one on it, when there is room for all
\* ("each pay band gets a turn before the second candidate from any band").
EveryBandIsHeard ==
    LET p == Shortlist(roles)
    IN Limit >= Len(Bands) =>
        \A i \in Eligible(roles) :
            \/ \E k \in DOMAIN p : roles[At(p[k])].band = roles[i].band
            \/ Cardinality({k \in DOMAIN p : roles[At(p[k])].employer = roles[i].employer}) = MAX_PER_EMPLOYER
            \/ Cardinality({k \in DOMAIN p : roles[At(p[k])].category = roles[i].category}) >= MAX_PER_CATEGORY

\* What a saved week promotes was one admin's selection, whole, of the Roles that were on the
\* shortlist when it was taken in, whatever else was sent meanwhile.
WeeksAreOneSelection ==
    [][weeks' # weeks =>
          \E a \in Editors : \E w \in Weeks :
              /\ weeks' = [weeks EXCEPT ![w] = desk[a].selection]
              /\ IsInjective(weeks'[w]) /\ Range(weeks'[w]) \subseteq desk[a].available]_highlightVars

\* The banner promotes Roles of one saved week, in its order, each of which was open to
\* applications, well paid and for that reader when it was looked up ("a live promise, not an
\* archive").
BannersAreLive ==
    [][banner.stage = "resolve" /\ banner'.shown # banner.shown /\ banner'.stage = "resolve" =>
          LET l == Last(banner'.shown)
          IN /\ l.id = Head(banner.left) /\ RoleOf(l.id) = l
             /\ l.state # "closed" /\ SuitableByReading(l)
             /\ MemberOnly(l) => banner.reader # "visitor"]_highlightVars
\* From the shortlist through an admin's selection to the banner, a promotion is a fair choice
\* of live Roles that somebody made.
PromotionsAreChosen ==
    /\ [](ShortlistIsDiverse /\ EveryBandIsHeard)
    /\ WeeksAreOneSelection /\ BannersAreLive
=============================================================================
