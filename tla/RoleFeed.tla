------------------------------ MODULE RoleFeed ------------------------------
(***************************************************************************)
(* "Roles for you": the evidence a Seeker leaves (saved Roles, searches,    *)
(* opened cards, verdicts, a resume and its corrections), the ranking       *)
(* computed from it at every request, the pages that ranking is cut into,   *)
(* and the panel of one browser tab that asks for them, sends verdicts and  *)
(* takes them back while answers are on their way.                          *)
(***************************************************************************)
EXTENDS Integers, Sequences, FiniteSets, SequencesExt, FiniteSetsExt

CONSTANTS
    Catalogue,              \* Roles [id, employer, sector, skill, level, age], ids from the newest
    Resumes,                \* what a resume says: [text, skills, sector, level]
    CorrectedSkills, CorrectedLevels,   \* what a Seeker may correct
    Sectors,                \* what is searched for
    CandidateWindow, TargetedWindow,    \* newest Roles of the board; of the resume's Roles
    FeedSize, MatchSize, MaxFeedPages,
    MaxVerdicts, MaxDeeds   \* bounds: buttons pressed on the panel, deeds elsewhere

ASSUME FeedAssumption ==
    /\ FeedSize \in 1..24 /\ MatchSize \in 1..12 /\ MaxFeedPages \in Nat \ {0}
    /\ CandidateWindow \in Nat /\ TargetedWindow \in Nat
    /\ MaxVerdicts \in Nat /\ MaxDeeds \in Nat
    /\ \A r \in Catalogue : r.level \in 0..6 /\ r.age \in {"new", "month", "old"}

VARIABLES
    shelf,      \* the Seeker's rows: [saved, opened, searched, verdicts, resume, correction]
    panel,      \* [page, nonce, items, liked, of, total, failed, pending]
    asks,       \* requests of the feed on their way: [nonce, page, ranked, answer, liked, total]
    posts,      \* verdicts on their way: [role, verb, stored]
    toast,      \* the Role whose dismissal the toast offers to undo with, or NoToast
    pressed, deeds

feedVars == <<shelf, panel, asks, posts, toast, pressed, deeds>>

NoResume == [text |-> {}, skills |-> {}, sector |-> "", level |-> -1]
NoCorrection == [skills |-> {"*"}, level |-> -1]
NoToast == 0

----------------------------------------------------------------------------
(* The evidence, and how well a Role fits a resume.                        *)

\* apply_override on what was extracted.
Effective(s) ==
    [s.resume EXCEPT !.skills = IF s.correction.skills = {"*"} THEN @ ELSE s.correction.skills,
                     !.level = IF s.correction.level = -1 THEN @ ELSE s.correction.level]

Distance(a, b) == IF a < b THEN b - a ELSE a - b

\* Skills are looked for in the document itself; one is worth 22 of at most 55 points.
SkillPoints(cv, r) == IF r.skill \in cv.text THEN 22 ELSE 0
FieldPoints(cv, r) == IF r.sector = cv.sector THEN 35 ELSE 0     \* family 25, sector 10

LevelPoints(cv, r) ==
    IF cv.level = -1 THEN 0
    ELSE CASE Distance(cv.level, r.level) = 0 -> 10
           [] Distance(cv.level, r.level) = 1 -> 4
           [] Distance(cv.level, r.level) = 2 -> -10
           [] OTHER -> -25

\* score_resume_fit.
ResumeFit(cv, r) == Max({0, Min({100, SkillPoints(cv, r) + FieldPoints(cv, r) + LevelPoints(cv, r)})})

\* _profile: what each kind of evidence says of a sector, an employer and a skill, in quarters
\* of a point; weights of one reason are added up to 15 points.
Weights == [saved |-> [sector |-> 20, employer |-> 6, skill |-> 10],
            liked |-> [sector |-> 34, employer |-> 12, skill |-> 18],
            opened |-> [sector |-> 10, employer |-> 3, skill |-> 5],
            searched |-> [sector |-> 20, employer |-> 0, skill |-> 0]]

Liked(s) == {r \in Catalogue : <<r.id, "more_like">> \in s.verdicts}
Dismissed(s) == {r \in Catalogue : <<r.id, "not_interested">> \in s.verdicts}

\* Roles that speak for the kind of evidence; a search speaks by its sector alone.
Speaks(s, source) ==
    CASE source = "saved" -> {r \in Catalogue : r.id \in s.saved}
      [] source = "liked" -> Liked(s)
      [] source = "opened" -> {r \in Catalogue : r.id \in s.opened}
      [] source = "searched" -> {}

\* The weight of the signal [source, kind, value], before its cap of 15 points.
RawSignal(s, source, kind, value) ==
    IF source = "searched"
    THEN IF kind = "sector" /\ value \in s.searched THEN Weights.searched.sector ELSE 0
    ELSE Weights[source][kind] * Cardinality({r \in Speaks(s, source) : r[kind] = value})

Kinds == {"sector", "employer", "skill"}
SignalKeys == UNION {{<<source, kind, r[kind]>> : r \in Catalogue} :
                     <<source, kind>> \in (DOMAIN Weights) \X Kinds}

\* The signals that weigh something, what they come to, and what a Role collects of them.
Profile(s) == {<<k, Min({60, RawSignal(s, k[1], k[2], k[3])})>> : k \in SignalKeys} \ {<<k, 0>> : k \in SignalKeys}

\* signal_capacity: the sum of the capped weights.
SignalCapacity(s) == MapThenSumSet(LAMBDA g : g[2], Profile(s))
SignalHit(profile, r) == MapThenSumSet(LAMBDA g : g[2], {g \in profile : g[1][3] = r[g[1][2]]})

Freshness(r) == CASE r.age = "new" -> 1500 [] r.age = "month" -> 750 [] OTHER -> 0

\* _score: a share of the signals, a resume half of it once there is one; in thousandths.
Blend(capacity, hit, resumed, fit) ==
    CASE resumed /\ capacity > 0 -> (50000 * hit) \div capacity + 500 * fit
      [] resumed /\ capacity = 0 -> 1000 * fit
      [] ~resumed /\ capacity > 0 -> (100000 * hit) \div capacity
      [] OTHER -> 0

\* Roles beside their scores.
Marks(s, set) ==
    LET profile == Profile(s)  capacity == SignalCapacity(s)
        Relevance(r) == Blend(capacity, SignalHit(profile, r), s.resume # NoResume, ResumeFit(Effective(s), r))
    IN {<<r, Relevance(r) + Freshness(r)>> : r \in set}

----------------------------------------------------------------------------
(* Candidates, ranking, pages.                                             *)

NewestOf(set, n) == {r \in set : Cardinality({q \in set : q.id < r.id}) < n}

\* retrieval_terms: the board's Roles that ask for a skill the resume is said to hold.
Targeted(s) == {r \in Catalogue : r.skill \in Effective(s).skills}

Candidates(s) == NewestOf(Catalogue, CandidateWindow) \cup NewestOf(Targeted(s), TargetedWindow)

EligibleFor(s) == {r \in Candidates(s) : r.id \notin s.saved /\ r \notin Dismissed(s)}

HasEvidence(s) == s.saved \cup s.opened # {} \/ s.searched # {} \/ Liked(s) # {} \/ s.resume # NoResume

\* Roles beside their marks, the best first.
Sorted(marked) ==
    [i \in 1..Cardinality(marked) |->
        (CHOOSE m \in marked : i = 1 + Cardinality({n \in marked :
            n[2] > m[2] \/ (n[2] = m[2] /\ n[1].id < m[1].id)}))[1]]

\* rank_roles: by score, among equals the newest first.
Ranking(s) == IF HasEvidence(s) THEN Sorted(Marks(s, EligibleFor(s))) ELSE <<>>

Upto(list, n) == SubSeq(list, 1, Min({n, Len(list)}))
IsLead(list, r) == list[Min({i \in 1..Len(list) : list[i].employer = r.employer})] = r

\* One round of _page_with_employer_diversity: one Role of each employer, then the rest.
NextPage(list) ==
    LET leads == Upto(SelectSeq(list, LAMBDA r : IsLead(list, r)), FeedSize)
        first == Range(leads)
    IN Upto(leads \o SelectSeq(list, LAMBDA r : r \notin first), FeedSize)

\* Mutant of Without: what is left once an employer on the page is taken to be dealt with.
WithoutEmployers(list) ==
    LET page == {r.employer : r \in Range(NextPage(list))}
    IN SelectSeq(list, LAMBDA r : r.employer \notin page)

\* What the next page is cut from.
Without(list) == LET page == Range(NextPage(list)) IN SelectSeq(list, LAMBDA r : r \notin page)

\* All pages of a ranking, one round after another.
Pages(ranking) ==
    FoldLeft(LAMBDA done, i : [left |-> Without(done.left), pages |-> Append(done.pages, NextPage(done.left))],
             [left |-> ranking, pages |-> <<>>],
             [i \in 1..((Len(ranking) + FeedSize - 1) \div FeedSize) |-> i]).pages

PageOf(s, page) ==
    LET pages == Pages(Ranking(s)) IN IF page <= Len(pages) THEN pages[page] ELSE <<>>
TotalPages(s) == Min({MaxFeedPages, (Len(Ranking(s)) + FeedSize - 1) \div FeedSize})

\* rank_resume_matches: Roles over the floor of 15, only those over 25 when there are any.
Fitting(s, bar) == {r \in Candidates(s) : ResumeFit(Effective(s), r) >= bar}

Scored(s) == IF Fitting(s, 25) # {} THEN Fitting(s, 25) ELSE Fitting(s, 15)

ResumeMatches(s) ==
    LET list == Sorted({<<r, ResumeFit(Effective(s), r)>> : r \in Scored(s)})
        leads == Upto(SelectSeq(list, LAMBDA r : IsLead(list, r)), MatchSize)
        first == Range(leads)
    IN IF s.resume = NoResume THEN <<>>
       ELSE Upto(leads \o SelectSeq(list, LAMBDA r : r \notin first), MatchSize)

----------------------------------------------------------------------------
(* The panel.                                                              *)

Blank == [page |-> 1, nonce |-> 1, items |-> <<>>, liked |-> {}, of |-> 0, total |-> 0,
          failed |-> FALSE, pending |-> 0]

FeedInit ==
    /\ shelf = [saved |-> {}, opened |-> {}, searched |-> {}, verdicts |-> {},
                resume |-> NoResume, correction |-> NoCorrection]
    /\ panel = Blank
    /\ asks = {[nonce |-> 1, page |-> 1, ranked |-> FALSE, answer |-> <<>>, liked |-> {}, total |-> 0]}
    /\ posts = {} /\ toast = NoToast /\ pressed = 0 /\ deeds = 0

Loading == \E a \in asks : a.nonce = panel.nonce

\* A request for a page: the effect runs again, and what was asked before is not listened to.
Asking(page, from) ==
    /\ panel' = [from EXCEPT !.page = page, !.nonce = @ + 1, !.failed = FALSE]
    /\ asks' = asks \cup {[nonce |-> panel.nonce + 1, page |-> page, ranked |-> FALSE, answer |-> <<>>,
                           liked |-> {}, total |-> 0]}

\* roles_for_seeker: every answer is ranked from the rows of its moment.
RankFeed ==
    \E a \in asks :
        /\ ~a.ranked
        /\ asks' = (asks \ {a}) \cup
             {[a EXCEPT !.ranked = TRUE, !.answer = PageOf(shelf, a.page), !.total = TotalPages(shelf),
                        !.liked = {r.id : r \in Liked(shelf)}]}
    /\ UNCHANGED <<shelf, panel, posts, toast, pressed, deeds>>

Show(a) == panel' = [panel EXCEPT !.items = a.answer, !.liked = a.liked, !.of = a.page, !.total = a.total]

\* The answer arrives; one whose effect was cancelled is dropped.
Hear(a) == IF a.nonce = panel.nonce THEN Show(a) ELSE UNCHANGED panel

Answer ==
    \E a \in asks :
        /\ a.ranked
        /\ Hear(a)
        /\ asks' = asks \ {a}
    /\ UNCHANGED <<shelf, posts, toast, pressed, deeds>>

AnswerFails ==
    \E a \in asks :
        /\ asks' = asks \ {a}
        /\ panel' = IF a.nonce = panel.nonce THEN [panel EXCEPT !.failed = TRUE] ELSE panel
    /\ UNCHANGED <<shelf, posts, toast, pressed, deeds>>

Press == pressed < MaxVerdicts /\ pressed' = pressed + 1

\* showOthers; "Try again" asks for the same page.
ShowOthers ==
    /\ ~Loading /\ Press
    /\ LET total == Max({1, panel.total})
       IN Asking(IF panel.failed THEN panel.page
                 ELSE IF panel.page >= total THEN 1 ELSE panel.page + 1, panel)
    /\ UNCHANGED <<shelf, posts, toast, deeds>>

OnScreen(r) == ~Loading /\ ~panel.failed /\ r \in Range(panel.items)

\* moreLike and dismissRole: the buttons of the one Role last pressed are disabled.
Judge(verb) ==
    /\ Press
    /\ \E r \in Catalogue :
         /\ OnScreen(r) /\ panel.pending # r.id
         /\ posts' = posts \cup {[role |-> r.id, stored |-> FALSE, verb |->
              IF verb = "more_like" /\ r.id \in panel.liked THEN "unlike" ELSE verb]}
         /\ panel' = [panel EXCEPT !.pending = r.id]
    /\ UNCHANGED <<shelf, asks, toast, deeds>>
MoreLike == Judge("more_like")
DismissRole == Judge("not_interested")

\* openRole: the card opens, its click is counted when it arrives.
OpenRole ==
    /\ Press
    /\ \E r \in Catalogue : OnScreen(r) /\ shelf' = [shelf EXCEPT !.opened = @ \cup {r.id}]
    /\ UNCHANGED <<panel, asks, posts, toast, deeds>>

Undo ==
    /\ toast # NoToast /\ Press
    /\ posts' = posts \cup {[role |-> toast, verb |-> "undo", stored |-> FALSE]}
    /\ toast' = NoToast
    /\ UNCHANGED <<shelf, panel, asks, deeds>>

ToastFades == toast # NoToast /\ toast' = NoToast /\ UNCHANGED <<shelf, panel, asks, posts, pressed, deeds>>

\* record_recommendation_feedback takes the opposite verdict away, delete_ only its own.
Verdicts(post) ==
    CASE post.verb = "more_like" ->
           (shelf.verdicts \ {<<post.role, "not_interested">>}) \cup {<<post.role, "more_like">>}
      [] post.verb = "not_interested" ->
           (shelf.verdicts \ {<<post.role, "more_like">>}) \cup {<<post.role, "not_interested">>}
      [] post.verb = "unlike" -> shelf.verdicts \ {<<post.role, "more_like">>}
      [] post.verb = "undo" -> shelf.verdicts \ {<<post.role, "not_interested">>}

StoreVerdict ==
    \E p \in posts :
        /\ ~p.stored
        /\ shelf' = [shelf EXCEPT !.verdicts = Verdicts(p)]
        /\ posts' = (posts \ {p}) \cup {[p EXCEPT !.stored = TRUE]}
    /\ UNCHANGED <<panel, asks, toast, pressed, deeds>>

\* The verdict is confirmed: the card is pressed, released or taken away, an undo reloads.
Confirmed ==
    \E p \in posts :
        /\ p.stored /\ posts' = posts \ {p}
        /\ \/ /\ p.verb \in {"more_like", "unlike"}
              /\ panel' = [panel EXCEPT !.pending = 0,
                   !.liked = IF p.verb = "more_like" THEN @ \cup {p.role} ELSE @ \ {p.role}]
              /\ toast' = NoToast /\ UNCHANGED asks
           \/ /\ p.verb = "not_interested"
              /\ panel' = [panel EXCEPT !.pending = 0,
                   !.items = SelectSeq(@, LAMBDA r : r.id # p.role)]
              /\ toast' = p.role /\ UNCHANGED asks
           \/ p.verb = "undo" /\ Asking(1, panel) /\ UNCHANGED toast
    /\ UNCHANGED <<shelf, pressed, deeds>>

\* A verdict whose request failed, stored or not, changes nothing on the panel.
VerdictFails ==
    \E p \in posts :
        /\ posts' = posts \ {p}
        /\ panel' = IF p.verb = "undo" THEN panel ELSE [panel EXCEPT !.pending = 0]
        /\ toast' = NoToast
    /\ UNCHANGED <<shelf, asks, pressed, deeds>>

\* Saved Roles, searches and the resume, kept from elsewhere on the site.
Elsewhere ==
    /\ deeds < MaxDeeds /\ deeds' = deeds + 1
    /\ \/ \E r \in Catalogue : shelf' = [shelf EXCEPT !.saved = SymDiff(@, {r.id})]
       \/ \E v \in Sectors : shelf' = [shelf EXCEPT !.searched = @ \cup {v}]
       \/ \E cv \in Resumes : shelf' = [shelf EXCEPT !.resume = cv, !.correction = NoCorrection]
       \/ shelf.resume # NoResume /\ shelf' = [shelf EXCEPT !.resume = NoResume, !.correction = NoCorrection]
       \/ /\ shelf.resume # NoResume
          /\ \E k \in CorrectedSkills, l \in CorrectedLevels :
               shelf' = [shelf EXCEPT !.correction = [skills |-> k, level |-> l]]
    /\ UNCHANGED <<panel, asks, posts, toast, pressed>>

FeedNext ==
    \/ RankFeed \/ Answer \/ AnswerFails \/ ShowOthers \/ MoreLike \/ DismissRole \/ OpenRole
    \/ Undo \/ ToastFades \/ StoreVerdict \/ Confirmed \/ VerdictFails \/ Elsewhere

----------------------------------------------------------------------------
(* Properties.                                                             *)

\* Paging through an unchanged profile shows every eligible Role exactly once ("without losing
\* rank"): the pages are recomputed from the top at each request and must still fit together.
PagesFitTogether ==
    LET pages == Pages(Ranking(shelf))  eligible == EligibleFor(shelf)
    IN HasEvidence(shelf) => \A r \in Catalogue :
         Cardinality({p \in 1..Len(pages) : r \in Range(pages[p])}) = IF r \in eligible THEN 1 ELSE 0

\* An employer stands twice on a page only when nobody else's Role could have taken the place:
\* every employer of the pages after it is on the page as well.
PagesSpreadEmployers ==
    LET pages == Pages(Ranking(shelf))
        employers == [p \in 1..Len(pages) |-> {r.employer : r \in Range(pages[p])}]
    IN \A p \in 1..Len(pages) :
         Cardinality(employers[p]) < Len(pages[p]) =>
             \A later \in p..Len(pages) : employers[later] \subseteq employers[p]

\* "Never empty while an open candidate clears RESUME_MATCH_FLOOR", and never under it.
MatchesAreNeverEmpty ==
    shelf.resume # NoResume =>
        /\ Fitting(shelf, 15) # {} => ResumeMatches(shelf) # <<>>
        /\ \A r \in Range(ResumeMatches(shelf)) : ResumeFit(Effective(shelf), r) >= 15

\* Asking for more Roles like one never costs a Role of its employer, sector and skill a point,
\* and never earns one for a Role that shares none of them, whatever else is known of the Seeker.
LikesLift ==
    [][\A x \in Liked(shelf)' \ Liked(shelf) :
         LET before == Marks(shelf, Catalogue)  after == Marks(shelf', Catalogue)
         IN HasEvidence(shelf) => \A m \in before, n \in after : m[1] = n[1] =>
              /\ (\A k \in Kinds : m[1][k] = x[k]) => n[2] >= m[2]
              /\ (\A k \in Kinds : m[1][k] # x[k]) => n[2] <= m[2]]_feedVars

\* What the panel shows once it has settled is the page it stands on.
PanelShowsItsPage == (~Loading /\ ~panel.failed) => panel.of = panel.page
\* The panel leads through the Roles that fit: each once, employers spread, what was asked for
\* on the screen, and a liked Role lifting its like.
FeedHoldsTogether ==
    /\ [](PagesFitTogether /\ PagesSpreadEmployers /\ MatchesAreNeverEmpty /\ PanelShowsItsPage)
    /\ LikesLift
=============================================================================
