------------------------------ MODULE SalaryRules ------------------------------
(***************************************************************************)
(* From what a model says a Role pays to the figure that is stored.  The    *)
(* tables and the patterns are what a title and a coordinate find in them:  *)
(* a title carries the ceilings, bands and rules that match it, a           *)
(* coordinate (role, grade, seniority) names cells of the table of one tier *)
(* at an ordinary desk and of one at the front office.                      *)
(***************************************************************************)
EXTENDS Integers, FiniteSets

CONSTANTS
    GlobalMax,          \* GLOBAL_MAX_MONTHLY_HKD
    InternshipMax,      \* INTERNSHIP_MAX_MONTHLY_HKD
    ShorthandBelow,     \* MAGNITUDE_GLITCH_CEILING
    Table,              \* role -> grade -> band
    FrontRoles,         \* roles of the front office's tier
    RowOf,              \* role -> seniority -> grade, of the roles that are grade ladders
    Window,             \* seniority -> the part of a ladder it sits in, in percent
    LadderCap           \* seniority -> the tier's own ceiling

None == 0               \* NULL; no figure is 0
NoBand == <<None, None>>

\* What is a month's pay: a low end that no discount rounds away, a high end with room below.
Payable(b) == /\ b \in Nat \X Nat /\ (b[1] = None \/ b[1] >= 3000) /\ (b[2] = None \/ b[2] >= 6000)
Figures(b) == Payable(b) /\ 0 < b[1] /\ b[1] < b[2]
Ceiling(x) == x \in Nat /\ x >= 6000

ASSUME SalaryAssumption ==
    /\ Ceiling(GlobalMax) /\ GlobalMax % 5000 = 0
    /\ Ceiling(InternshipMax) /\ InternshipMax % 5000 = 0
    /\ ShorthandBelow \in Nat
    /\ \A role \in DOMAIN Table :
           /\ IsFiniteSet(DOMAIN Table[role])
           /\ \A grade \in DOMAIN Table[role] :
                  Figures(Table[role][grade]) /\ Table[role][grade][1] < GlobalMax
    /\ \A seniority \in DOMAIN Window : Window[seniority][1] \in 0..99 /\ Window[seniority][2] \in Nat
    /\ \A seniority \in DOMAIN LadderCap : Ceiling(LadderCap[seniority])

MinOf(a, b) == IF a < b THEN a ELSE b

\* min(x, cap) where either may be absent.
Under(x, cap) == IF x = None \/ cap = None THEN x ELSE MinOf(x, cap)
Low(b) == b[1]
High(b) == b[2]

\* fix_salary_magnitude: 66 is HK$66,000 in shorthand.
FixMagnitude(b) ==
    IF High(b) = None \/ High(b) >= ShorthandBelow THEN b
    ELSE <<Low(b) * 1000, High(b) * 1000>>

----------------------------------------------------------------------------
(* The reviewed rules.  A title carries those that match it, each with its  *)
(* band; a title that names two grades and one that names more find two     *)
(* rules of one name.                                                       *)

SizeRules == {"smaller_bank_title", "mid_sized_bank_department_head", "sun_life_sized_insurer_grade",
              "bea_sized_bank_assistant_manager", "mid_sized_insurer_senior_manager"}
AmbiguousRules == {"ambiguous_two_grade", "ambiguous_multi_grade"}
GroupRules == {"big_four_grade", "bank_ordinary_product_manager"}
EmployerRules == {"jpmorgan_vp", "hsbc_sized_bank_lead_product", "hsbc_sized_bank_spread_products_vp",
              "market_infrastructure_grade", "icbc_sized_bank_product_manager",
              "icbc_sized_bank_market_role", "fwd_sized_insurer_grade"}
OverlayRules == {"employer_salary_overlay"}

\* SalaryRulePriority: how hard the evidence behind a rule is.
Priority(rule) ==
    CASE rule = "ambiguous_two_grade" -> 150
      [] rule \in GroupRules -> 200
      [] rule = "ambiguous_multi_grade" -> 300
      [] rule \in SizeRules -> 400
      [] rule \in EmployerRules -> 500
      [] rule = "dbs_sized_bank_product_role" -> 550
      [] rule = "deutsche_mixed_director_vp" -> 600
      [] rule \in OverlayRules -> 1000

\* The names of the rules of one priority, in the order of the alphabet.
ByName ==
    <<"bank_ordinary_product_manager", "bea_sized_bank_assistant_manager", "big_four_grade",
      "fwd_sized_insurer_grade", "hsbc_sized_bank_lead_product",
      "hsbc_sized_bank_spread_products_vp", "icbc_sized_bank_market_role",
      "icbc_sized_bank_product_manager", "jpmorgan_vp", "market_infrastructure_grade",
      "mid_sized_bank_department_head", "mid_sized_insurer_senior_manager", "smaller_bank_title",
      "sun_life_sized_insurer_grade">>

\* The rule of the highest priority; the last name settles a tie.
Outranks(w, o) ==
    \/ Priority(o.rule) < Priority(w.rule)
    \/ Priority(o.rule) = Priority(w.rule)
       /\ \E i \in DOMAIN ByName : ByName[i] = w.rule /\ \A j \in DOMAIN ByName : ByName[j] = o.rule => j < i
Winner(rules) == {w \in rules : \A o \in rules \ {w} : Outranks(w, o)}

\* The rules that may price an internship are the smaller banks' campus bands.
RulesFor(t) == IF t.intern THEN {r \in t.rules : r.rule = "smaller_bank_title"} ELSE t.rules

----------------------------------------------------------------------------
(* The coordinate.                                                          *)

\* A role's grade, when the table holds it.
CellOf(role, grade) ==
    IF role \in DOMAIN Table THEN IF grade \in DOMAIN Table[role] THEN Table[role][grade]
                                  ELSE NoBand
    ELSE NoBand

\* _role_seniority_band: only a ladder maps a seniority to one of its rows.
MappedRow(role, seniority) ==
    IF role \in DOMAIN RowOf THEN IF seniority \in DOMAIN RowOf[role]
                                  THEN CellOf(role, RowOf[role][seniority]) ELSE NoBand
    ELSE NoBand

\* price_from_role_envelope: the rows of the role, ordered by pay and cut to the part the
\* seniority sits in, unless the ends are more than three times apart.
Ladder(role) == IF role \in DOMAIN Table THEN {Table[role][g] : g \in DOMAIN Table[role]} ELSE {}
Envelope(role, seniority) ==
    LET bands == Ladder(role)
        n == Cardinality(bands)
        before(b) == Cardinality({o \in bands : Low(o) < Low(b) \/ (Low(o) = Low(b) /\ High(o) < High(b))})
        windowed == seniority \in DOMAIN Window /\ n > 1
        start == IF windowed THEN (Window[seniority][1] * n) \div 100 ELSE 0
        upTo == IF windowed THEN (Window[seniority][2] * n + 99) \div 100 ELSE n
        slice == {b \in bands : before(b) >= start /\ (before(b) < upTo \/ before(b) = start)}
        lo == CHOOSE x \in {Low(b) : b \in slice} : \A b \in slice : x <= Low(b)
        hi == CHOOSE x \in {High(b) : b \in slice} : \A b \in slice : x >= High(b)
    IN IF bands = {} THEN NoBand ELSE IF hi > 3 * lo THEN NoBand ELSE <<lo, hi>>

\* normalise_coordinate: a grade in the role's place goes where the table has it.
Normalise(a) ==
    LET owners == {r \in DOMAIN Table : a.role \in DOMAIN Table[r]}
    IN IF a.role \in DOMAIN Table THEN a
       ELSE IF owners # {} THEN [a EXCEPT !.role = CHOOSE r \in owners : TRUE, !.grade = a.role]
       ELSE IF a.grade \in DOMAIN Table THEN [a EXCEPT !.role = a.grade, !.grade = "none"]
       ELSE a

\* What an answer's coordinate finds in the tables.
Found(a) ==
    [known |-> a.role \in DOMAIN Table, front |-> a.role \in FrontRoles,
     ladder |-> IF a.role \in DOMAIN Table /\ a.seniority \in DOMAIN LadderCap
                THEN LadderCap[a.seniority] ELSE None,
     row |-> MappedRow(a.role, a.seniority), cell |-> CellOf(a.role, a.grade),
     envelope |-> Envelope(a.role, a.seniority)]

GradeCap(t, c) == IF c.front THEN None ELSE t.gradeCap

\* The ceilings: the tier's ladder, the role's row, the title's grade (not at a front
\* office desk), the global one, and the internships' after all of them.
Capped(t, c, b) ==
    LET hi == Under(Under(Under(Under(High(b), c.ladder), High(c.row)), GradeCap(t, c)), GlobalMax)
    IN <<Low(b), IF t.intern THEN Under(hi, InternshipMax) ELSE hi>>

\* Mutant of Raised: an internship's figure is raised to its row like any other.
RaisedForAll(t, c, b) ==
    IF c.row # NoBand /\ High(b) # None /\ High(b) < Low(c.row)
    THEN <<Low(c.row), Under(Under(High(c.row), GradeCap(t, c)), GlobalMax)>> ELSE b

\* The floor raise: an estimate below its row becomes the row's, a low end is lifted; the
\* ceilings of the title and the board hold again.
Raised(t, c, b) ==
    IF t.intern \/ c.row = NoBand THEN b
    ELSE LET lifted == IF High(b) # None /\ High(b) < Low(c.row) THEN c.row
                       ELSE IF Low(b) # None /\ Low(b) < Low(c.row) THEN <<Low(c.row), High(b)>>
                       ELSE b
         IN <<Low(lifted), Under(Under(High(lifted), GradeCap(t, c)), GlobalMax)>>

\* price_from_partial_coordinate: the mapped row, else the part of the role's ladder.
Partial(c) == IF c.row # NoBand THEN c.row ELSE c.envelope

\* An exact cell replaces both ends; a partial one fills a blank.
FromCoordinate(t, c, b) ==
    LET band == IF t.intern THEN NoBand ELSE IF c.cell # NoBand THEN c.cell
                ELSE IF b = NoBand THEN Partial(c) ELSE NoBand
        hi == Under(Under(High(band), GradeCap(t, c)), GlobalMax)
    IN IF band = NoBand THEN b ELSE <<MinOf(Low(band), hi), hi>>

\* title_function_band, then title_grade_band away from the front office; a Product Manager
\* is a Director's grade only when the model saw a Director's figure.
TitleBand(t, c, raw) ==
    IF t.intern THEN NoBand
    ELSE IF t.function # NoBand THEN t.function
    ELSE IF c.front \/ (t.productFrom # None /\ High(raw) < t.productFrom) THEN NoBand
    ELSE t.band
WithinGlobal(t, b) ==
    IF t.topGrade THEN b
    ELSE LET hi == Under(High(b), GlobalMax) IN <<Under(Low(b), hi), hi>>

\* A boutique pays 0.7 of it; a reviewed smaller bank 0.85, rounded to 5,000, and not both.
Tenths(x, n) == (x * n) \div 10
RoundTo5000(x) == ((x + 2500) \div 5000) * 5000
Sized(t, b) ==
    IF t.smallBank THEN <<RoundTo5000((Low(b) * 17) \div 20), RoundTo5000((High(b) * 17) \div 20)>>
    ELSE IF t.boutique THEN <<Tenths(Low(b), 7), Tenths(High(b), 7)>>
    ELSE b

\* apply_manager_grade_floor; a floor is its amount and the end to use when all is below it.
WithFloor(floor, b) ==
    IF floor = NoBand THEN b
    ELSE IF High(b) < Low(floor) THEN floor
    ELSE <<IF Low(b) < Low(floor) THEN Low(floor) ELSE Low(b), High(b)>>

\* No single figures: equal or crossed ends are widened downwards.
Widened(b) ==
    IF Low(b) # None /\ High(b) # None /\ Low(b) >= High(b) THEN <<High(b) \div 2, High(b)>> ELSE b

\* clamp_salary, in its order.
Clamp(t, c, raw) ==
    LET fromTable == FromCoordinate(t, c, Raised(t, c, Capped(t, c, raw)))
        titled == TitleBand(t, c, raw)
        sized == Sized(t, IF titled = NoBand THEN fromTable ELSE WithinGlobal(t, titled))
        won == Winner(RulesFor(t))
        ruled == IF won # {} THEN LET w == CHOOSE r \in won : TRUE
                                      hi == Under(High(w.band), GlobalMax)
                                  IN <<Under(Low(w.band), hi), hi>>
                 ELSE WithFloor(IF titled # NoBand \/ t.intern THEN NoBand
                                ELSE IF c.known THEN t.floor ELSE NoBand, sized)
    IN Widened(ruled)

\* salary.finalise: nothing to price from stays nothing.
Finalise(t, c, raw) ==
    IF c.cell = NoBand /\ Partial(c) = NoBand /\ raw = NoBand THEN NoBand
    ELSE Clamp(t, c, FixMagnitude(raw))

\* salary.lowered: the proposal, repaired and lower than what is stored, clamped.  NoBand is
\* "leave it alone".
Lowered(t, c, proposed, stored) ==
    LET fixed == FixMagnitude(proposed)
        whole == IF Low(fixed) = None THEN <<High(fixed) \div 2, High(fixed)>> ELSE fixed
    IN IF High(fixed) = None \/ High(fixed) >= High(stored) THEN NoBand ELSE Clamp(t, c, whole)
=============================================================================
