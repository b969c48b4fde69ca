------------------------------- MODULE Estimates -------------------------------
(***************************************************************************)
(* The salary of a Role through everything that writes it: the enrichment,  *)
(* the audit that may lower it, the two nightly repairs, an operator's      *)
(* replay of the reviewed rules and an admin's correction.  Each reads a    *)
(* row and writes it in one transaction, one after another over the nights. *)
(***************************************************************************)
EXTENDS SalaryRules

CONSTANTS
    Priced,         \* Roles that can be given a salary
    Titles,         \* what a title and an employer match in the tables
    ModelAnswers,        \* what the model may answer: role, grade and seniority
    Raws            \* the figures a model or a judge may write

\* A title nothing in the tables matches.
Unremarkable == [intern |-> FALSE, gradeCap |-> None, band |-> NoBand, topGrade |-> FALSE,
                 productFrom |-> None, function |-> NoBand, boutique |-> FALSE,
                 smallBank |-> FALSE, rules |-> {}, floor |-> NoBand]

ASSUME EstimatesAssumption ==
    /\ \A t \in Titles :
           /\ {t.intern, t.topGrade, t.boutique, t.smallBank} \subseteq BOOLEAN
           /\ t.gradeCap = None \/ Ceiling(t.gradeCap)
           /\ t.productFrom \in Nat
           /\ \A b \in {t.band, t.function, t.floor} \cup {w.band : w \in t.rules} : b = NoBand \/ Figures(b)
           /\ \A w \in t.rules : w.band # NoBand
           /\ t.floor[2] <= GlobalMax
    /\ \A b \in Raws : b \in Nat \X Nat /\ Payable(FixMagnitude(b))
    /\ \A a \in ModelAnswers : a = [role |-> a.role, grade |-> a.grade, seniority |-> a.seniority]

VARIABLES
    title,          \* jobs: title, employer and source of each Role
    row,            \* job_enrichments: the salary columns; `own` is history, the exact cell
                    \* the figure came from
    last            \* history: the writer of the last step, and for which Roles

estimateVars == <<title, row, last>>

NoAnswer == [role |-> "none", grade |-> "none", seniority |-> "none"]
Blank == [there |-> FALSE, band |-> NoBand, at |-> NoAnswer, sure |-> FALSE,
          stated |-> FALSE, byHand |-> FALSE, own |-> NoBand]

EstimatesInit ==
    /\ title \in [Priced -> Titles]
    /\ row = [r \in Priced |-> Blank]
    /\ last = [by |-> "nobody", roles |-> {}]

Wrote(who, roles) == last' = [by |-> who, roles |-> roles]

\* The insert or update of an answer.  Ends, confidence and coordinate move as one block,
\* and only when the new low end is there; the seniority and the figure the posting states
\* are the answer's.
Upserted(old, band, a, sure, stated) ==
    LET kept == old.there /\ Low(band) = None
    IN [there |-> TRUE, stated |-> stated, byHand |-> FALSE, 
        own |-> IF kept THEN old.own ELSE Found(a).cell,
        band |-> IF kept THEN old.band ELSE band,
        at |-> IF kept THEN [old.at EXCEPT !.seniority = a.seniority] ELSE a,
        sure |-> IF kept THEN old.sure ELSE sure]

\* One row of enrichment.run: the coordinate put right, priced and stored.
Enrich(r) ==
    /\ ~row[r].byHand
    /\ \E answer \in ModelAnswers, raw \in Raws, sure \in BOOLEAN :
           LET a == Normalise(answer)
           IN row' = [row EXCEPT ![r] =
                  Upserted(@, Finalise(title[r], Found(a), raw), a, sure, sure /\ raw # NoBand)]
    /\ Wrote("enrichment", {r})
    /\ UNCHANGED title

\* run_audit's "too_high": only the two ends are written.
AuditEstimate(r) ==
    /\ row[r].there /\ ~row[r].byHand /\ High(row[r].band) # None
    /\ Winner(RulesFor(title[r])) = {}
    /\ \E proposed \in Raws :
           LET band == Lowered(title[r], Found(row[r].at), proposed, row[r].band)
           IN /\ band # NoBand
              /\ row' = [row EXCEPT ![r].band = band, ![r].own = NoBand]
    /\ Wrote("audit", {r})
    /\ UNCHANGED title

\* An employer's figure and an admin's correction outrank every repair.
Protected(r) == row[r].byHand \/ row[r].stated \/ row[r].sure

\* Brought under a ceiling; a low end above it is widened.
CutTo(b, cap) ==
    IF High(b) = None \/ High(b) <= cap THEN b
    ELSE <<IF Low(b) = None \/ Low(b) >= cap THEN cap \div 2 ELSE Low(b), cap>>

Rewrite(who, roles, Band(_)) ==
    /\ roles # {}
    /\ row' = [r \in Priced |-> IF r \in roles THEN [row[r] EXCEPT !.band = Band(r), !.own = NoBand]
                              ELSE row[r]]
    /\ Wrote(who, roles)
    /\ UNCHANGED title

\* repair_internship_salaries: the title and the stored seniority agree.
RepairInternships ==
    LET cut(r) == CutTo(row[r].band, InternshipMax)
    IN Rewrite("internships", {r \in Priced : /\ title[r].intern /\ row[r].at.seniority \in {"none", "junior"}
                                              /\ ~Protected(r) /\ cut(r) # row[r].band}, cut)

\* repair_grade_ceiling_salaries.
RepairCeilings ==
    LET front(r) == Found(row[r].at).front
        cut(r) == CutTo(row[r].band, title[r].gradeCap)
    IN Rewrite("ceilings", {r \in Priced : /\ ~front(r) /\ title[r].gradeCap # None
                                           /\ ~Protected(r) /\ cut(r) # row[r].band}, cut)

Replayable(r) == /\ row[r].there /\ High(row[r].band) # None /\ ~Protected(r)
                 /\ Winner(RulesFor(title[r])) # {}
Replayed(r) == Clamp(title[r], Found(row[r].at), row[r].band)

\* replay_salary_rules: the Roles a reviewed rule prices outright.
Replay == Rewrite("replay", {r \in Priced : Replayable(r) /\ Replayed(r) # row[r].band}, Replayed)

\* job_edit: an admin writes a figure, and the row is the admin's.
HandEdit(r) ==
    /\ row[r].there
    /\ \E b \in Raws \ {NoBand} :
           row' = [row EXCEPT ![r].band = b, ![r].byHand = TRUE, ![r].own = NoBand]
    /\ Wrote("admin", {r})
    /\ UNCHANGED title

EstimatesNext ==
    \/ \E r \in Priced : Enrich(r) \/ AuditEstimate(r) \/ HandEdit(r)
    \/ RepairInternships \/ RepairCeilings \/ Replay

EstimatesSpec == EstimatesInit /\ [][EstimatesNext]_estimateVars

----------------------------------------------------------------------------
\* A run that cannot price a Role leaves the estimate that is there, whatever wrote it, and so does
\* every other writer but an admin
\* (enrichment.py, the CASE block of the upsert; docs/adr/0036).
EstimatesAreNeverLost ==
    [][\A r \in Priced : Low(row[r].band) # None =>
           row'[r].byHand \/ Low(row'[r].band) # None]_estimateVars

\* An internship never shows more than the ceiling, whichever table, rule or discount its
\* figure came through, unless its bank's campus band was reviewed or a person wrote it
\* (salary_clamp.py, the internship ceiling and every guard after it).
InternshipsStayUnderTheCeiling ==
    \A r \in Priced : title[r].intern /\ RulesFor(title[r]) = {} /\ ~row[r].byHand
        => High(row[r].band) <= InternshipMax

\* What the pipeline stores is a range: the low end below the high one, through every
\* ceiling, rounding and discount (salary_clamp.py, the final safety net).
FiguresAreRanges ==
    \A r \in Priced : LET b == row[r].band
                      IN row[r].byHand \/ Low(b) = None \/ High(b) = None \/ Low(b) < High(b)

\* A stored coordinate and the figure it produced describe each other: what came from an
\* exact cell is that cell's band up to the ceiling, also when later answers could not be priced
\* (enrichment.py, normalise_coordinate before pricing and the block of the upsert).
FiguresMatchTheirCoordinates ==
    \A r \in Priced :
        row[r].own # NoBand => /\ Found(row[r].at).cell = row[r].own
                               /\ title[r] = Unremarkable =>
                                  row[r].band = <<Low(row[r].own), Under(High(row[r].own), GlobalMax)>>

\* Nothing but a grade named for it passes the board's ceiling.
OnlyTopGradesPassTheCeiling ==
    \A r \in Priced : High(row[r].band) > GlobalMax => title[r].topGrade \/ row[r].byHand

\* The nightly repairs lower figures, and neither they nor a replay touch what an employer
\* stated or an admin corrected (salary_repair.py: idempotent and down-only).
RepairsOnlyLower ==
    [][\A r \in last'.roles :
           /\ last'.by \in {"internships", "ceilings", "replay"} =>
                  ~row[r].byHand /\ ~row[r].stated /\ ~row[r].sure
           /\ last'.by \in {"internships", "ceilings"} =>
                  /\ High(row'[r].band) < High(row[r].band)
                  /\ Low(row[r].band) # None => Low(row'[r].band) <= Low(row[r].band)]_estimateVars

\* A repair or a replay run again changes nothing: no figure is discounted or raised twice
\* (salary_repair.py, module docstring and replay_salary_rules).
RepairedOnceIsRepaired ==
    \A r \in last.roles :
        /\ last.by = "internships" => High(row[r].band) <= InternshipMax
        /\ last.by = "ceilings" => High(row[r].band) <= title[r].gradeCap
        /\ last.by = "replay" => Replayed(r) = row[r].band
\* A stored figure stays one the board may show, through every writer in every order.
FiguresAreSound ==
    /\ [](/\ FiguresAreRanges /\ InternshipsStayUnderTheCeiling /\ OnlyTopGradesPassTheCeiling
          /\ FiguresMatchTheirCoordinates /\ RepairedOnceIsRepaired)
    /\ EstimatesAreNeverLost /\ RepairsOnlyLower
=============================================================================
