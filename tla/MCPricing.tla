------------------------------- MODULE MCPricing -------------------------------
(* Small instances of ModelCalls, EnrichmentQueue and Estimates for TLC.  A     *)
(* behaviour is of one of them (`part`) and the others rest; part = "none"     *)
(* where all three do.                                                         *)
EXTENDS ModelCalls, EnrichmentQueue, Estimates, TLC

VARIABLE part

pricingVars == <<callVars, queueVars, estimateVars, part>>

PricingStarts(parts) ==
    /\ part \in parts
    /\ CallsInit /\ (part # "calls" => waiting = {})
    /\ QueueInit /\ (part # "queue" => described = [r \in Listed |-> FALSE])
    /\ EstimatesInit /\ (part # "estimates" => \A r \in Priced : title[r] = Unremarkable)

PricingInit == PricingStarts({"calls", "queue", "estimates"})
PricingAtRest == PricingStarts({"none"})

PricingNext ==
    \/ part = "calls" /\ CallsNext /\ UNCHANGED <<queueVars, estimateVars, part>>
    \/ part = "queue" /\ QueueNext /\ UNCHANGED <<callVars, estimateVars, part>>
    \/ part = "estimates" /\ EstimatesNext /\ UNCHANGED <<callVars, queueVars, part>>

----------------------------------------------------------------------------
(* What titles and employers match in the tables.                           *)

Rule(name, lo, hi) == [rule |-> name, band |-> <<lo, hi>>]
Internship == [Unremarkable EXCEPT !.intern = TRUE]
BankVP == [Unremarkable EXCEPT !.gradeCap = 80000, !.band = <<60000, 80000>>]
ReviewedVP == [BankVP EXCEPT !.rules = {Rule("hsbc_sized_bank_lead_product", 84000, 120000), Rule("ambiguous_two_grade", 50000, 100000),
                                         Rule("hsbc_sized_bank_spread_products_vp", 90000, 130000)}]

MCTitles ==
  { Unremarkable, Internship, [Internship EXCEPT !.boutique = TRUE],
    [Internship EXCEPT !.smallBank = TRUE, !.rules = {Rule("smaller_bank_title", 16000, 20000)}],
    BankVP, ReviewedVP,
    [Unremarkable EXCEPT !.gradeCap = 200000, !.band = <<180000, 250000>>, !.topGrade = TRUE],
    [Unremarkable EXCEPT !.floor = <<40000, 50000>>, !.boutique = TRUE],
    [Unremarkable EXCEPT !.gradeCap = 70000, !.smallBank = TRUE, !.function = <<30000, 40000>>],
    [Unremarkable EXCEPT !.band = <<100000, 150000>>, !.productFrom = 120000] }

(* An excerpt of the anchor table, with its ladder.                         *)

MCTable == [credit |-> [junior |-> <<24000, 40000>>, mid |-> <<40000, 70000>>, head |-> <<90000, 160000>>],
            security |-> [engineer |-> <<44000, 66000>>, lead |-> <<60000, 84000>>],
            trading |-> [VP |-> <<100000, 166000>>, MD |-> <<150000, 250000>>]]
MCRowOf == [credit |-> [junior |-> "junior", mid |-> "mid"]]
MCWindow == [junior |-> <<0, 40>>, mid |-> <<20, 65>>, senior |-> <<50, 90>>]
MCLadderCap == [mid |-> 100000]

(* What a model may answer, in its right columns and in the wrong ones.     *)

Ans(role, grade, seniority) == [role |-> role, grade |-> grade, seniority |-> seniority]
MCAnswers ==
  { NoAnswer, Ans("credit", "none", "mid"), Ans("credit", "none", "none"), Ans("credit", "head", "junior"),
    Ans("engineer", "none", "mid"), Ans("security", "none", "senior"), Ans("lead", "security", "none"),
    Ans("none", "security", "junior"), Ans("trading", "VP", "mid"), Ans("trading", "MD", "lead"), Ans("desk", "boss", "mid") }
MCRaws == {NoBand, <<66, 90>>, <<30000, 36000>>, <<44000, 50000>>, <<None, 60000>>, <<150000, 260000>>}
=============================================================================
