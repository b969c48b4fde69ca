---------------------------- MODULE MCWeeklyAlerts ----------------------------
(* Small instances for TLC of how Roles reach a Seeker: by the weekly mail     *)
(* (WeeklyAlerts), on the recommendations panel (RoleFeed) and on the          *)
(* promotion rail (WeeklyHighlights).  They share no state, so a behaviour is  *)
(* of one of them (`part`) and the others rest.                                *)
EXTENDS WeeklyAlerts, RoleFeed, WeeklyHighlights, TLC

VARIABLE part

MCInit ==
    /\ part \in {"alerts", "feed", "highlights"}
    /\ Init /\ (part # "alerts" => verified = {})
    /\ FeedInit
    /\ HighlightsInit /\ (part # "highlights" => roles = <<>>)

MCNext ==
    \/ part = "alerts" /\ Next /\ UNCHANGED <<feedVars, highlightVars, part>>
    \/ part = "feed" /\ FeedNext /\ UNCHANGED <<vars, highlightVars, part>>
    \/ part = "highlights" /\ HighlightsNext /\ UNCHANGED <<vars, feedVars, part>>

MCSpec == MCInit /\ [][MCNext]_<<vars, feedVars, highlightVars, part>>

Symmetry == Permutations(Roles) \cup Permutations(Runs)

----------------------------------------------------------------------------
FeedRole(id, employer, sector, skill, level, age) ==
    [id |-> id, employer |-> employer, sector |-> sector, skill |-> skill, level |-> level, age |-> age]

\* Two Roles of one employer on the first page's band, a targeted one, older ones.
MCCatalogue ==
    { FeedRole(1, "a", "x", "p", 2, "new"), FeedRole(2, "a", "x", "q", 3, "new"),
      FeedRole(3, "b", "w", "q", 2, "month"), FeedRole(4, "a", "x", "p", 5, "old"),
      FeedRole(5, "c", "y", "r", 3, "old") }
MCResumes == {[text |-> {"q"}, skills |-> {"q"}, sector |-> "y", level |-> -1]}
MCCorrectedSkills == {{"*"}, {"r"}}
----------------------------------------------------------------------------
(* The promotion rail: a table where the employer's limit bites, one where the *)
(* pay bands and the categories do, and an empty one.                          *)

Candidate(id, employer, category, band, tier, pay) ==
    [id |-> id, employer |-> employer, category |-> category, band |-> band, tier |-> tier, pay |-> pay,
     state |-> "open", fresh |-> TRUE]

MCTables ==
    { <<>>,
      << Candidate(1, "a", "x", "Executive", "mainstream", "monthly"),
         Candidate(2, "a", "x", "Executive", "mainstream", "estimate"),
         Candidate(3, "a", "y", "Senior", "mainstream", "annual"),
         Candidate(4, "b", "x", "Senior", "mainstream", "worded annual"),
         Candidate(5, "b", "x", "Established", "mainstream", "monthly") >>,
      << Candidate(1, "a", "x", "Senior", "mainstream", "annual"),
         Candidate(2, "b", "y", "Senior", "mainstream", "estimate"),
         Candidate(3, "c", "z", "Senior", "mainstream", "estimate"),
         Candidate(4, "c", "w", "Established", "mainstream", "monthly"),
         Candidate(5, "c", "z", "Executive", "boutique", "monthly") >> }

\* The first places of the shortlist, two out of order, one twice.
MCPicks == {<<1, 2, 3>>, <<3, 1>>, <<2, 2>>}
=============================================================================
