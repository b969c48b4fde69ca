---------------------------- MODULE MCCrossPosting ----------------------------
(* CrossPosting for TLC: which copies exist, under which slugs and names. *)
EXTENDS CrossPosting, TLC
CONSTANTS a, b, c, d, t1, t2, x1, x2

\* Three copies of one employer's Role under two slugs.
SourceOfTwoSlugs == a :> "jobsdb" @@ b :> "efinancialcareers" @@ c :> "linkedin_posts"
SlugOfTwoSlugs == a :> "sA" @@ b :> "sA" @@ c :> "sB"
NameOfTwoSlugs == a :> "n" @@ b :> "n" @@ c :> "n"

\* The same, and under one of the slugs a Role of another employer, whose name is
\* too short to be trusted.
SourceOfTwoEmployers == SourceOfTwoSlugs @@ d :> "jobsdb"
SlugOfTwoEmployers == SlugOfTwoSlugs @@ d :> "sA"
NameOfTwoEmployers == NameOfTwoSlugs @@ d :> None

Alike == {<<t, t>> : t \in Titles}
SymIds == Permutations(Ids)
SymTitles == SymIds \cup Permutations(Titles)
=============================================================================
