------------------------------- MODULE MCNight -------------------------------
(* Small instances for TLC of a night: the phases of the Daily Run (DailyRun)  *)
(* and, inside one of them, the scrape's threads (ScrapeRun).  To the Daily    *)
(* Run a phase is one step, so a behaviour is of one of them (`part`) and the  *)
(* other rests.                                                                *)
EXTENDS MCDailyRun, ScrapeRun

\* Two sources of one company.
Acme(source) == [slug |-> "acme", source |-> source]
MCEntries == {Acme("workday"), Acme("linkedin")}
MCKnown == [e \in Entries |-> IF e = Acme("workday") THEN 4 ELSE 0]
MCPostings == [e \in Entries |-> IF e = Acme("workday") THEN 4 ELSE 1]

VARIABLE part

MCInit ==
    /\ part \in {"phases", "scrape"}
    /\ Init
    /\ ScrapeInit

MCNext ==
    \/ part = "phases" /\ Next /\ UNCHANGED <<scrapeVars, part>>
    \/ part = "scrape" /\ ScrapeNext /\ UNCHANGED <<vars, part>>

MCSpec == MCInit /\ [][MCNext]_<<vars, scrapeVars, part>>
=============================================================================
