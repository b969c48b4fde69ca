------------------------------ MODULE MCProgress ------------------------------
(* Small instances for TLC of what must come to an end: a publication          *)
(* (CataloguePublication), a scrape (ScrapeRun), a migration (Migrations) and  *)
(* what a model is paid for (MCPricing).  A behaviour is of one of them        *)
(* (`area`).  The others rest in a state in which nothing of theirs is under   *)
(* way, so that the fairness they are given asks for nothing there.            *)
EXTENDS MCCataloguePublication, ScrapeRun, Migrations, MCPricing

VARIABLE area

\* Two sources of one company.
Acme(name) == [slug |-> "acme", source |-> name]
MCEntries == {Acme("workday"), Acme("linkedin")}
MCKnown == [e \in Entries |-> IF e = Acme("workday") THEN 5 ELSE 0]
MCPostings == [e \in Entries |-> IF e = Acme("workday") THEN 5 ELSE 1]

\* New databases, databases an earlier version migrated, with its ledger or from
\* before there was one, and a migrated one.
MigratedDatabase == [phase |-> 43, ledger |-> TRUE]
MCStarts == {[phase |-> k, ledger |-> TRUE] : k \in {9, 26, 34, 38}}
            \cup {[phase |-> 40, ledger |-> FALSE], MigratedDatabase}
Listing(active, dated, tech) == [active |-> active, dated |-> dated, tech |-> tech]
MCRows == {Listing(TRUE, FALSE, FALSE), Listing(FALSE, TRUE, TRUE)}

ProgressInit ==
    /\ area \in {"publication", "scrape", "migrations", "pricing"}
    /\ Init
    /\ ScrapeInit
    /\ MigrationsInit /\ (area = "migrations" <=> began # MigratedDatabase)
    /\ IF area = "pricing" THEN PricingInit ELSE PricingAtRest

ProgressNext ==
    \/ /\ area = "publication" /\ Next
       /\ UNCHANGED <<scrapeVars, migrationVars, pricingVars, area>>
    \/ /\ area = "scrape" /\ ScrapeNext
       /\ UNCHANGED <<vars, migrationVars, pricingVars, area>>
    \/ /\ area = "migrations" /\ MigrationsNext
       /\ UNCHANGED <<vars, scrapeVars, pricingVars, area>>
    \/ /\ area = "pricing" /\ PricingNext
       /\ UNCHANGED <<vars, scrapeVars, migrationVars, area>>

ProgressSpec ==
    /\ ProgressInit
    /\ [][ProgressNext]_<<vars, scrapeVars, migrationVars, pricingVars, area>>
    /\ RequestsProceed /\ Scheduled /\ AdaptersEnd
    /\ MigrationsFairness /\ CallsFairness
=============================================================================
