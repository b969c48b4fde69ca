------------------------------ MODULE MCListings ------------------------------
(* Small instances for TLC of how Listings are read from career sites         *)
(* (BoardPages), told apart and joined when they are of one job (CrossPosting) *)
(* and described (Descriptions), and of the recruiters' posts that become     *)
(* Listings (PostFetching, PostPromotion).  A behaviour is of one of the five *)
(* (`part`) and the others rest.  Promotion starts from pending posts, which  *)
(* is all it shares with the fetching, and promoted posts are Listings        *)
(* without siblings until the next reconciliation.                            *)
EXTENDS MCCrossPosting, PostFetching, PostPromotion, Descriptions, BoardPages

\* Two sources that are asked again when they refuse.
MCSourceOfAd == [j1 |-> "jobsdb", l1 |-> "linkedin"]
MCTries == [jobsdb |-> 2, linkedin |-> 2]

\* A site with no postings, answered.
PagesAtRest ==
    /\ adapter = Workday /\ site = <<>> /\ stuck = FALSE
    /\ progress = "answered" /\ page = 0 /\ pageRows = <<>> /\ got = 0 /\ total = -1
    /\ steady = {} /\ trouble = {} /\ changes = 0

VARIABLE part

ListingsInit ==
    /\ part \in {"pages", "postings", "fetching", "promotion", "describing"}
    /\ IF part = "pages" THEN BoardInit ELSE PagesAtRest
    /\ Init
    /\ FetchInit
    /\ NotesInit /\ (part # "promotion" => \A n \in Notes : ~listing[n].there)
    /\ DescriptionsInit

ListingsNext ==
    \/ part = "pages" /\ BoardNext /\ UNCHANGED <<vars, fetchVars, noteVars, descriptionVars, part>>
    \/ part = "postings" /\ Next /\ UNCHANGED <<boardVars, fetchVars, noteVars, descriptionVars, part>>
    \/ part = "fetching" /\ FetchNext /\ UNCHANGED <<vars, boardVars, noteVars, descriptionVars, part>>
    \/ part = "promotion" /\ NotesNext /\ UNCHANGED <<vars, boardVars, fetchVars, descriptionVars, part>>
    \/ part = "describing" /\ DescriptionsNext /\ UNCHANGED <<vars, boardVars, fetchVars, noteVars, part>>

ListingsSpec ==
    ListingsInit /\ [][ListingsNext]_<<vars, boardVars, fetchVars, noteVars, descriptionVars, part>>
=============================================================================
