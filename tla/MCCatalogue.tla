------------------------------ MODULE MCCatalogue ------------------------------
(* Small instances for TLC of the live catalogue as it is written              *)
(* (CataloguePublication) and as it is read (BoardReads).  The reads take what *)
(* a publication does to them as an action of their own, so a behaviour is of  *)
(* one of them (`part`) and the other rests.                                   *)
EXTENDS MCCataloguePublication, BoardReads

----------------------------------------------------------------------------
(* The board, in its order: two employers, members' tiers, a hidden Role and    *)
(* one whose title says the opposite of what is searched for; or nothing.      *)

Listing(id, firm, tier, priced, day, state, match) ==
    [id |-> id, firm |-> firm, tier |-> tier, priced |-> priced, day |-> day, state |-> state, match |-> match]

MCCatalogues ==
    { <<>>,
      << Listing(5, "b", "social", FALSE, 1, "open", "title"),
         Listing(6, "a", "mainstream", TRUE, 0, "hidden", "title"),
         Listing(4, "b", "social", TRUE, 0, "open", "text"),
         Listing(3, "b", "boutique", TRUE, 1, "open", "opposite"),
         Listing(2, "a", "mainstream", FALSE, 0, "open", "exact"),
         Listing(1, "a", "mainstream", TRUE, 0, "open", "title") >> }

----------------------------------------------------------------------------
VARIABLE part

MCInit ==
    /\ part \in {"publication", "reads"}
    /\ Init
    /\ ReadInit /\ (part # "reads" => table = <<>> /\ reader = "public")

MCNext ==
    \/ part = "publication" /\ Next /\ UNCHANGED <<readVars, part>>
    \/ part = "reads" /\ ReadNext /\ UNCHANGED <<vars, part>>

MCSpec == MCInit /\ [][MCNext]_<<vars, readVars, part>>
=============================================================================
