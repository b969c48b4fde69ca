------------------------------- MODULE MCSeekers -------------------------------
(* Small instances for TLC of what the service keeps of a Seeker: the account  *)
(* and its sessions (AccountRequests), the records that hang on it             *)
(* (SeekerRecords) and the Saved Roles of a browser (SavedRoles).  They share  *)
(* no state, so a behaviour is of one of them (`part`) and the others rest.    *)
EXTENDS AccountRequests, SeekerRecords, SavedRoles, TLC

VARIABLE part

\* At first at most one Role is saved, in the browser, the account or both.
AtMostOneSaved == Cardinality(local \cup accountRoles) <= 1

MCInit ==
    /\ part \in {"accounts", "records", "saved"}
    /\ AccountsInit /\ (part # "accounts" => realm = "seeker" /\ \A i \in Ids : ~Open(i))
    /\ Init /\ (part # "records" => shelf = "resume")
    /\ SavedInit /\ AtMostOneSaved /\ (part # "saved" => local = {} /\ accountRoles = {})

MCNext ==
    \/ part = "accounts" /\ AccountsNext /\ UNCHANGED <<vars, savedVars, part>>
    \/ part = "records" /\ Next /\ UNCHANGED <<accountVars, savedVars, part>>
    \/ part = "saved" /\ SavedNext /\ UNCHANGED <<accountVars, vars, part>>

MCSpec == MCInit /\ [][MCNext]_<<accountVars, vars, savedVars, part>>

\* Tabs are the Threads and Bookmarks the Links: one set of permutations serves both.
Symmetry == Permutations(Threads) \cup Permutations(Ids) \cup Permutations(Links)
            \cup Permutations(Sessions)
=============================================================================
