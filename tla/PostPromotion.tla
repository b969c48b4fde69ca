---------------------------- MODULE PostPromotion ----------------------------
(***************************************************************************)
(* From a Recruiter Post to a Listing on the board, and what is written to  *)
(* the Listing afterwards.  A promotion run classifies the pending posts    *)
(* one by one, marks each as it goes and stores all Listings at its end.    *)
(* Emails are harvested and pushed into Listings, a ghost check compares    *)
(* them with the board, aged ones are closed, and a repair takes back       *)
(* employers that were no names.  Each is a process of its own that reads   *)
(* first and writes later; the signals of a Listing are one JSON text that  *)
(* a writer replaces whole.                                                 *)
(***************************************************************************)
EXTENDS Naturals

CONSTANTS
    Notes,          \* posts, of one recruiter
    Workers,        \* processes at work at the same time
    MaxJobs         \* bound: jobs begun

ASSUME PromotionAssumption == "none" \notin Notes

VARIABLES
    row,            \* linkedin_posts: extraction_status and extraction_result_json
    listing,        \* jobs: the Listing of each post
    email,          \* recruiter_fetch_state.email of the posts' recruiter
    worker,
    begun,          \* how many jobs were begun (bound)
    dropped,        \* history: posts whose Listing died with its run
    swept,          \* history: emails were pushed into Listings
    repaired,       \* history: a repair ran through
    stale           \* history: Listings whose signals were written from an older reading

noteVars == <<row, listing, email, worker, begun, dropped, swept, repaired, stale>>

NoListing == [there |-> FALSE, active |-> FALSE, company |-> "none",
              email |-> FALSE, ghost |-> FALSE]
Unread == [n \in Notes |-> [there |-> FALSE, email |-> FALSE, ghost |-> FALSE]]
Free == [job |-> "none", todo |-> {}, at |-> "none", kept |-> {}, email |-> FALSE, seen |-> Unread]

\* What the extractor can say of a post.  Of a mandate it names the employer, says
\* there is none, or claims a name and gives a piece of the text ("prose").
Mandates == {"named", "confidential", "prose"}
Results == Mandates \cup {"no title"}

\* Promoted before the rule on names existed.
OldListing == [there |-> TRUE, active |-> TRUE, company |-> "prose",
               email |-> FALSE, ghost |-> FALSE]

NotesInit ==
    /\ \E old \in SUBSET Notes :
           /\ row = [n \in Notes |-> IF n \in old THEN [status |-> "promoted", result |-> "prose"]
                                     ELSE [status |-> "pending", result |-> "none"]]
           /\ listing = [n \in Notes |-> IF n \in old THEN OldListing ELSE NoListing]
    /\ email = FALSE
    /\ worker = [w \in Workers |-> Free] /\ begun = 0
    /\ dropped = {} /\ swept = FALSE /\ repaired = FALSE /\ stale = {}

\* What a writer of signals reads first.
Signals == [n \in Notes |-> [there |-> listing[n].there, email |-> listing[n].email,
                             ghost |-> listing[n].ghost]]
Start(w, job, todo) ==
    /\ worker[w] = Free /\ todo # {}
    /\ begun < MaxJobs /\ begun' = begun + 1
    /\ worker' = [worker EXCEPT ![w] = [Free EXCEPT !.job = job, !.todo = todo,
           !.email = email /\ job = "promotion",
           !.seen = IF job = "ghosts" THEN Signals ELSE @]]
Finish(w) == worker' = [worker EXCEPT ![w] = Free] /\ UNCHANGED begun
There == {n \in Notes : listing[n].there}

----------------------------------------------------------------------------
(* run_promotion.                                                          *)

\* The pending rows and the recruiters' emails, read once.
FetchPending(w) ==
    /\ Start(w, "promotion", {n \in Notes : row[n].status = "pending"})
    /\ UNCHANGED <<row, listing, email, dropped, swept, repaired, stale>>

PassesGate(result) == result \in Mandates

\* _build_job: a hint that does not look like a name is no name.
CompanyOf(result) == IF result = "named" THEN "named" ELSE "confidential"

\* extract_post and _store_extraction_result.  A post without text is rejected at once; a
\* failed call stores that it failed, an exception nothing, and the post stays pending.
Extract(w) ==
    /\ worker[w].job = "promotion" /\ worker[w].at = "none"
    /\ \E n \in worker[w].todo :
           \/ \E result \in Results :
                  /\ row' = [row EXCEPT ![n].result = result]
                  /\ worker' = [worker EXCEPT ![w].todo = @ \ {n}, ![w].at = n,
                         ![w].kept = IF PassesGate(result) THEN @ \cup {<<n, CompanyOf(result)>>} ELSE @]
           \/ /\ \/ row' = [row EXCEPT ![n].status = "rejected"]
                 \/ row' = [row EXCEPT ![n].result = "none"]
                 \/ UNCHANGED row
              /\ worker' = [worker EXCEPT ![w].todo = @ \ {n}]
    /\ UNCHANGED <<begun, listing, email, dropped, swept, repaired, stale>>

Holds(w, n) == \E k \in worker[w].kept : k[1] = n

\* _set_status, a commit of its own; when it fails the run goes on and keeps the Listing.
SetStatus(w) ==
    /\ worker[w].job = "promotion" /\ worker[w].at # "none"
    /\ \/ row' = [row EXCEPT ![worker[w].at].status =
                      IF Holds(w, worker[w].at) THEN "promoted" ELSE "rejected"]
       \/ UNCHANGED row
    /\ worker' = [worker EXCEPT ![w].at = "none"]
    /\ UNCHANGED <<begun, listing, email, dropped, swept, repaired, stale>>

\* Mutant of AuthFails: the run is left at once.
AuthRaises(w) ==
    /\ worker[w].job = "promotion" /\ worker[w].at = "none" /\ worker[w].todo # {}
    /\ Finish(w)
    /\ UNCHANGED <<row, listing, email, dropped, swept, repaired, stale>>

\* ExtractorAuthError: the other posts stay pending, what was promoted is still stored.
AuthFails(w) ==
    /\ worker[w].job = "promotion" /\ worker[w].at = "none" /\ worker[w].todo # {}
    /\ worker' = [worker EXCEPT ![w].todo = {}]
    /\ UNCHANGED <<begun, row, listing, email, dropped, swept, repaired, stale>>

\* The upsert: a Listing that exists keeps its company, opens again and takes new signals.
UpsertedListing(old, company, known) ==
    [there |-> TRUE, active |-> TRUE, email |-> known, ghost |-> FALSE,
     company |-> IF old.there THEN old.company ELSE company]

StoreListings(w) ==
    /\ worker[w].job = "promotion" /\ worker[w].at = "none" /\ worker[w].todo = {}
    /\ LET kept == worker[w].kept
           company(n) == CHOOSE c \in Results : <<n, c>> \in kept
       IN /\ listing' = [n \in Notes |->
                 IF Holds(w, n) THEN UpsertedListing(listing[n], company(n), worker[w].email)
                 ELSE listing[n]]
          /\ stale' = stale \cup {n \in Notes :
                 Holds(w, n) /\ (listing[n].ghost \/ (email /\ ~worker[w].email))}
          /\ dropped' = {n \in dropped : ~Holds(w, n)}
    /\ Finish(w)
    /\ UNCHANGED <<row, email, swept, repaired>>

\* The process dies: what was marked and not stored is never looked at again.
Die(w) ==
    /\ worker[w] # Free
    /\ dropped' = dropped \cup
           {n \in Notes : Holds(w, n) /\ worker[w].at # n /\ ~listing[n].there}
    /\ Finish(w)
    /\ UNCHANGED <<row, listing, email, swept, repaired, stale>>

----------------------------------------------------------------------------
(* Signals: the harvested email and the ghost check.                       *)

\* record_email, and then the rows to push it into.
HarvestEmail(w) ==
    /\ email' = TRUE
    /\ worker[w] = Free /\ begun < MaxJobs
    /\ begun' = begun + 1
    /\ worker' = [worker EXCEPT ![w] = [Free EXCEPT !.job = "backfill", !.seen = Signals]]
    /\ UNCHANGED <<row, listing, dropped, swept, repaired, stale>>

BackfillRows(seen) == {n \in Notes : seen[n].there /\ ~seen[n].email}

WithEmail(signals) == [signals EXCEPT !.email = TRUE]

\* A writer puts back the signals it has read, with its own among them.
Resignal(n, read) == [listing[n] EXCEPT !.email = read.email, !.ghost = read.ghost]

BackfillPromoted(w) ==
    /\ worker[w].job = "backfill"
    /\ LET seen == worker[w].seen  rows == BackfillRows(seen) IN
       /\ listing' = [n \in Notes |->
              IF n \in rows THEN Resignal(n, WithEmail(seen[n])) ELSE listing[n]]
       /\ stale' = stale \cup {n \in rows : listing[n].ghost /\ ~seen[n].ghost}
                   \cup {n \in There : ~seen[n].there /\ ~listing[n].email}
    /\ swept' = TRUE
    /\ Finish(w)
    /\ UNCHANGED <<row, email, dropped, repaired>>

\* find_candidates and the open Listings; the model is asked about each after that.
ReadForGhosts(w) ==
    /\ Start(w, "ghosts", {n \in Notes : listing[n].active})
    /\ UNCHANGED <<row, listing, email, dropped, swept, repaired, stale>>

\* A confident match within the candidates marks the Listing, in one transaction.
FlagGhosts(w) ==
    /\ worker[w].job = "ghosts"
    /\ \E matched \in SUBSET worker[w].todo :
           LET seen == worker[w].seen  rows == {n \in matched : ~seen[n].ghost} IN
           /\ listing' = [n \in Notes |->
                  IF n \in rows THEN Resignal(n, [seen[n] EXCEPT !.ghost = TRUE]) ELSE listing[n]]
           /\ stale' = stale \cup {n \in rows : listing[n].email /\ ~seen[n].email}
    /\ Finish(w)
    /\ UNCHANGED <<row, email, dropped, swept, repaired>>

----------------------------------------------------------------------------
(* Expiry and the repair of employers' names.                              *)

\* Which open Listings are older than max_age_days is an input.
SelectAged(w) ==
    /\ \E aged \in SUBSET {n \in Notes : listing[n].active} : Start(w, "expiry", aged)
    /\ UNCHANGED <<row, listing, email, dropped, swept, repaired, stale>>

DeactivateAged(w) ==
    /\ worker[w].job = "expiry"
    /\ listing' = [n \in Notes |->
           IF n \in worker[w].todo THEN [listing[n] EXCEPT !.active = FALSE] ELSE listing[n]]
    /\ Finish(w)
    /\ UNCHANGED <<row, email, dropped, swept, repaired, stale>>

\* Promoted rows that have a Listing, by the result stored for them.
SelectMisnamed(w) ==
    /\ Start(w, "repair", {n \in Notes : /\ row[n].status = "promoted" /\ row[n].result = "prose"
                                         /\ listing[n].there /\ listing[n].company # "confidential"})
    /\ UNCHANGED <<row, listing, email, dropped, swept, repaired, stale>>

Rename(w) ==
    /\ worker[w].job = "repair"
    /\ listing' = [n \in Notes |->
           IF n \in worker[w].todo THEN [listing[n] EXCEPT !.company = "confidential"] ELSE listing[n]]
    /\ repaired' = TRUE
    /\ Finish(w)
    /\ UNCHANGED <<row, email, dropped, swept, stale>>

NotesNext == \E w \in Workers :
    \/ FetchPending(w) \/ Extract(w) \/ SetStatus(w) \/ AuthFails(w) \/ StoreListings(w)
    \/ HarvestEmail(w) \/ BackfillPromoted(w) \/ ReadForGhosts(w) \/ FlagGhosts(w)
    \/ SelectAged(w) \/ DeactivateAged(w) \/ SelectMisnamed(w) \/ Rename(w)
    \/ Die(w)

NotesSpec == NotesInit /\ [][NotesNext]_noteVars

----------------------------------------------------------------------------
(* Properties.                                                             *)

Held(n) == \E w \in Workers : Holds(w, n)

\* A post marked as promoted is on the board, or on its way in a run, whatever ends the
\* run early, unless the run itself died (run_promotion stores the Listings at its end).
PromotedPostsAreListed ==
    \A n \in Notes :
        row[n].status = "promoted" => listing[n].there \/ Held(n) \/ n \in dropped

\* Once a repair has run through, no Listing carries a piece of a post for an employer,
\* also when a promotion was under way beside it.
NoProseForAName == repaired => \A n \in Notes : listing[n].company # "prose"

\* Once a harvested email has been pushed out, each Listing of the recruiter has it,
\* closed ones too, except where a run wrote signals it had read before.
EmailsReachTheListings == swept => \A n \in There \ stale : listing[n].email

\* A match once found stays on the Listing, except where a run wrote older signals back.
MatchesAreKept ==
    [][\A n \in Notes : listing[n].ghost => listing'[n].ghost \/ n \in stale']_noteVars
\* A promoted post has its Listing, and the Listing keeps what later jobs found out about it.
PromotionsAreKept ==
    /\ [](PromotedPostsAreListed /\ NoProseForAName /\ EmailsReachTheListings)
    /\ MatchesAreKept
=============================================================================
