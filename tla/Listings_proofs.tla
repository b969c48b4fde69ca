--------------------------- MODULE Listings_proofs ----------------------------
(* What the jobs beside the scrapes promise of the Listings they describe, fetch*)
(* and promote, proved for every set of Listings, recruiters, posts and runs, and*)
(* for every page, cap, interval, batch size and number of tries.            *)
EXTENDS Descriptions, PostPromotion, PostFetching, CrossPosting, FiniteSetTheorems, TLAPS

-----------------------------------------------------------------------------
(* Descriptions fetched (Descriptions).                                    *)

Came == {"no", "text", "both", "name", "nothing", "skipped"}
Companies == {"none", "card", "advertiser"}
Process == [job: {"none", "describe", "repair"}, todo: SUBSET Ads, batch: SUBSET Ads,
            came: [Ads -> Came], tries: [Ads -> Nat], read: [Ads -> Companies]]
Listed == [state: {"absent", "open", "closed"}, described: BOOLEAN, company: Companies]

\* What came is of the batch at work, a batch is of stored Listings and no larger than
\* its size.
DescriptionsInv ==
    /\ ad \in [Ads -> Listed] /\ fetcher \in [Fetchers -> Process]
    /\ \A a \in Ads : ad[a].state = "absent" => ad[a].company = "none"
    /\ \A x \in Fetchers :
         /\ Cardinality(fetcher[x].batch) <= WriteEvery
         /\ \A a \in Ads : fetcher[x].came[a] # "no" => a \in fetcher[x].batch
         /\ \A a \in fetcher[x].todo \cup fetcher[x].batch : ad[a].state # "absent"

LEMMA OffIsAProcess ==
    /\ Off \in Process /\ Cardinality(Off.batch) <= WriteEvery /\ \A a \in Ads : Off.came[a] = "no"
    /\ Off.todo = {} /\ Off.batch = {} /\ Off.came = [a \in Ads |-> "no"]
  BY FS_EmptySet, DescriptionsAssumption DEF Off, Process, Came, Companies

\* One process changes, into one that is sound.
LEMMA OneFetcher ==
    ASSUME DescriptionsInv, NEW x \in Fetchers, ad' = ad,
           NEW p \in Process, fetcher' = [fetcher EXCEPT ![x] = p],
           Cardinality(p.batch) <= WriteEvery, \A a \in Ads : p.came[a] # "no" => a \in p.batch,
           \A a \in p.todo \cup p.batch : ad[a].state # "absent"
    PROVE  DescriptionsInv'
  BY DEF DescriptionsInv

\* It hears, or counts a try.
LEMMA OneAnswer ==
    ASSUME DescriptionsInv, NEW x \in Fetchers, NEW a \in Ads, ad' = ad,
           a \in fetcher[x].batch, NEW r \in Came, NEW n \in Nat,
           fetcher' = [fetcher EXCEPT ![x].came[a] = r, ![x].tries[a] = n]
    PROVE  DescriptionsInv'
  <1> DEFINE f == fetcher[x]
             q == [f EXCEPT !.came[a] = r]
             p == [q EXCEPT !.tries[a] = n]
  <1>1. f \in Process /\ fetcher \in [Fetchers -> Process]
    BY DEF DescriptionsInv
  <1>2. q \in Process /\ q.todo = f.todo /\ q.batch = f.batch /\ q.came = [f.came EXCEPT ![a] = r]
    BY <1>1 DEF Process
  <1> HIDE DEF q
  <1>3. p \in Process /\ p.todo = q.todo /\ p.batch = q.batch /\ p.came = q.came
    BY <1>2 DEF Process
  <1>4. fetcher' = [fetcher EXCEPT ![x] = p]
    BY <1>1 DEF q
  <1>5. f.came \in [Ads -> Came]
    BY <1>1 DEF Process
  <1>6. /\ Cardinality(p.batch) <= WriteEvery
        /\ \A o \in Ads : p.came[o] # "no" => o \in p.batch
        /\ \A o \in p.todo \cup p.batch : ad[o].state # "absent"
    BY <1>2, <1>3, <1>5 DEF DescriptionsInv
  <1> HIDE DEF p
  <1> QED
    BY <1>3, <1>4, <1>6, OneFetcher

LEMMA DescriptionsStep ==
    ASSUME DescriptionsInv, [DescriptionsNext]_descriptionVars
    PROVE  /\ DescriptionsInv'
           /\ \A a \in Ads : ad[a].described => ad'[a].described
           /\ \A a \in Ads : ad[a].company = "advertiser" => ad'[a].company = "advertiser"
  <1> DEFINE Keeps == /\ \A a \in Ads : ad[a].described => ad'[a].described
                      /\ \A a \in Ads : ad[a].company = "advertiser" => ad'[a].company = "advertiser"
  <1>1. ASSUME NEW a \in Ads, Sighted(a) PROVE DescriptionsInv' /\ Keeps
    <2>1. PICK carried \in BOOLEAN, card \in {"card", "advertiser"} :
            ad' = [ad EXCEPT ![a] = [state |-> "open", described |-> carried \/ ad[a].described,
                                     company |-> IF @.state = "absent" THEN card ELSE @.company]]
      BY <1>1 DEF Sighted, TextAfter
    <2>2. fetcher' = fetcher
      BY <1>1 DEF Sighted
    <2>3. ad[a] \in Listed
      BY DEF DescriptionsInv
    <2> QED
      BY <2>1, <2>2, <2>3 DEF DescriptionsInv, Listed, Companies
  <1>2. ASSUME NEW a \in Ads, Gone(a) PROVE DescriptionsInv' /\ Keeps
    BY <1>2 DEF Gone, DescriptionsInv, Listed
  <1>3. ASSUME NEW x \in Fetchers, StartDescribing(x) PROVE DescriptionsInv'
    <2>1. PICK todo \in SUBSET {a \in Ads : ad[a].state # "absent"} :
            fetcher' = [fetcher EXCEPT ![x] = [@ EXCEPT !.job = "describe", !.todo = todo]]
      BY <1>3, ZenonT(60) DEF StartDescribing, Undescribed
    <2>2. fetcher[x] \in Process /\ ad' = ad
      BY <1>3 DEF DescriptionsInv, StartDescribing
    <2> DEFINE p == [fetcher[x] EXCEPT !.job = "describe", !.todo = todo]
    <2>3. p \in Process /\ p.todo = todo /\ p.batch = fetcher[x].batch /\ p.came = fetcher[x].came
      BY <2>2 DEF Process
    <2> QED
      BY <2>1, <2>2, <2>3, OneFetcher DEF DescriptionsInv
  <1>4. ASSUME NEW x \in Fetchers, StartRepair(x) PROVE DescriptionsInv'
    <2>1. PICK todo \in SUBSET {a \in Ads : ad[a].state # "absent"} :
            fetcher' = [fetcher EXCEPT ![x] = [@ EXCEPT !.job = "repair", !.todo = todo,
                                                        !.read = [a \in Ads |-> ad[a].company]]]
      BY <1>4, ZenonT(60) DEF StartRepair
    <2>2. fetcher[x] \in Process /\ ad' = ad /\ [a \in Ads |-> ad[a].company] \in [Ads -> Companies]
      BY <1>4 DEF DescriptionsInv, StartRepair, Listed
    <2> DEFINE p == [fetcher[x] EXCEPT !.job = "repair", !.todo = todo,
                                       !.read = [a \in Ads |-> ad[a].company]]
    <2>3. p \in Process /\ p.todo = todo /\ p.batch = fetcher[x].batch /\ p.came = fetcher[x].came
      BY <2>2 DEF Process
    <2> QED
      BY <2>1, <2>2, <2>3, OneFetcher DEF DescriptionsInv
  <1>5. ASSUME NEW x \in Fetchers, TakeBatch(x) PROVE DescriptionsInv'
    <2>1. PICK b \in BatchOf(fetcher[x]) :
            fetcher' = [fetcher EXCEPT ![x] = [@ EXCEPT !.batch = b, !.todo = fetcher[x].todo \ b]]
      BY <1>5 DEF TakeBatch, DescriptionsInv, Process
    <2>2. fetcher[x] \in Process /\ ad' = ad /\ fetcher[x].batch = {}
      BY <1>5 DEF DescriptionsInv, TakeBatch
    <2>3. b \in SUBSET fetcher[x].todo /\ b \in SUBSET Ads /\ Cardinality(b) <= WriteEvery
      <3> DEFINE size == IF fetcher[x].job = "repair" THEN 1 ELSE WriteEvery
      <3>1. size <= WriteEvery /\ size \in Nat /\ WriteEvery \in Nat
        BY DescriptionsAssumption
      <3>2. b \subseteq fetcher[x].todo /\ (Cardinality(b) <= size \/ Cardinality(b) = size)
        BY DEF BatchOf
      <3>3. b \in SUBSET Ads
        BY <2>2, <3>2 DEF Process
      <3>4. Cardinality(b) \in Nat
        BY <3>3, FS_Subset, FS_CardinalityType, DescriptionsAssumption
      <3> QED
        BY <3>1, <3>2, <3>3, <3>4
    <2> DEFINE p == [fetcher[x] EXCEPT !.batch = b, !.todo = fetcher[x].todo \ b]
    <2>4. p \in Process /\ p.todo \subseteq fetcher[x].todo /\ p.batch = b /\ p.came = fetcher[x].came
      BY <2>2, <2>3 DEF Process
    <2>5. \A a \in Ads : p.came[a] = "no"
      BY <2>2, <2>4 DEF DescriptionsInv
    <2>6. \A a \in p.todo \cup p.batch : ad[a].state # "absent"
      BY <2>3, <2>4 DEF DescriptionsInv
    <2>7. fetcher' = [fetcher EXCEPT ![x] = p]
      BY <2>1
    <2> HIDE DEF p
    <2> QED
      BY <2>2, <2>3, <2>4, <2>5, <2>6, <2>7, OneFetcher
  <1>7. ASSUME NEW x \in Fetchers, NEW a \in Ads, Described(x, a) PROVE DescriptionsInv'
    <2>1. PICK r \in Came : fetcher' = [fetcher EXCEPT ![x].came[a] = r, ![x].tries[a] = 0]
      BY <1>7 DEF Described, Replies, Came
    <2> QED
      BY <1>7, <2>1, OneAnswer DEF Described, InFlight
  <1>8. ASSUME NEW x \in Fetchers, NEW a \in Ads, RateLimited(x, a) PROVE DescriptionsInv'
    <2>1. fetcher[x] \in Process /\ fetcher[x].tries[a] \in Nat /\ InFlight(x, a) /\ ad' = ad
      BY <1>8 DEF DescriptionsInv, Process, RateLimited
    <2>2. CASE fetcher[x].tries[a] + 1 < Tries[SourceOfAd[a]]
      <3>1. fetcher' = [fetcher EXCEPT ![x].tries[a] = fetcher[x].tries[a] + 1]
        BY <1>8, <2>1, <2>2 DEF RateLimited, DescriptionsInv, Process
      <3> DEFINE p == [fetcher[x] EXCEPT !.tries[a] = fetcher[x].tries[a] + 1]
      <3>2. p \in Process /\ p.todo = fetcher[x].todo /\ p.batch = fetcher[x].batch /\ p.came = fetcher[x].came
        BY <2>1 DEF Process
      <3>3. fetcher' = [fetcher EXCEPT ![x] = p]
        BY <3>1
      <3> HIDE DEF p
      <3> QED
        BY <2>1, <3>2, <3>3, OneFetcher DEF DescriptionsInv
    <2>3. CASE ~ (fetcher[x].tries[a] + 1 < Tries[SourceOfAd[a]])
      <3>1. fetcher' = [fetcher EXCEPT ![x].tries[a] = 0, ![x].came[a] = "nothing"]
        BY <1>8, <2>1, <2>3 DEF RateLimited, DescriptionsInv, Process
      <3>2. fetcher' = [fetcher EXCEPT ![x].came[a] = "nothing", ![x].tries[a] = 0]
        BY <3>1, <2>1 DEF DescriptionsInv, Process
      <3> QED
        BY <2>1, <3>2, OneAnswer DEF Came, InFlight
    <2> QED
      BY <2>2, <2>3
  <1>9. ASSUME NEW x \in Fetchers, CommitBatch(x) PROVE DescriptionsInv' /\ Keeps
    <2>0. fetcher[x] \in Process
      BY DEF DescriptionsInv
    <2>1. \A a \in Ads : ad[a] \in Listed
      BY DEF DescriptionsInv
    <2>2. ad' = Repaired(fetcher[x]) \/ ad' = Written(fetcher[x].came, fetcher[x].batch)
      BY <1>9 DEF CommitBatch
    <2>3. ASSUME NEW a \in Ads
          PROVE  \/ ad'[a] = ad[a]
                 \/ /\ a \in fetcher[x].batch
                    /\ \/ ad'[a] = [ad[a] EXCEPT !.company = "advertiser"]
                       \/ ad'[a] = [ad[a] EXCEPT !.described = TRUE, !.company = "advertiser"]
                       \/ ad'[a] = [ad[a] EXCEPT !.described = TRUE, !.company = ad[a].company]
      BY <2>2 DEF Repaired, Written, CompanyAfter
    <2>4. ASSUME NEW a \in Ads
          PROVE  /\ ad'[a] \in Listed /\ ad'[a].state = ad[a].state
                 /\ (ad'[a].company = ad[a].company \/ ad'[a].company = "advertiser")
                 /\ (ad[a].described => ad'[a].described)
                 /\ (a \notin fetcher[x].batch => ad'[a] = ad[a])
      <3>1. ad[a] \in Listed
        BY <2>1
      <3>2. CASE ad'[a] = ad[a]
        BY <3>1, <3>2
      <3>3. CASE a \in fetcher[x].batch /\ ad'[a] = [ad[a] EXCEPT !.company = "advertiser"]
        BY <3>1, <3>3 DEF Listed, Companies
      <3>4. CASE a \in fetcher[x].batch /\ ad'[a] = [ad[a] EXCEPT !.described = TRUE, !.company = "advertiser"]
        BY <3>1, <3>4 DEF Listed, Companies
      <3>5. CASE a \in fetcher[x].batch /\ ad'[a] = [ad[a] EXCEPT !.described = TRUE, !.company = ad[a].company]
        BY <3>1, <3>5 DEF Listed, Companies
      <3> QED
        BY <2>3, <3>2, <3>3, <3>4, <3>5
    <2>5. PICK p \in Process :
            /\ fetcher' = [fetcher EXCEPT ![x] = p]
            /\ p.todo \subseteq fetcher[x].todo /\ p.batch = {} /\ p.came = Off.came
      <3>1. CASE fetcher[x].todo = {}
        BY <1>9, <3>1, OffIsAProcess DEF CommitBatch
      <3>2. CASE fetcher[x].todo # {}
        <4> DEFINE p == [fetcher[x] EXCEPT !.batch = {}, !.came = Off.came]
        <4>1. fetcher' = [fetcher EXCEPT ![x] = p]
          BY <1>9, <3>2 DEF CommitBatch
        <4>2. p \in Process /\ p.todo = fetcher[x].todo /\ p.batch = {} /\ p.came = Off.came
          BY <2>0, OffIsAProcess DEF Process
        <4> QED
          BY <4>1, <4>2
      <3> QED
        BY <3>1, <3>2
    <2>6. \A a \in Ads : p.came[a] = "no"
      BY <2>5, OffIsAProcess
    <2>7. Cardinality(p.batch) <= WriteEvery
      BY <2>5, OffIsAProcess
    <2>8. ad' \in [Ads -> Listed]
      BY <2>2, <2>4 DEF Repaired, Written
    <2>9. fetcher' \in [Fetchers -> Process] /\ \A y \in Fetchers : fetcher'[y] = IF y = x THEN p ELSE fetcher[y]
      BY <2>5 DEF DescriptionsInv
    <2>10. \A a \in Ads : ad'[a].state = "absent" => ad'[a].company = "none"
      BY <2>4 DEF DescriptionsInv, Process
    <2>11. \A y \in Fetchers : fetcher[y].todo \cup fetcher[y].batch \subseteq Ads
      BY DEF DescriptionsInv, Process
    <2>12. ASSUME NEW y \in Fetchers
           PROVE  /\ Cardinality(fetcher'[y].batch) <= WriteEvery
                  /\ \A a \in Ads : fetcher'[y].came[a] # "no" => a \in fetcher'[y].batch
                  /\ \A a \in fetcher'[y].todo \cup fetcher'[y].batch : ad'[a].state # "absent"
      <3>1. \A a \in fetcher[y].todo \cup fetcher[y].batch : ad'[a].state # "absent"
        BY <2>4, <2>11 DEF DescriptionsInv
      <3>2. CASE y = x
        BY <2>5, <2>6, <2>7, <2>9, <3>1, <3>2
      <3>3. CASE y # x
        BY <2>9, <3>1, <3>3 DEF DescriptionsInv
      <3> QED
        BY <3>2, <3>3
    <2>13. DescriptionsInv'
      BY <2>8, <2>9, <2>10, <2>12 DEF DescriptionsInv
    <2> QED
      BY <2>4, <2>13
  <1>10. ASSUME NEW x \in Fetchers, Killed(x) PROVE DescriptionsInv'
    BY <1>10, OffIsAProcess, OneFetcher DEF Killed
  <1>11. (\E x \in Fetchers : StartDescribing(x) \/ StartRepair(x) \/ TakeBatch(x) \/ Killed(x)
            \/ \E a \in Ads : Described(x, a) \/ RateLimited(x, a)) => ad' = ad
    BY DEF StartDescribing, StartRepair, TakeBatch, Killed, Described, RateLimited
  <1>12. CASE UNCHANGED descriptionVars
    BY <1>12 DEF descriptionVars, DescriptionsInv
  <1> QED
    BY <1>1, <1>2, <1>3, <1>4, <1>5, <1>7, <1>8, <1>9, <1>10, <1>11, <1>12
       DEF DescriptionsNext, Describing

\* What was learned of a Listing stays known, and a killed process forgets one batch at
\* most, for any Listings, sources, overlapping passes, batch size and tries.
THEOREM DescriptionsStay == DescriptionsSpec => DescriptionsAreKept
  <1>1. DescriptionsInit => DescriptionsInv
    <2> SUFFICES ASSUME DescriptionsInit PROVE DescriptionsInv
      OBVIOUS
    <2>1. /\ ad = [a \in Ads |-> [state |-> "absent", described |-> FALSE, company |-> "none"]]
          /\ fetcher = [x \in Fetchers |-> Off]
      BY DEF DescriptionsInit
    <2> QED
      BY <2>1, OffIsAProcess DEF DescriptionsInv, Listed, Companies
  <1>2. DescriptionsInv /\ [DescriptionsNext]_descriptionVars => DescriptionsInv'
    BY DescriptionsStep
  <1>3. DescriptionsInv => NoMoreThanABatchIsLost
    <2> SUFFICES ASSUME DescriptionsInv, NEW x \in Fetchers
                 PROVE  Cardinality({a \in Ads : HasText(fetcher[x].came[a])}) <= WriteEvery
      BY DEF NoMoreThanABatchIsLost
    <2> DEFINE T == {a \in Ads : HasText(fetcher[x].came[a])}
    <2>1. T \subseteq fetcher[x].batch /\ fetcher[x].batch \subseteq Ads
      BY DEF DescriptionsInv, HasText, Process
    <2>2. IsFiniteSet(fetcher[x].batch)
      BY <2>1, FS_Subset, DescriptionsAssumption
    <2>3. /\ Cardinality(T) <= Cardinality(fetcher[x].batch)
          /\ Cardinality(T) \in Nat /\ Cardinality(fetcher[x].batch) \in Nat
      BY <2>1, <2>2, FS_Subset, FS_CardinalityType
    <2> QED
      BY <2>3, DescriptionsAssumption DEF DescriptionsInv
  <1>4. DescriptionsInv /\ [DescriptionsNext]_descriptionVars =>
          [\A a \in Ads : ad[a].described => ad'[a].described]_descriptionVars
    BY DescriptionsStep
  <1>5. DescriptionsInv /\ [DescriptionsNext]_descriptionVars =>
          [\A a \in Ads : ad[a].company = "advertiser" => ad'[a].company = "advertiser"]_descriptionVars
    BY DescriptionsStep
  <1> QED
    BY <1>1, <1>2, <1>3, <1>4, <1>5, PTL
       DEF DescriptionsSpec, DescriptionsAreKept, TextsAreKept, AdvertisersAreKept

-----------------------------------------------------------------------------
(* Posts promoted (PostPromotion).                                         *)

Names == {"none", "named", "confidential", "prose"}
Verdict == [status: {"pending", "promoted", "rejected"}, result: Results \cup {"none"}]
NoteListing == [there: BOOLEAN, active: BOOLEAN, company: Names, email: BOOLEAN, ghost: BOOLEAN]
Reading == [Notes -> [there: BOOLEAN, email: BOOLEAN, ghost: BOOLEAN]]
Jobs == {"none", "promotion", "backfill", "ghosts", "expiry", "repair"}
AtWorkOn == [job: Jobs, todo: SUBSET Notes, at: Notes \cup {"none"},
             kept: SUBSET (Notes \X {"named", "confidential"}), email: BOOLEAN, seen: Reading]

NotesTyped ==
    /\ row \in [Notes -> Verdict] /\ listing \in [Notes -> NoteListing]
    /\ worker \in [Workers -> AtWorkOn]
    /\ email \in BOOLEAN /\ swept \in BOOLEAN /\ repaired \in BOOLEAN

\* A promoted post is listed, or dropped, or held by a run that has settled it; what a
\* run holds it has left behind.
OnTheWay ==
    /\ \A n \in Notes : row[n].status = "promoted" =>
         listing[n].there \/ n \in dropped \/ \E w \in Workers : Holds(w, n) /\ worker[w].at # n
    /\ \A w \in Workers, n \in Notes :
         Holds(w, n) => worker[w].job = "promotion" /\ n \notin worker[w].todo

\* A Listing with prose for a name is an old one, which no promotion looks at and every
\* repair under way does.
Misnamed ==
    /\ repaired => \A n \in Notes : listing[n].company # "prose"
    /\ \A n \in Notes : listing[n].company = "prose" =>
         /\ row[n] = [status |-> "promoted", result |-> "prose"] /\ listing[n].there
         /\ \A w \in Workers :
              /\ worker[w].job = "promotion" => n \notin worker[w].todo /\ worker[w].at # n
              /\ worker[w].job = "repair" => n \in worker[w].todo

\* An email that is anywhere was harvested, and what a backfill has read with it keeps it,
\* but for the Listings written from an older reading.
Mailed ==
    /\ \A n \in Notes : listing[n].email => email
    /\ \A w \in Workers : /\ worker[w].email \/ worker[w].job = "backfill" => email
                          /\ \A n \in Notes : worker[w].seen[n].email => email
    /\ swept => email /\ \A n \in Notes : listing[n].there => listing[n].email \/ n \in stale
    /\ \A w \in Workers, n \in Notes :
         worker[w].job = "backfill" /\ worker[w].seen[n].there /\ worker[w].seen[n].email
           => listing[n].email \/ n \in stale

NotesInv == NotesTyped /\ OnTheWay /\ Misnamed /\ Mailed

LEMMA FreeIsAWorker ==
    /\ Free \in AtWorkOn /\ Free.kept = {} /\ Free.job = "none" /\ Free.at = "none"
    /\ Free.todo = {} /\ Free.email = FALSE /\ \A n \in Notes : Free.seen[n].email = FALSE
  BY DEF Free, AtWorkOn, Unread, Reading, Jobs

LEMMA SignalsAreAReading == NotesTyped => Signals \in Reading
  BY DEF NotesTyped, Signals, Reading, NoteListing

\* A job begins: one free worker is given work to do, and holds nothing yet.
LEMMA BegunJob ==
    ASSUME NotesInv, NEW w \in Workers, NEW job \in {"promotion", "ghosts", "expiry", "repair"},
           NEW todo \in SUBSET Notes, Start(w, job, todo)
    PROVE  \E p \in AtWorkOn :
             /\ worker' = [worker EXCEPT ![w] = p] /\ worker[w] = Free
             /\ p.job = job /\ p.todo = todo /\ p.at = "none" /\ p.kept = {}
             /\ p.email => email
             /\ \A n \in Notes : p.seen[n].email => email
  <1> DEFINE p == [Free EXCEPT !.job = job, !.todo = todo, !.email = email /\ job = "promotion",
                               !.seen = IF job = "ghosts" THEN Signals ELSE @]
  <1>1. worker' = [worker EXCEPT ![w] = p] /\ worker[w] = Free
    BY DEF Start
  <1>2. (IF job = "ghosts" THEN Signals ELSE Free.seen) \in Reading
    BY SignalsAreAReading, FreeIsAWorker DEF NotesInv, AtWorkOn
  <1>3. /\ p.job = job /\ p.todo = todo /\ p.at = "none" /\ p.kept = {}
        /\ p.email = (email /\ job = "promotion")
        /\ p.seen = IF job = "ghosts" THEN Signals ELSE Free.seen
    BY FreeIsAWorker DEF AtWorkOn
  <1>4. p \in AtWorkOn
    BY <1>2, FreeIsAWorker DEF AtWorkOn, Jobs, NotesInv, NotesTyped
  <1>5. \A n \in Notes : p.seen[n].email => email
    BY <1>3, FreeIsAWorker DEF Signals, NotesInv, Mailed
  <1> HIDE DEF p
  <1> QED
    BY <1>1, <1>3, <1>4, <1>5

Keeps(p, n) == \E k \in p.kept : k[1] = n

\* Only the worker that takes a step changes.
LEMMA OneWorkerMoves ==
    ASSUME NotesTyped, NEW w \in Workers, NEW p \in AtWorkOn, worker' = [worker EXCEPT ![w] = p]
    PROVE  /\ worker' \in [Workers -> AtWorkOn]
           /\ worker'[w] = p
           /\ \A v \in Workers : v # w => worker'[v] = worker[v]
           /\ \A v \in Workers, n \in Notes : Holds(v, n) <=> Keeps(worker[v], n)
  BY DEF NotesTyped, Holds, Keeps

\* A step that leaves the Listings as they are keeps the invariant when the new state of its
\* worker fits the posts, the Listings and the email, and what the worker lets go of is listed
\* or dropped.
LEMMA AWorkerMoves ==
    ASSUME NotesInv, NEW w \in Workers, NEW p \in AtWorkOn, worker' = [worker EXCEPT ![w] = p],
           UNCHANGED <<listing, swept, repaired, stale>>,
           row' \in [Notes -> Verdict], email' \in BOOLEAN, email => email', dropped \subseteq dropped',
           \A n \in Notes : row'[n].status = "promoted" /\ row[n].status # "promoted"
               => p.at # n /\ Keeps(p, n),
           \A n \in Notes : Holds(w, n) /\ worker[w].at # n
               => listing[n].there \/ n \in dropped' \/ (p.at # n /\ Keeps(p, n)),
           \A n \in Notes : Keeps(p, n) => p.job = "promotion" /\ n \notin p.todo,
           \A n \in Notes : listing[n].company = "prose" =>
               /\ row'[n] = row[n]
               /\ p.job = "promotion" => n \notin p.todo /\ p.at # n
               /\ p.job = "repair" => n \in p.todo,
           p.email \/ p.job = "backfill" => email',
           \A n \in Notes : p.seen[n].email => email',
           \A n \in Notes : p.job = "backfill" /\ p.seen[n].there /\ p.seen[n].email
               => listing[n].email \/ n \in stale
    PROVE  NotesInv'
  <1> USE DEF NotesInv
  <1>0. /\ worker' \in [Workers -> AtWorkOn]
        /\ worker'[w] = p
        /\ \A v \in Workers : v # w => worker'[v] = worker[v]
        /\ \A v \in Workers, n \in Notes : Holds(v, n) <=> Keeps(worker[v], n)
    BY OneWorkerMoves
  <1>1. NotesTyped'
    BY <1>0 DEF NotesTyped
  <1>2. OnTheWay'
    <2>1. ASSUME NEW n \in Notes, row'[n].status = "promoted"
          PROVE  \/ listing'[n].there \/ n \in dropped'
                 \/ \E v \in Workers : Keeps(worker'[v], n) /\ worker'[v].at # n
      <3>1. CASE \E v \in Workers : Holds(v, n) /\ worker[v].at # n
        <4>1. PICK v \in Workers : Holds(v, n) /\ worker[v].at # n
          BY <3>1
        <4>2. CASE v = w
          <5>1. Holds(w, n) /\ worker[w].at # n
            BY <4>1, <4>2
          <5>2. listing[n].there \/ n \in dropped' \/ (p.at # n /\ Keeps(p, n))
            BY <5>1
          <5>3. listing[n].there \/ n \in dropped' \/ (worker'[w].at # n /\ Keeps(worker'[w], n))
            BY <5>2, <1>0
          <5> QED
            BY <5>3
        <4>3. CASE v # w
          BY <4>1, <4>3, <1>0
        <4> QED
          BY <4>2, <4>3
      <3>2. CASE row[n].status # "promoted"
        <4>1. p.at # n /\ Keeps(p, n)
          BY <2>1, <3>2
        <4>2. Keeps(worker'[w], n) /\ worker'[w] = p
          BY <4>1, <1>0
        <4> QED
          BY <4>1, <4>2
      <3>3. CASE listing[n].there \/ n \in dropped
        BY <3>3
      <3> QED
        BY <2>1, <3>1, <3>2, <3>3 DEF OnTheWay
    <2>2. ASSUME NEW v \in Workers, NEW n \in Notes, Keeps(worker'[v], n)
          PROVE  worker'[v].job = "promotion" /\ n \notin worker'[v].todo
      <3>1. CASE v = w
        <4>1. Keeps(worker'[w], n)
          BY <2>2, <3>1
        <4> QED
          BY <4>1, <3>1, <1>0
      <3>2. CASE v # w
        BY <2>2, <3>2, <1>0 DEF OnTheWay
      <3> QED
        BY <3>1, <3>2
    <2> QED
      BY <2>1, <2>2 DEF OnTheWay, Holds, Keeps
  <1>3. Misnamed'
    <2>1. ASSUME NEW n \in Notes, listing[n].company = "prose", NEW v \in Workers
          PROVE  /\ worker'[v].job = "promotion" => n \notin worker'[v].todo /\ worker'[v].at # n
                 /\ worker'[v].job = "repair" => n \in worker'[v].todo
      <3>1. CASE v = w
        BY <2>1, <3>1, <1>0
      <3>2. CASE v # w
        BY <2>1, <3>2, <1>0 DEF Misnamed
      <3> QED
        BY <3>1, <3>2
    <2> QED
      BY <2>1 DEF Misnamed
  <1>4. Mailed'
    <2>1. ASSUME NEW v \in Workers
          PROVE  /\ worker'[v].email \/ worker'[v].job = "backfill" => email'
                 /\ \A n \in Notes : worker'[v].seen[n].email => email'
                 /\ \A n \in Notes : worker'[v].job = "backfill" /\ worker'[v].seen[n].there
                        /\ worker'[v].seen[n].email => listing[n].email \/ n \in stale
      <3>1. CASE v = w
        BY <3>1, <1>0
      <3>2. CASE v # w
        BY <3>2, <1>0 DEF Mailed
      <3> QED
        BY <3>1, <3>2
    <2> QED
      BY <2>1 DEF Mailed
  <1> QED
    BY <1>1, <1>2, <1>3, <1>4

\* A step that writes Listings ends its job.  It keeps the invariant when what its worker
\* held is listed, no name gets worse, and a Listing loses its email to an older reading only.
LEMMA ListingsAreWritten ==
    ASSUME NotesInv, NEW w \in Workers, Finish(w), UNCHANGED <<row, email>>,
           listing' \in [Notes -> NoteListing], swept' \in BOOLEAN, repaired' \in BOOLEAN,
           \A n \in Notes : listing[n].there \/ Holds(w, n) => listing'[n].there,
           \A n \in Notes : n \in dropped => n \in dropped' \/ listing'[n].there,
           \A n \in Notes : listing'[n].company = "prose" => listing[n].company = "prose",
           repaired' => repaired \/ \A n \in Notes : listing'[n].company # "prose",
           stale \subseteq stale',
           \A n \in Notes : listing'[n].email => email,
           \A n \in Notes : listing[n].email => listing'[n].email \/ n \in stale',
           swept' => email /\ \A n \in Notes : listing'[n].there => listing'[n].email \/ n \in stale'
    PROVE  NotesInv'
  <1> USE DEF NotesInv
  <1>1. Free \in AtWorkOn /\ worker' = [worker EXCEPT ![w] = Free]
    BY FreeIsAWorker DEF Finish
  <1>0. /\ worker' \in [Workers -> AtWorkOn]
        /\ worker'[w] = Free
        /\ \A v \in Workers : v # w => worker'[v] = worker[v]
        /\ \A v \in Workers, n \in Notes : Holds(v, n) <=> Keeps(worker[v], n)
    BY <1>1, OneWorkerMoves
  <1>2. \A v \in Workers, n \in Notes :
           Keeps(worker'[v], n) => v # w /\ Holds(v, n) /\ worker'[v] = worker[v]
    <2> TAKE v \in Workers, n \in Notes
    <2> HAVE Keeps(worker'[v], n)
    <2>1. CASE v = w
      <3>1. Keeps(worker'[w], n)
        BY <2>1
      <3> QED
        BY <1>0, <3>1, FreeIsAWorker DEF Keeps
    <2>2. CASE v # w
      BY <1>0, <2>2
    <2> QED
      BY <2>1, <2>2
  <1>3. \A v \in Workers : worker'[v] = Free \/ (v # w /\ worker'[v] = worker[v])
    BY <1>0
  <1>4. NotesTyped'
    BY <1>0 DEF NotesTyped
  <1>5. OnTheWay'
    <2>1. ASSUME NEW n \in Notes, row'[n].status = "promoted"
          PROVE  \/ listing'[n].there \/ n \in dropped'
                 \/ \E v \in Workers : Keeps(worker'[v], n) /\ worker'[v].at # n
      <3>1. CASE \E v \in Workers : Holds(v, n) /\ worker[v].at # n
        <4>1. PICK v \in Workers : Holds(v, n) /\ worker[v].at # n
          BY <3>1
        <4>2. CASE v = w
          BY <4>1, <4>2
        <4>3. CASE v # w
          BY <1>0, <4>1, <4>3
        <4> QED
          BY <4>2, <4>3
      <3>2. CASE listing[n].there \/ n \in dropped
        BY <3>2
      <3> QED
        BY <2>1, <3>1, <3>2 DEF OnTheWay
    <2>2. ASSUME NEW v \in Workers, NEW n \in Notes, Keeps(worker'[v], n)
          PROVE  worker'[v].job = "promotion" /\ n \notin worker'[v].todo
      BY <1>2, <2>2 DEF OnTheWay
    <2> QED
      BY <2>1, <2>2 DEF OnTheWay, Holds, Keeps
  <1>6. Misnamed'
    <2>1. ASSUME NEW n \in Notes, listing'[n].company = "prose"
          PROVE  /\ row'[n] = [status |-> "promoted", result |-> "prose"] /\ listing'[n].there
                 /\ \A v \in Workers :
                      /\ worker'[v].job = "promotion" => n \notin worker'[v].todo /\ worker'[v].at # n
                      /\ worker'[v].job = "repair" => n \in worker'[v].todo
      BY <1>3, <2>1, FreeIsAWorker DEF Misnamed
    <2> QED
      BY <2>1 DEF Misnamed
  <1>7. Mailed'
    <2>1. ASSUME NEW v \in Workers
          PROVE  /\ worker'[v].email \/ worker'[v].job = "backfill" => email
                 /\ \A n \in Notes : worker'[v].seen[n].email => email
                 /\ \A n \in Notes : worker'[v].job = "backfill" /\ worker'[v].seen[n].there
                        /\ worker'[v].seen[n].email => listing'[n].email \/ n \in stale'
      BY <1>3, FreeIsAWorker DEF Mailed
    <2> QED
      BY <2>1 DEF Mailed
  <1> QED
    BY <1>4, <1>5, <1>6, <1>7

LEMMA FreeHoldsNothing == ASSUME NEW w \in Workers, worker[w] = Free PROVE \A n \in Notes : ~Holds(w, n) /\ ~Keeps(Free, n)
  BY FreeIsAWorker DEF Holds, Keeps

LEMMA JobsBegin ==
    ASSUME NotesInv, NEW w \in Workers,
           FetchPending(w) \/ ReadForGhosts(w) \/ SelectAged(w) \/ SelectMisnamed(w)
    PROVE  NotesInv'
  <1>0. row \in [Notes -> Verdict] /\ email \in BOOLEAN
    BY DEF NotesInv, NotesTyped
  <1>1. CASE FetchPending(w)
    <2> DEFINE todo == {n \in Notes : row[n].status = "pending"}
    <2>1. PICK p \in AtWorkOn :
             /\ worker' = [worker EXCEPT ![w] = p] /\ worker[w] = Free
             /\ p.job = "promotion" /\ p.todo = todo /\ p.at = "none" /\ p.kept = {}
             /\ p.email => email
             /\ \A n \in Notes : p.seen[n].email => email
      BY <1>1, BegunJob DEF FetchPending
    <2>2. \A n \in Notes : listing[n].company = "prose" => n \notin p.todo /\ p.at # n
      BY <2>1, PromotionAssumption DEF NotesInv, Misnamed
    <2> QED
      BY <1>0, <1>1, <2>1, <2>2, FreeHoldsNothing, AWorkerMoves DEF FetchPending, Keeps
  <1>2. CASE ReadForGhosts(w)
    <2> DEFINE todo == {n \in Notes : listing[n].active}
    <2>1. PICK p \in AtWorkOn :
             /\ worker' = [worker EXCEPT ![w] = p] /\ worker[w] = Free
             /\ p.job = "ghosts" /\ p.todo = todo /\ p.at = "none" /\ p.kept = {}
             /\ p.email => email
             /\ \A n \in Notes : p.seen[n].email => email
      BY <1>2, BegunJob DEF ReadForGhosts
    <2> QED
      BY <1>0, <1>2, <2>1, FreeHoldsNothing, AWorkerMoves DEF ReadForGhosts, Keeps
  <1>3. CASE SelectAged(w)
    <2>1. PICK aged \in SUBSET {n \in Notes : listing[n].active} : Start(w, "expiry", aged)
      BY <1>3 DEF SelectAged
    <2>2. PICK p \in AtWorkOn :
             /\ worker' = [worker EXCEPT ![w] = p] /\ worker[w] = Free
             /\ p.job = "expiry" /\ p.todo = aged /\ p.at = "none" /\ p.kept = {}
             /\ p.email => email
             /\ \A n \in Notes : p.seen[n].email => email
      BY <2>1, BegunJob
    <2> QED
      BY <1>0, <1>3, <2>2, FreeHoldsNothing, AWorkerMoves DEF SelectAged, Keeps
  <1>4. CASE SelectMisnamed(w)
    <2> DEFINE todo == {n \in Notes : /\ row[n].status = "promoted" /\ row[n].result = "prose"
                                      /\ listing[n].there /\ listing[n].company # "confidential"}
    <2>1. PICK p \in AtWorkOn :
             /\ worker' = [worker EXCEPT ![w] = p] /\ worker[w] = Free
             /\ p.job = "repair" /\ p.todo = todo /\ p.at = "none" /\ p.kept = {}
             /\ p.email => email
             /\ \A n \in Notes : p.seen[n].email => email
      BY <1>4, BegunJob DEF SelectMisnamed
    <2>2. \A n \in Notes : listing[n].company = "prose" => n \in p.todo
      BY <2>1 DEF NotesInv, Misnamed
    <2> QED
      BY <1>0, <1>4, <2>1, <2>2, FreeHoldsNothing, AWorkerMoves DEF SelectMisnamed, Keeps
  <1> QED
    BY <1>1, <1>2, <1>3, <1>4

LEMMA AuthFailures ==
    ASSUME NotesInv, NEW w \in Workers, AuthFails(w)
    PROVE  NotesInv'
  <1> DEFINE p == [worker[w] EXCEPT !.todo = {}]
  <1>1. worker[w] \in AtWorkOn
    BY DEF NotesInv, NotesTyped
  <1>2. p \in AtWorkOn /\ p.job = worker[w].job /\ p.todo = {} /\ p.at = worker[w].at
        /\ p.kept = worker[w].kept /\ p.email = worker[w].email /\ p.seen = worker[w].seen
    BY <1>1 DEF AtWorkOn
  <1>3. worker' = [worker EXCEPT ![w] = p]
    BY DEF AuthFails
  <1>4. worker[w].job = "promotion" /\ worker[w].at = "none"
    BY DEF AuthFails
  <1>5. \A n \in Notes : Holds(w, n) <=> Keeps(p, n)
    BY <1>2 DEF Holds, Keeps
  <1> HIDE DEF p
  <1>6. \A n \in Notes : p.at # n
    BY <1>2, <1>4, PromotionAssumption
  <1>7. (p.email => email) /\ \A n \in Notes : p.seen[n].email => email
    BY <1>2 DEF NotesInv, Mailed
  <1>8. /\ UNCHANGED <<row, listing, email, dropped, swept, repaired, stale>>
        /\ row \in [Notes -> Verdict] /\ email \in BOOLEAN
    BY DEF AuthFails, NotesInv, NotesTyped
  <1>9. /\ \A n \in Notes : Holds(w, n) /\ worker[w].at # n => p.at # n /\ Keeps(p, n)
        /\ \A n \in Notes : Keeps(p, n) => p.job = "promotion" /\ n \notin p.todo
        /\ p.email \/ p.job = "backfill" => email
    BY <1>2, <1>4, <1>5, <1>6, <1>7
  <1>10. \A n \in Notes : listing[n].company = "prose" =>
             /\ p.job = "promotion" => n \notin p.todo /\ p.at # n
             /\ p.job = "repair" => n \in p.todo
    BY <1>2, <1>4, <1>6
  <1>11. \A n \in Notes : p.job = "backfill" /\ p.seen[n].there /\ p.seen[n].email
               => listing[n].email \/ n \in stale
    BY <1>2, <1>4
  <1> QED
    BY <1>2, <1>3, <1>7, <1>8, <1>9, <1>10, <1>11, AWorkerMoves

\* What a worker has in hand.
LEMMA InHand ==
    ASSUME NotesInv, NEW w \in Workers
    PROVE  /\ worker[w] \in AtWorkOn /\ row \in [Notes -> Verdict] /\ email \in BOOLEAN
           /\ listing \in [Notes -> NoteListing] /\ swept \in BOOLEAN /\ repaired \in BOOLEAN
           /\ \A n \in Notes : Holds(w, n) <=> Keeps(worker[w], n)
           /\ \A n \in Notes : Holds(w, n) => worker[w].job = "promotion" /\ n \notin worker[w].todo
           /\ worker[w].email \/ worker[w].job = "backfill" => email
           /\ \A n \in Notes : worker[w].seen[n].email => email
           /\ \A n \in Notes : listing[n].email => email
           /\ \A n \in Notes : listing[n].company = "prose" =>
                /\ row[n] = [status |-> "promoted", result |-> "prose"] /\ listing[n].there
                /\ worker[w].job = "promotion" => n \notin worker[w].todo /\ worker[w].at # n
                /\ worker[w].job = "repair" => n \in worker[w].todo
           /\ \A n \in Notes : worker[w].job = "backfill" /\ worker[w].seen[n].there
                /\ worker[w].seen[n].email => listing[n].email \/ n \in stale
           /\ swept => email /\ \A n \in Notes : listing[n].there => listing[n].email \/ n \in stale
  BY DEF NotesInv, NotesTyped, OnTheWay, Misnamed, Mailed, Holds, Keeps

LEMMA AnsweredPosts ==
    ASSUME NotesInv, NEW w \in Workers, NEW n \in worker[w].todo, NEW result \in Results,
           worker[w].job = "promotion", worker[w].at = "none",
           UNCHANGED <<listing, email, dropped, swept, repaired, stale>>,
           row' = [row EXCEPT ![n].result = result],
           worker' = [worker EXCEPT ![w].todo = @ \ {n}, ![w].at = n,
               ![w].kept = IF PassesGate(result) THEN @ \cup {<<n, CompanyOf(result)>>} ELSE @]
    PROVE  NotesInv'
  <1>1. n \in Notes /\ worker[w].todo \subseteq Notes /\ row[n] \in Verdict
    BY InHand DEF AtWorkOn
  <1>2. listing[n].company # "prose"
    BY <1>1, InHand
  <1> DEFINE kept == IF PassesGate(result) THEN worker[w].kept \cup {<<n, CompanyOf(result)>>}
                     ELSE worker[w].kept
  <1>3. PICK p : p = [worker[w] EXCEPT !.todo = @ \ {n}, !.at = n, !.kept = kept]
    OBVIOUS
  <1>4. row' \in [Notes -> Verdict] /\ \A m \in Notes : row'[m].status = row[m].status
    BY <1>1, InHand DEF Verdict
  <1>5. \A m \in Notes : m # n => row'[m] = row[m]
    BY InHand
  <1>6. kept \in SUBSET (Notes \X {"named", "confidential"})
    BY <1>1, InHand DEF AtWorkOn, CompanyOf
  <1>7. \A k \in kept : k \in worker[w].kept \/ k[1] = n
    OBVIOUS
  <1>8. worker[w].kept \subseteq kept
    OBVIOUS
  <1> HIDE DEF kept
  <1>9. /\ p \in AtWorkOn /\ p.job = "promotion" /\ p.todo = worker[w].todo \ {n} /\ p.at = n
        /\ p.kept = kept /\ p.email = worker[w].email /\ p.seen = worker[w].seen
    BY <1>1, <1>6, <1>3, InHand DEF AtWorkOn
  <1>10. worker' = [worker EXCEPT ![w] = p]
    BY <1>3 DEF kept
  <1>11. \A m \in Notes : Keeps(p, m) => m = n \/ Holds(w, m)
    BY <1>7, <1>9, InHand DEF Keeps
  <1>12. \A m \in Notes : Holds(w, m) => Keeps(p, m) /\ m # n
    BY <1>8, <1>9, InHand DEF Keeps
  <1>13. \A m \in Notes : Keeps(p, m) => p.job = "promotion" /\ m \notin p.todo
    BY <1>9, <1>11, InHand
  <1>14. \A m \in Notes : listing[m].company = "prose" =>
             /\ row'[m] = row[m]
             /\ p.job = "promotion" => m \notin p.todo /\ p.at # m
             /\ p.job = "repair" => m \in p.todo
    BY <1>2, <1>5, <1>9, InHand
  <1>15. (p.email \/ p.job = "backfill" => email) /\ \A m \in Notes : p.seen[m].email => email
    BY <1>9, InHand
  <1>16. \A m \in Notes : Holds(w, m) => p.at # m /\ Keeps(p, m)
    BY <1>9, <1>12
  <1>17. email' \in BOOLEAN /\ (email => email') /\ dropped \subseteq dropped'
    BY InHand
  <1>18. \A m \in Notes : row'[m].status = "promoted" /\ row[m].status # "promoted"
           => p.at # m /\ Keeps(p, m)
    BY <1>4
  <1>19. \A m \in Notes : Holds(w, m) /\ worker[w].at # m
           => listing[m].there \/ m \in dropped' \/ (p.at # m /\ Keeps(p, m))
    BY <1>16
  <1>20. (p.email \/ p.job = "backfill" => email') /\ \A m \in Notes : p.seen[m].email => email'
    BY <1>9, <1>15
  <1>21. \A m \in Notes : p.job = "backfill" /\ p.seen[m].there /\ p.seen[m].email
           => listing[m].email \/ m \in stale
    BY <1>9
  <1> QED
    BY <1>4, <1>9, <1>10, <1>13, <1>14, <1>17, <1>18, <1>19, <1>20, <1>21, AWorkerMoves

LEMMA Extractions ==
    ASSUME NotesInv, NEW w \in Workers, Extract(w)
    PROVE  NotesInv'
  <1>1. worker[w].job = "promotion" /\ worker[w].at = "none"
    BY DEF Extract
  <1>2. UNCHANGED <<listing, email, dropped, swept, repaired, stale>>
    BY DEF Extract
  <1>3. PICK n \in worker[w].todo :
           \/ \E result \in Results :
                  /\ row' = [row EXCEPT ![n].result = result]
                  /\ worker' = [worker EXCEPT ![w].todo = @ \ {n}, ![w].at = n,
                         ![w].kept = IF PassesGate(result) THEN @ \cup {<<n, CompanyOf(result)>>} ELSE @]
           \/ /\ \/ row' = [row EXCEPT ![n].status = "rejected"]
                 \/ row' = [row EXCEPT ![n].result = "none"]
                 \/ UNCHANGED row
              /\ worker' = [worker EXCEPT ![w].todo = @ \ {n}]
    BY DEF Extract
  <1>4. n \in Notes /\ worker[w].todo \subseteq Notes /\ row[n] \in Verdict
    BY InHand DEF AtWorkOn
  <1>5. listing[n].company # "prose"
    BY <1>1, <1>4, InHand
  <1>6. CASE \E result \in Results :
                  /\ row' = [row EXCEPT ![n].result = result]
                  /\ worker' = [worker EXCEPT ![w].todo = @ \ {n}, ![w].at = n,
                         ![w].kept = IF PassesGate(result) THEN @ \cup {<<n, CompanyOf(result)>>} ELSE @]
    <2>1. PICK result \in Results :
                  /\ row' = [row EXCEPT ![n].result = result]
                  /\ worker' = [worker EXCEPT ![w].todo = @ \ {n}, ![w].at = n,
                         ![w].kept = IF PassesGate(result) THEN @ \cup {<<n, CompanyOf(result)>>} ELSE @]
      BY <1>6
    <2> QED
      BY <1>1, <1>2, <2>1, AnsweredPosts
  <1>7. CASE /\ \/ row' = [row EXCEPT ![n].status = "rejected"]
                \/ row' = [row EXCEPT ![n].result = "none"]
                \/ UNCHANGED row
             /\ worker' = [worker EXCEPT ![w].todo = @ \ {n}]
    <2> DEFINE p == [worker[w] EXCEPT !.todo = @ \ {n}]
    <2>1. /\ row' \in [Notes -> Verdict]
          /\ \A m \in Notes : row'[m].status = "promoted" => row[m].status = "promoted"
          /\ \A m \in Notes : m # n => row'[m] = row[m]
      BY <1>4, <1>7, InHand DEF Verdict
    <2>2. /\ p \in AtWorkOn /\ p.job = "promotion" /\ p.todo = worker[w].todo \ {n} /\ p.at = "none"
          /\ p.kept = worker[w].kept /\ p.email = worker[w].email /\ p.seen = worker[w].seen
      BY <1>1, <1>4, InHand DEF AtWorkOn
    <2>3. worker' = [worker EXCEPT ![w] = p]
      BY <1>7
    <2> HIDE DEF p
    <2>4. \A m \in Notes : Keeps(p, m) <=> Holds(w, m)
      BY <2>2, InHand DEF Keeps
    <2>5. \A m \in Notes : p.at # m
      BY <2>2, PromotionAssumption
    <2>6. \A m \in Notes : Keeps(p, m) => p.job = "promotion" /\ m \notin p.todo
      BY <2>2, <2>4, InHand
    <2>7. \A m \in Notes : listing[m].company = "prose" =>
               /\ row'[m] = row[m]
               /\ p.job = "promotion" => m \notin p.todo /\ p.at # m
               /\ p.job = "repair" => m \in p.todo
      BY <1>1, <1>5, <2>1, <2>2, <2>5, InHand
    <2>8. (p.email \/ p.job = "backfill" => email) /\ \A m \in Notes : p.seen[m].email => email
      BY <2>2, InHand
    <2>9. /\ email' \in BOOLEAN /\ (email => email') /\ dropped \subseteq dropped'
          /\ \A m \in Notes : row'[m].status = "promoted" /\ row[m].status # "promoted"
               => p.at # m /\ Keeps(p, m)
          /\ \A m \in Notes : Holds(w, m) /\ worker[w].at # m
               => listing[m].there \/ m \in dropped' \/ (p.at # m /\ Keeps(p, m))
          /\ p.email \/ p.job = "backfill" => email'
          /\ \A m \in Notes : p.seen[m].email => email'
          /\ \A m \in Notes : p.job = "backfill" /\ p.seen[m].there /\ p.seen[m].email
               => listing[m].email \/ m \in stale
      BY <1>2, <2>1, <2>2, <2>4, <2>5, <2>8, InHand
    <2> QED
      BY <1>2, <2>1, <2>2, <2>3, <2>6, <2>7, <2>9, AWorkerMoves
  <1> QED
    BY <1>3, <1>6, <1>7

LEMMA StatusesSet ==
    ASSUME NotesInv, NEW w \in Workers, SetStatus(w)
    PROVE  NotesInv'
  <1> DEFINE n == worker[w].at
             p == [worker[w] EXCEPT !.at = "none"]
  <1>1. worker[w].job = "promotion" /\ n \in Notes
    BY InHand DEF SetStatus, AtWorkOn
  <1>2. UNCHANGED <<listing, email, dropped, swept, repaired, stale>>
    BY DEF SetStatus
  <1>3. /\ row' \in [Notes -> Verdict]
        /\ \A m \in Notes : m # n => row'[m] = row[m]
        /\ \A m \in Notes : row'[m].status = "promoted" /\ row[m].status # "promoted" => m = n /\ Holds(w, n)
    <2> HIDE DEF n
    <2>1. \/ row' = [row EXCEPT ![n].status = IF Holds(w, n) THEN "promoted" ELSE "rejected"]
          \/ UNCHANGED row
      BY DEF SetStatus, n
    <2>2. row \in [Notes -> Verdict] /\ row[n] \in Verdict
      BY <1>1, InHand
    <2>3. CASE row' = [row EXCEPT ![n].status = IF Holds(w, n) THEN "promoted" ELSE "rejected"]
      <3>1. CASE Holds(w, n)
        <4>1. row' = [row EXCEPT ![n].status = "promoted"]
          BY <2>3, <3>1
        <4> QED
          BY <1>1, <2>2, <3>1, <4>1 DEF Verdict
      <3>2. CASE ~Holds(w, n)
        <4>1. row' = [row EXCEPT ![n].status = "rejected"]
          BY <2>3, <3>2
        <4> QED
          BY <1>1, <2>2, <4>1 DEF Verdict
      <3> QED
        BY <3>1, <3>2
    <2> QED
      BY <2>1, <2>2, <2>3
  <1>4. worker' = [worker EXCEPT ![w] = p]
    BY DEF SetStatus
  <1>5. /\ p \in AtWorkOn /\ p.job = "promotion" /\ p.todo = worker[w].todo /\ p.at = "none"
        /\ p.kept = worker[w].kept /\ p.email = worker[w].email /\ p.seen = worker[w].seen
    BY <1>1, InHand DEF AtWorkOn
  <1>6. \A m \in Notes : Keeps(p, m) <=> Holds(w, m)
    BY <1>5, InHand DEF Keeps
  <1> HIDE DEF p, n
  <1>7. \A m \in Notes : p.at # m
    BY <1>5, PromotionAssumption
  <1>8. \A m \in Notes : Keeps(p, m) => p.job = "promotion" /\ m \notin p.todo
    BY <1>5, <1>6, InHand
  <1>9. \A m \in Notes : listing[m].company = "prose" =>
             /\ row'[m] = row[m]
             /\ p.job = "promotion" => m \notin p.todo /\ p.at # m
             /\ p.job = "repair" => m \in p.todo
    BY <1>1, <1>3, <1>5, <1>7, InHand DEF n
  <1>10. /\ email' \in BOOLEAN /\ (email => email') /\ dropped \subseteq dropped'
         /\ \A m \in Notes : row'[m].status = "promoted" /\ row[m].status # "promoted"
              => p.at # m /\ Keeps(p, m)
         /\ \A m \in Notes : Holds(w, m) /\ worker[w].at # m
              => listing[m].there \/ m \in dropped' \/ (p.at # m /\ Keeps(p, m))
         /\ p.email \/ p.job = "backfill" => email'
         /\ \A m \in Notes : p.seen[m].email => email'
         /\ \A m \in Notes : p.job = "backfill" /\ p.seen[m].there /\ p.seen[m].email
              => listing[m].email \/ m \in stale
    BY <1>2, <1>3, <1>5, <1>6, <1>7, InHand
  <1> QED
    BY <1>2, <1>3, <1>4, <1>5, <1>8, <1>9, <1>10, AWorkerMoves

LEMMA Harvests ==
    ASSUME NotesInv, NEW w \in Workers, HarvestEmail(w)
    PROVE  NotesInv'
  <1> DEFINE p == [Free EXCEPT !.job = "backfill", !.seen = Signals]
  <1>1. /\ email' = TRUE /\ worker[w] = Free /\ worker' = [worker EXCEPT ![w] = p]
        /\ UNCHANGED <<row, listing, dropped, swept, repaired, stale>>
    BY DEF HarvestEmail
  <1>2. Signals \in Reading
    BY SignalsAreAReading DEF NotesInv
  <1>3. /\ p \in AtWorkOn /\ p.job = "backfill" /\ p.kept = {} /\ p.seen = Signals
    BY <1>2, FreeIsAWorker DEF AtWorkOn, Jobs
  <1>4. \A n \in Notes : p.seen[n].email = listing[n].email
    BY <1>3 DEF Signals
  <1> HIDE DEF p
  <1>5. \A n \in Notes : ~Keeps(p, n) /\ ~Holds(w, n)
    BY <1>1, <1>3, FreeHoldsNothing DEF Keeps
  <1>6. /\ email' \in BOOLEAN /\ (email => email') /\ dropped \subseteq dropped'
        /\ row' = row /\ row' \in [Notes -> Verdict]
        /\ UNCHANGED <<listing, swept, repaired, stale>>
    BY <1>1, InHand
  <1> QED
    BY <1>1, <1>3, <1>4, <1>5, <1>6, AWorkerMoves

LEMMA Deaths ==
    ASSUME NotesInv, NEW w \in Workers, Die(w)
    PROVE  NotesInv'
  <1>1. /\ worker' = [worker EXCEPT ![w] = Free] /\ Free \in AtWorkOn
        /\ dropped' = dropped \cup {n \in Notes : Holds(w, n) /\ worker[w].at # n /\ ~listing[n].there}
        /\ UNCHANGED <<row, email, listing, swept, repaired, stale>>
    BY FreeIsAWorker DEF Die, Finish
  <1>2. \A n \in Notes : ~Keeps(Free, n)
    BY FreeIsAWorker DEF Keeps
  <1>3. \A n \in Notes : Holds(w, n) /\ worker[w].at # n => listing[n].there \/ n \in dropped'
    BY <1>1
  <1>4. /\ email' \in BOOLEAN /\ (email => email') /\ dropped \subseteq dropped'
        /\ row' = row /\ row' \in [Notes -> Verdict]
        /\ UNCHANGED <<listing, swept, repaired, stale>>
    BY <1>1, InHand
  <1>5. Free.job = "none" /\ Free.email = FALSE /\ \A n \in Notes : Free.seen[n].email = FALSE
    BY FreeIsAWorker
  <1> QED
    BY <1>1, <1>2, <1>3, <1>4, <1>5, AWorkerMoves

\* The Listings that each writer leaves.
LEMMA Stores ==
    ASSUME NotesInv, NEW w \in Workers, StoreListings(w)
    PROVE  NotesInv' /\ \A n \in Notes : listing[n].ghost => listing'[n].ghost \/ n \in stale'
  <1> DEFINE kept == worker[w].kept
             company(n) == CHOOSE c \in Results : <<n, c>> \in kept
  <1>1. /\ Finish(w) /\ UNCHANGED <<row, email, swept, repaired>>
        /\ listing' = [n \in Notes |->
              IF Holds(w, n) THEN UpsertedListing(listing[n], company(n), worker[w].email)
              ELSE listing[n]]
        /\ stale' = stale \cup {n \in Notes :
              Holds(w, n) /\ (listing[n].ghost \/ (email /\ ~worker[w].email))}
        /\ dropped' = {n \in dropped : ~Holds(w, n)}
    BY DEF StoreListings
  <1>2. \A n \in Notes : Holds(w, n) => company(n) \in {"named", "confidential"}
    <2> SUFFICES ASSUME NEW n \in Notes, Holds(w, n) PROVE company(n) \in {"named", "confidential"}
      OBVIOUS
    <2>1. PICK k \in kept : k[1] = n
      BY DEF Holds
    <2>2. k \in Notes \X {"named", "confidential"}
      BY InHand DEF AtWorkOn
    <2>3. k = <<n, k[2]>> /\ k[2] \in {"named", "confidential"}
      BY <2>1, <2>2
    <2>4. <<n, k[2]>> \in kept /\ k[2] \in Results
      BY <2>1, <2>3 DEF Results, Mandates
    <2>5. company(n) \in Results /\ <<n, company(n)>> \in kept
      BY <2>4
    <2>6. <<n, company(n)>> \in Notes \X {"named", "confidential"}
      BY <2>5, InHand DEF AtWorkOn
    <2> QED
      BY <2>6
  <1> HIDE DEF company
  <1>3. worker[w].email \in BOOLEAN /\ (worker[w].email => email)
    BY InHand DEF AtWorkOn
  <1>4. \A n \in Notes : Holds(w, n) =>
          /\ listing'[n] \in NoteListing /\ listing'[n].there /\ listing'[n].email = worker[w].email
          /\ listing'[n].company = "prose" => listing[n].company = "prose"
    BY <1>1, <1>2, <1>3, InHand DEF UpsertedListing, NoteListing, Names
  <1>5. \A n \in Notes : ~Holds(w, n) => listing'[n] = listing[n]
    BY <1>1
  <1>6. /\ listing' \in [Notes -> NoteListing] /\ swept' \in BOOLEAN /\ repaired' \in BOOLEAN
        /\ \A n \in Notes : listing[n].there \/ Holds(w, n) => listing'[n].there
        /\ \A n \in Notes : n \in dropped => n \in dropped' \/ listing'[n].there
        /\ \A n \in Notes : listing'[n].company = "prose" => listing[n].company = "prose"
        /\ stale \subseteq stale'
        /\ \A n \in Notes : listing'[n].email => email
    <2>1. listing' \in [Notes -> NoteListing]
      BY <1>1, <1>4, <1>5, InHand
    <2> QED
      BY <1>1, <1>3, <1>4, <1>5, <2>1, InHand
  <1>7. \A n \in Notes : email /\ Holds(w, n) => listing'[n].email \/ n \in stale'
    BY <1>1, <1>3, <1>4
  <1>8. /\ \A n \in Notes : listing[n].email => listing'[n].email \/ n \in stale'
        /\ swept' => email /\ \A n \in Notes : listing'[n].there => listing'[n].email \/ n \in stale'
    BY <1>1, <1>5, <1>7, InHand
  <1>9. \A n \in Notes : listing[n].ghost => listing'[n].ghost \/ n \in stale'
    BY <1>1, <1>5
  <1>10. repaired' => repaired \/ \A n \in Notes : listing'[n].company # "prose"
    BY <1>1
  <1> QED
    BY <1>1, <1>6, <1>8, <1>9, <1>10, ListingsAreWritten

LEMMA Backfills ==
    ASSUME NotesInv, NEW w \in Workers, BackfillPromoted(w)
    PROVE  NotesInv' /\ \A n \in Notes : listing[n].ghost => listing'[n].ghost \/ n \in stale'
  <1> DEFINE seen == worker[w].seen
             mended == BackfillRows(seen)
  <1>1. /\ Finish(w) /\ UNCHANGED <<row, email, dropped, repaired>>
        /\ worker[w].job = "backfill" /\ swept' = TRUE
        /\ listing' = [n \in Notes |-> IF n \in mended THEN Resignal(n, WithEmail(seen[n])) ELSE listing[n]]
        /\ stale' = stale \cup {n \in mended : listing[n].ghost /\ ~seen[n].ghost}
                    \cup {n \in There : ~seen[n].there /\ ~listing[n].email}
    BY DEF BackfillPromoted
  <1>2. seen \in Reading /\ email
    BY <1>1, InHand DEF AtWorkOn
  <1>3. mended = {n \in Notes : seen[n].there /\ ~seen[n].email}
    BY DEF BackfillRows
  <1> HIDE DEF seen, mended
  <1>4. \A n \in Notes : n \in mended =>
          /\ listing'[n] \in NoteListing /\ listing'[n].there = listing[n].there /\ listing'[n].email
          /\ listing'[n].company = listing[n].company /\ listing'[n].ghost = seen[n].ghost
    <2> TAKE n \in Notes
    <2> HAVE n \in mended
    <2>1. listing[n] \in NoteListing /\ seen[n] \in [there: BOOLEAN, email: BOOLEAN, ghost: BOOLEAN]
      BY <1>2, InHand DEF Reading
    <2>2. listing'[n] = Resignal(n, WithEmail(seen[n]))
      BY <1>1
    <2> QED
      BY <2>1, <2>2 DEF Resignal, WithEmail, NoteListing
  <1>5. \A n \in Notes : n \notin mended => listing'[n] = listing[n]
    BY <1>1
  <1>6. \A n \in Notes : Holds(w, n) => FALSE
    BY <1>1, InHand
  <1>7. listing' \in [Notes -> NoteListing]
    BY <1>1, <1>4, <1>5, InHand
  <1>8. /\ \A n \in Notes : listing[n].there \/ Holds(w, n) => listing'[n].there
        /\ \A n \in Notes : n \in dropped => n \in dropped' \/ listing'[n].there
        /\ \A n \in Notes : listing'[n].company = "prose" => listing[n].company = "prose"
        /\ stale \subseteq stale' /\ swept' \in BOOLEAN /\ repaired' \in BOOLEAN
        /\ \A n \in Notes : listing'[n].email => email
        /\ \A n \in Notes : listing[n].email => listing'[n].email \/ n \in stale'
    BY <1>1, <1>2, <1>4, <1>5, <1>6, InHand
  <1>9. ASSUME NEW n \in Notes, listing'[n].there PROVE listing'[n].email \/ n \in stale'
    <2>1. CASE n \in mended
      BY <2>1, <1>4
    <2>2. CASE n \notin mended /\ ~seen[n].there
      BY <1>1, <1>5, <1>9, <2>2 DEF There
    <2>3. CASE n \notin mended /\ seen[n].there
      <3>1. seen[n].email
        BY <1>3, <2>3
      <3>2. listing[n].email \/ n \in stale
        BY <1>1, <2>3, <3>1, InHand DEF seen
      <3> QED
        BY <1>1, <1>5, <2>3, <3>2
    <2> QED
      BY <2>1, <2>2, <2>3
  <1>10. \A n \in Notes : listing[n].ghost => listing'[n].ghost \/ n \in stale'
    BY <1>1, <1>4, <1>5
  <1>11. repaired' => repaired \/ \A n \in Notes : listing'[n].company # "prose"
    BY <1>1
  <1>12. swept' => email /\ \A n \in Notes : listing'[n].there => listing'[n].email \/ n \in stale'
    BY <1>2, <1>9
  <1> QED
    BY <1>1, <1>7, <1>8, <1>10, <1>11, <1>12, ListingsAreWritten

LEMMA Flags ==
    ASSUME NotesInv, NEW w \in Workers, FlagGhosts(w)
    PROVE  NotesInv' /\ \A n \in Notes : listing[n].ghost => listing'[n].ghost \/ n \in stale'
  <1> DEFINE seen == worker[w].seen
  <1>1. PICK matched \in SUBSET worker[w].todo :
          /\ listing' = [n \in Notes |-> IF n \in {m \in matched : ~seen[m].ghost}
                                         THEN Resignal(n, [seen[n] EXCEPT !.ghost = TRUE]) ELSE listing[n]]
          /\ stale' = stale \cup {n \in {m \in matched : ~seen[m].ghost} : listing[n].email /\ ~seen[n].email}
    BY DEF FlagGhosts
  <1> DEFINE mended == {m \in matched : ~seen[m].ghost}
  <1>2. Finish(w) /\ UNCHANGED <<row, email, dropped, swept, repaired>> /\ worker[w].job = "ghosts"
    BY DEF FlagGhosts
  <1>3. seen \in Reading /\ mended \subseteq Notes
    BY InHand DEF AtWorkOn
  <1>4. /\ listing' = [n \in Notes |-> IF n \in mended THEN Resignal(n, [seen[n] EXCEPT !.ghost = TRUE])
                                       ELSE listing[n]]
        /\ stale' = stale \cup {n \in mended : listing[n].email /\ ~seen[n].email}
    BY <1>1
  <1>5. \A n \in Notes : seen[n].email => email
    BY InHand
  <1> HIDE DEF seen, mended
  <1>6. \A n \in Notes : n \in mended =>
          /\ listing'[n] \in NoteListing /\ listing'[n].there = listing[n].there
          /\ listing'[n].email = seen[n].email
          /\ listing'[n].company = listing[n].company /\ listing'[n].ghost
    <2> TAKE n \in Notes
    <2> HAVE n \in mended
    <2>1. listing[n] \in NoteListing /\ seen[n] \in [there: BOOLEAN, email: BOOLEAN, ghost: BOOLEAN]
      BY <1>3, InHand DEF Reading
    <2>2. listing'[n] = Resignal(n, [seen[n] EXCEPT !.ghost = TRUE])
      BY <1>4
    <2> QED
      BY <2>1, <2>2 DEF Resignal, NoteListing
  <1>7. \A n \in Notes : n \notin mended => listing'[n] = listing[n]
    BY <1>4
  <1>8. \A n \in Notes : Holds(w, n) => FALSE
    BY <1>2, InHand
  <1>9. listing' \in [Notes -> NoteListing]
    BY <1>4, <1>6, <1>7, InHand
  <1>10. \A n \in Notes : listing[n].email => listing'[n].email \/ n \in stale'
    BY <1>4, <1>6, <1>7
  <1>11. /\ \A n \in Notes : listing[n].there \/ Holds(w, n) => listing'[n].there
         /\ \A n \in Notes : n \in dropped => n \in dropped' \/ listing'[n].there
         /\ \A n \in Notes : listing'[n].company = "prose" => listing[n].company = "prose"
         /\ stale \subseteq stale' /\ swept' \in BOOLEAN /\ repaired' \in BOOLEAN
         /\ \A n \in Notes : listing'[n].email => email
    BY <1>2, <1>4, <1>5, <1>6, <1>7, <1>8, InHand
  <1>12. \A n \in Notes : listing'[n].there = listing[n].there
    BY <1>6, <1>7
  <1>13. swept' => email /\ \A n \in Notes : listing'[n].there => listing'[n].email \/ n \in stale'
    BY <1>2, <1>4, <1>10, <1>12, InHand
  <1>14. repaired' => repaired \/ \A n \in Notes : listing'[n].company # "prose"
    BY <1>2
  <1>15. \A n \in Notes : listing[n].ghost => listing'[n].ghost \/ n \in stale'
    BY <1>6, <1>7
  <1> QED
    BY <1>2, <1>9, <1>10, <1>11, <1>13, <1>14, <1>15, ListingsAreWritten

LEMMA ClosuresAndNames ==
    ASSUME NotesInv, NEW w \in Workers, DeactivateAged(w) \/ Rename(w)
    PROVE  NotesInv' /\ \A n \in Notes : listing[n].ghost => listing'[n].ghost \/ n \in stale'
  <1>1. /\ Finish(w) /\ UNCHANGED <<row, email, dropped, swept, stale>>
        /\ worker[w].job \in {"expiry", "repair"}
    BY DEF DeactivateAged, Rename
  <1>2. \A n \in Notes :
          /\ listing'[n] \in NoteListing /\ listing'[n].there = listing[n].there
          /\ listing'[n].email = listing[n].email /\ listing'[n].ghost = listing[n].ghost
          /\ listing'[n].company \in {listing[n].company, "confidential"}
    <2> TAKE n \in Notes
    <2>1. listing[n] \in NoteListing
      BY InHand
    <2>2. listing'[n] \in {listing[n], [listing[n] EXCEPT !.active = FALSE],
                           [listing[n] EXCEPT !.company = "confidential"]}
      BY DEF DeactivateAged, Rename
    <2> QED
      BY <2>1, <2>2 DEF NoteListing, Names
  <1>3. listing' \in [Notes -> NoteListing]
    <2>1. listing' = [n \in Notes |-> listing'[n]]
      BY DEF DeactivateAged, Rename
    <2> QED
      BY <1>2, <2>1
  <1>4. repaired' \in BOOLEAN /\ (repaired' => repaired \/ \A n \in Notes : listing'[n].company # "prose")
    <2>1. CASE DeactivateAged(w)
      BY <2>1, InHand DEF DeactivateAged
    <2>2. CASE Rename(w)
      <3>1. \A n \in Notes : listing[n].company = "prose" => n \in worker[w].todo
        BY <2>2, InHand DEF Rename
      <3>2. \A n \in Notes : listing'[n].company # "prose"
        BY <2>2, <3>1, InHand DEF Rename, NoteListing
      <3> QED
        BY <2>2, <3>2 DEF Rename
    <2> QED
      BY <2>1, <2>2
  <1>5. /\ \A n \in Notes : listing[n].there \/ Holds(w, n) => listing'[n].there
        /\ \A n \in Notes : n \in dropped => n \in dropped' \/ listing'[n].there
        /\ \A n \in Notes : listing'[n].company = "prose" => listing[n].company = "prose"
        /\ stale \subseteq stale' /\ swept' \in BOOLEAN
        /\ \A n \in Notes : listing'[n].email => email
        /\ \A n \in Notes : listing[n].email => listing'[n].email \/ n \in stale'
        /\ swept' => email /\ \A n \in Notes : listing'[n].there => listing'[n].email \/ n \in stale'
    BY <1>1, <1>2, InHand
  <1> QED
    BY <1>1, <1>2, <1>3, <1>4, <1>5, ListingsAreWritten

\* What a later job found out stays on the board: a post marked as promoted has its Listing
\* or is on its way to it, no Listing keeps prose for a name after a repair, a harvested email
\* reaches every Listing, and a match stays, but for signals written from an older reading.
THEOREM PromotionsStay == NotesSpec => PromotionsAreKept
  <1>1. NotesInit => NotesInv
    <2> SUFFICES ASSUME NotesInit PROVE NotesInv
      OBVIOUS
    <2>1. PICK old \in SUBSET Notes :
            /\ row = [n \in Notes |-> IF n \in old THEN [status |-> "promoted", result |-> "prose"]
                                      ELSE [status |-> "pending", result |-> "none"]]
            /\ listing = [n \in Notes |-> IF n \in old THEN OldListing ELSE NoListing]
      BY DEF NotesInit
    <2>2. \A w \in Workers : worker[w] = Free
      BY DEF NotesInit
    <2>3. NotesTyped
      <3>1. row \in [Notes -> Verdict] /\ listing \in [Notes -> NoteListing]
        BY <2>1 DEF Verdict, NoteListing, OldListing, NoListing, Names, Results, Mandates
      <3> QED
        BY <3>1, FreeIsAWorker DEF NotesTyped, NotesInit
    <2>4. OnTheWay
      BY <2>1, <2>2, FreeHoldsNothing DEF OnTheWay, OldListing
    <2>5. Misnamed
      BY <2>1, <2>2, FreeIsAWorker DEF Misnamed, NotesInit, OldListing, NoListing
    <2>6. Mailed
      BY <2>1, <2>2, FreeIsAWorker DEF Mailed, NotesInit, OldListing, NoListing
    <2> QED
      BY <2>3, <2>4, <2>5, <2>6 DEF NotesInv
  <1>2. NotesInv /\ [NotesNext]_noteVars =>
          /\ NotesInv'
          /\ \A n \in Notes : listing[n].ghost => listing'[n].ghost \/ n \in stale'
    <2> SUFFICES ASSUME NotesInv, [NotesNext]_noteVars
                 PROVE  /\ NotesInv'
                        /\ \A n \in Notes : listing[n].ghost => listing'[n].ghost \/ n \in stale'
      OBVIOUS
    <2>1. CASE NotesNext
      <3>1. PICK w \in Workers :
              \/ FetchPending(w) \/ Extract(w) \/ SetStatus(w) \/ AuthFails(w) \/ StoreListings(w)
              \/ HarvestEmail(w) \/ BackfillPromoted(w) \/ ReadForGhosts(w) \/ FlagGhosts(w)
              \/ SelectAged(w) \/ DeactivateAged(w) \/ SelectMisnamed(w) \/ Rename(w)
              \/ Die(w)
        BY <2>1 DEF NotesNext
      <3>2. CASE FetchPending(w) \/ ReadForGhosts(w) \/ SelectAged(w) \/ SelectMisnamed(w)
        <4>1. UNCHANGED listing
          BY <3>2 DEF FetchPending, ReadForGhosts, SelectAged, SelectMisnamed
        <4> QED
          BY <3>2, <4>1, JobsBegin
      <3>3. CASE Extract(w) \/ SetStatus(w) \/ AuthFails(w) \/ HarvestEmail(w) \/ Die(w)
        <4>1. UNCHANGED listing
          BY <3>3 DEF Extract, SetStatus, AuthFails, HarvestEmail, Die
        <4> QED
          BY <3>3, <4>1, Extractions, StatusesSet, AuthFailures, Harvests, Deaths
      <3>4. CASE StoreListings(w) \/ BackfillPromoted(w) \/ FlagGhosts(w)
        BY <3>4, Stores, Backfills, Flags
      <3>5. CASE DeactivateAged(w) \/ Rename(w)
        BY <3>5, ClosuresAndNames
      <3> QED
        BY <3>1, <3>2, <3>3, <3>4, <3>5
    <2>2. CASE UNCHANGED noteVars
      BY <2>2 DEF noteVars, NotesInv, NotesTyped, OnTheWay, Misnamed, Mailed, Holds
    <2> QED
      BY <2>1, <2>2
  <1>3. NotesInv => PromotedPostsAreListed /\ NoProseForAName /\ EmailsReachTheListings
    BY DEF NotesInv, OnTheWay, Misnamed, Mailed, PromotedPostsAreListed, NoProseForAName,
           EmailsReachTheListings, Held, There
  <1>4. NotesInv /\ [NotesNext]_noteVars =>
          [\A n \in Notes : listing[n].ghost => listing'[n].ghost \/ n \in stale']_noteVars
    BY <1>2
  <1> QED
    BY <1>1, <1>2, <1>3, <1>4, PTL DEF NotesSpec, PromotionsAreKept, MatchesAreKept

-----------------------------------------------------------------------------
(* Posts fetched (PostFetching).                                           *)

Targets == Recruiters \cup {Query}
RunAtWork == [job: {"none", "watchlist", "backfill", "discovery", "harvest"},
              step: {"idle", "claim", "check", "call", "log", "store", "stamp"},
              todo: SUBSET Targets, who: Targets, read: Nat, got: SUBSET Posts,
              items: 0..Page, index: Nat]

FetchTyped ==
    /\ today \in Nat /\ cadence \in Nat /\ logged \in Nat /\ turns \in Nat /\ billed \in Int
    /\ posted \in [Posts -> [by: Targets, at: Nat]]
    /\ status \in [Posts -> {"absent", "pending", "settled"}]
    /\ watermark \in [Recruiters -> Nat] /\ fetch \in [Runs -> RunAtWork] /\ overlap \in BOOLEAN

\* A run that stamps watermarks goes by recruiters, and only what waits for its log is unpaid.
WellFormed(f) ==
    /\ f.job = "none" => f.step = "idle" /\ f.todo = {}
    /\ f.job \in Stamped => f.todo \subseteq Recruiters
    /\ f.job \in Stamped /\ f.step \in {"call", "log", "store", "stamp"} => f.who \in Recruiters
    /\ f.step = "stamp" => f.job \in Stamped
    /\ f.items # 0 => f.step = "log"

\* With an answer in hand, a run has all posts of its recruiter older than its reading, but
\* for the excused ones; before the stamp they are stored.
Caught(f) ==
    f.job \in Stamped /\ f.step \in {"log", "store", "stamp"} =>
        /\ f.read <= today
        /\ \A p \in Posts :
             Published(p) /\ posted[p].by = f.who /\ status[p] = "absent" /\ p \notin excused
               => posted[p].at >= f.read \/ (f.step # "stamp" /\ p \in f.got)

PostsInv ==
    /\ \A p \in Posts : posted[p].at <= today /\ (Published(p) => posted[p].by \in Recruiters)
    /\ \A r \in Recruiters : watermark[r] <= today
    /\ NoPostFallsBetweenPolls
    /\ \A x \in Runs : Caught(fetch[x])

\* Results billed and not yet logged, one by one: what is billed is logged or among them.
Unlogged == {q \in Runs \X (1..Page) : q[2] <= fetch[q[1]].items}
Calling == {x \in Runs : fetch[x].step = "call"}

\* A run on its way to a call has found the log below the cap and may still cost a page.
SpendInv ==
    /\ billed = logged + Cardinality(Unlogged)
    /\ billed + Cardinality(Calling) * Page < Cap + Cardinality(Runs) * Page

\* Without an overlap one run at most is between its reading and its writing of the counter.
CadenceInv ==
    ~overlap =>
      /\ turns * Interval \in cadence .. cadence + Interval - 1
      /\ \A x \in Runs : fetch[x].step = "claim" =>
           fetch[x].index = cadence /\ \A y \in Runs : fetch[y].step = "claim" => y = x

FetchInv ==
    /\ FetchTyped /\ (\A x \in Runs : WellFormed(fetch[x]))
    /\ PostsInv /\ SpendInv /\ CadenceInv

\* Arithmetic of the cadence: a turn at every multiple of the interval.
LEMMA Multiples ==
    ASSUME NEW a \in Int, NEW n \in Nat \ {0}
    PROVE  (a >= 1 => a * n >= n) /\ (a <= -1 => a * n <= -n) /\ (a <= 0 => a * n <= 0)
  BY SMT

LEMMA NextTurn ==
    ASSUME NEW c \in Nat, NEW t \in Nat, t * Interval \in c .. c + Interval - 1
    PROVE  (t + (IF c % Interval = 0 THEN 1 ELSE 0)) * Interval \in c + 1 .. c + Interval
  <1> DEFINE n == Interval  q == c \div n  m == c % n  a == t - q
  <1>1. n \in Nat \ {0}
    BY FetchingAssumption
  <1> HIDE DEF n
  <1>2. q \in Nat /\ m \in Nat /\ m < n /\ c = n * q + m
    BY <1>1, SMT
  <1> HIDE DEF q, m
  <1>3. a \in Int /\ t * n = n * q + a * n /\ t * n \in Int /\ n * q \in Int /\ a * n \in Int
    BY <1>1, <1>2, SMT
  <1>4. (t + 1) * n = t * n + n /\ (t + 0) * n = t * n
    BY <1>1, SMT
  <1>5. (a >= 1 => a * n >= n) /\ (a <= -1 => a * n <= -n) /\ (a <= 0 => a * n <= 0)
    BY <1>1, <1>3, Multiples
  <1>6. t * n >= c /\ t * n <= c + n - 1
    BY <1>1, <1>3 DEF n
  <1> HIDE DEF a
  <1>7. CASE m = 0
    <2>1. a = 0
      BY <1>1, <1>2, <1>3, <1>5, <1>6, <1>7
    <2>2. a * n = 0 /\ n * q + 0 = n * q
      BY <1>1, <1>3, <2>1
    <2>3. t * n = c
      BY <1>2, <1>3, <1>7, <2>2
    <2>4. (t + 1) * n \in c + 1 .. c + n
      BY <1>1, <1>4, <2>3
    <2> QED
      BY <1>7, <2>4 DEF n, m
  <1>8. CASE m # 0
    <2>1. t * n # c
      BY <1>1, <1>2, <1>3, <1>5, <1>8
    <2>2. (t + 0) * n \in c + 1 .. c + n
      BY <1>1, <1>3, <1>4, <1>6, <2>1
    <2> QED
      BY <1>8, <2>2 DEF n, m
  <1> QED
    BY <1>7, <1>8

LEMMA Bounds ==
    /\ Page \in Nat \ {0} /\ Cap \in Nat /\ Interval \in Nat \ {0}
    /\ IsFiniteSet(Runs) /\ Cardinality(Runs) \in Nat /\ Cardinality(Runs) >= 1
    /\ Query \in Targets /\ Query \notin Recruiters /\ AtDesk \in RunAtWork
    /\ AtDesk.job = "none" /\ AtDesk.step = "idle" /\ AtDesk.items = 0
  <1>1. Cardinality(Runs) \in Nat /\ Cardinality(Runs) # 0
    BY FetchingAssumption, FS_CardinalityType, FS_EmptySet
  <1> QED
    BY <1>1, FetchingAssumption DEF AtDesk, RunAtWork, Targets

\* Only the run that takes a step changes.
LEMMA OneRunMoves ==
    ASSUME FetchTyped, NEW x \in Runs, NEW f \in RunAtWork, fetch' = [fetch EXCEPT ![x] = f]
    PROVE  /\ fetch' \in [Runs -> RunAtWork] /\ fetch'[x] = f
           /\ \A y \in Runs : y # x => fetch'[y] = fetch[y]
  BY DEF FetchTyped

\* The results one run has not logged, as pairs.
LEMMA OwnItems ==
    ASSUME NEW x, NEW n \in 0..Page
    PROVE  IsFiniteSet({x} \X (1..n)) /\ Cardinality({x} \X (1..n)) = n
  <1>1. n \in Nat /\ IsFiniteSet(1..n) /\ Cardinality(1..n) = n
    BY Bounds, FS_Interval, SMTT(30)
  <1>2. IsFiniteSet({x}) /\ Cardinality({x}) = 1
    BY FS_Singleton
  <1> QED
    BY <1>1, <1>2, FS_Product

\* When one run moves, what is unlogged changes by its own results.
LEMMA UnloggedMoves ==
    ASSUME FetchTyped, NEW x \in Runs, NEW f \in RunAtWork, fetch' = [fetch EXCEPT ![x] = f]
    PROVE  /\ IsFiniteSet(Unlogged) /\ IsFiniteSet(Unlogged')
           /\ Cardinality(Unlogged) \in Nat /\ Cardinality(Unlogged') \in Nat
           /\ Cardinality(Unlogged') = Cardinality(Unlogged) - fetch[x].items + f.items
  <1> DEFINE own == {x} \X (1..fetch[x].items)
             new == {x} \X (1..f.items)
             rest == Unlogged \ own
  <1>1. fetch[x].items \in 0..Page /\ f.items \in 0..Page /\ fetch[x].items \in Nat /\ f.items \in Nat
    BY Bounds DEF FetchTyped, RunAtWork
  <1>2. /\ IsFiniteSet(own) /\ Cardinality(own) = fetch[x].items
        /\ IsFiniteSet(new) /\ Cardinality(new) = f.items
    BY <1>1, OwnItems
  <1>3. IsFiniteSet(Runs \X (1..Page))
    <2>1. IsFiniteSet(1..Page)
      BY Bounds, FS_Interval
    <2> QED
      BY <2>1, Bounds, FS_Product
  <1>4. Unlogged \subseteq Runs \X (1..Page) /\ Unlogged' \subseteq Runs \X (1..Page)
    BY DEF Unlogged
  <1>5. /\ IsFiniteSet(Unlogged) /\ IsFiniteSet(Unlogged')
        /\ Cardinality(Unlogged) \in Nat /\ Cardinality(Unlogged') \in Nat
    BY <1>3, <1>4, FS_Subset, FS_CardinalityType
  <1>6. own \subseteq Unlogged
    <2> SUFFICES ASSUME NEW q \in own PROVE q \in Unlogged
      OBVIOUS
    <2>1. q = <<x, q[2]>> /\ q[1] = x /\ q[2] \in 1..fetch[x].items
      OBVIOUS
    <2>2. q[2] \in 1..Page /\ q[2] <= fetch[x].items
      BY <1>1, <2>1, Bounds
    <2>3. <<x, q[2]>> \in Runs \X (1..Page)
      BY <2>2
    <2> QED
      BY <2>1, <2>2, <2>3 DEF Unlogged
  <1>7. rest = {q \in Runs \X (1..Page) : q[1] # x /\ q[2] <= fetch[q[1]].items}
    <2>1. ASSUME NEW q \in Runs \X (1..Page), q[1] = x, q[2] <= fetch[q[1]].items PROVE q \in own
      <3>1. q = <<x, q[2]>> /\ q[2] \in 1..Page
        BY <2>1
      <3>2. q[2] \in 1..fetch[x].items
        BY <1>1, <2>1, <3>1, Bounds
      <3> QED
        BY <3>1, <3>2
    <2>2. \A q \in own : q[1] = x
      OBVIOUS
    <2> QED
      BY <2>1, <2>2 DEF Unlogged
  <1>8. Unlogged' = rest \cup new
    <2>1. \A q \in Runs \X (1..Page) : q[1] # x => fetch'[q[1]] = fetch[q[1]]
      BY OneRunMoves
    <2>2. fetch'[x] = f
      BY OneRunMoves
    <2>3. ASSUME NEW q \in Runs \X (1..Page), q[1] = x, q[2] <= f.items PROVE q \in new
      <3>1. q = <<x, q[2]>> /\ q[2] \in 1..Page
        BY <2>3
      <3>2. q[2] \in 1..f.items
        BY <1>1, <2>3, <3>1, Bounds
      <3> QED
        BY <3>1, <3>2
    <2>4. ASSUME NEW q \in new PROVE q \in Runs \X (1..Page) /\ q[1] = x /\ q[2] <= f.items
      <3>1. q = <<x, q[2]>> /\ q[1] = x /\ q[2] \in 1..f.items
        OBVIOUS
      <3>2. q[2] \in 1..Page /\ q[2] <= f.items
        BY <1>1, <3>1, Bounds
      <3> QED
        BY <3>1, <3>2
    <2>5. Unlogged' = {q \in Runs \X (1..Page) : q[2] <= fetch'[q[1]].items}
      BY DEF Unlogged
    <2> HIDE DEF new, rest
    <2>6. \A q \in Unlogged' : q \in rest \cup new
      BY <1>7, <2>1, <2>2, <2>3, <2>5
    <2>7. \A q \in rest \cup new : q \in Unlogged'
      BY <1>7, <2>1, <2>2, <2>4, <2>5
    <2> QED
      BY <2>6, <2>7
  <1>9. rest \cap new = {}
    <2>1. \A q \in new : q[1] = x
      OBVIOUS
    <2> QED
      BY <1>7, <2>1
  <1>10. IsFiniteSet(rest) /\ Cardinality(rest) = Cardinality(Unlogged) - fetch[x].items
    <2>1. Unlogged \cap own = own
      BY <1>6
    <2> HIDE DEF own
    <2>2. IsFiniteSet(Unlogged \ own) /\ Cardinality(Unlogged \ own) = Cardinality(Unlogged) - Cardinality(own)
      BY <1>5, <2>1, FS_Difference
    <2> QED
      BY <1>2, <2>2
  <1> HIDE DEF rest, new, own
  <1>11. Cardinality(rest \cup new) = Cardinality(rest) + Cardinality(new) - 0
    BY <1>2, <1>9, <1>10, FS_Union, FS_EmptySet
  <1> QED
    BY <1>1, <1>2, <1>5, <1>8, <1>10, <1>11

\* What a run's step has to keep: what was stored stays stored, a watermark is not moved past
\* a post that is missing, and an answer in hand is complete.
LEMMA PostsMove ==
    ASSUME FetchTyped, PostsInv, NEW x \in Runs, NEW f \in RunAtWork, fetch' = [fetch EXCEPT ![x] = f],
           today' = today, posted' = posted,
           \A p \in Posts : status'[p] = "absent" => status[p] = "absent" /\ (p \in excused => p \in excused'),
           \A r \in Recruiters : watermark'[r] <= today,
           \A p \in Posts : Published(p) /\ status'[p] = "absent" /\ p \notin excused'
               => posted[p].at >= watermark'[posted[p].by],
           f.job \in Stamped /\ f.step \in {"log", "store", "stamp"} =>
               /\ f.read <= today
               /\ \A p \in Posts :
                    Published(p) /\ posted[p].by = f.who /\ status'[p] = "absent" /\ p \notin excused'
                      => posted[p].at >= f.read \/ (f.step # "stamp" /\ p \in f.got)
    PROVE  PostsInv'
  <1>1. (\A p \in Posts : posted[p].at <= today /\ (Published(p) => posted[p].by \in Recruiters))'
    BY DEF PostsInv, Published
  <1>2. NoPostFallsBetweenPolls'
    BY DEF NoPostFallsBetweenPolls, Published
  <1>3. ASSUME NEW y \in Runs PROVE Caught(fetch[y])'
    <2>1. CASE y = x
      <3>1. fetch'[y] = f
        BY <2>1, OneRunMoves
      <3> QED
        BY <3>1 DEF Caught, Published
    <2>2. CASE y # x
      <3>1. fetch'[y] = fetch[y]
        BY <2>2, OneRunMoves
      <3>2. Caught(fetch[y])
        BY DEF PostsInv
      <3> QED
        BY <3>1, <3>2 DEF Caught, Published
    <2> QED
      BY <2>1, <2>2
  <1> QED
    BY <1>1, <1>2, <1>3 DEF PostsInv

LEMMA PostsRest ==
    ASSUME FetchTyped, PostsInv, NEW x \in Runs, NEW f \in RunAtWork, fetch' = [fetch EXCEPT ![x] = f],
           UNCHANGED <<today, posted, status, watermark, excused>>,
           f.step \notin {"log", "store", "stamp"}
    PROVE  PostsInv'
  <1>1. /\ \A r \in Recruiters : watermark'[r] <= today
        /\ \A p \in Posts : Published(p) /\ status'[p] = "absent" /\ p \notin excused'
              => posted[p].at >= watermark'[posted[p].by]
    BY DEF PostsInv, NoPostFallsBetweenPolls
  <1> QED
    BY <1>1, PostsMove

\* A run that goes to a call saw a log below the cap; any other step bills a page at most,
\* out of a call.
LEMMA SpendMoves ==
    ASSUME FetchTyped, SpendInv, NEW x \in Runs, NEW f \in RunAtWork, fetch' = [fetch EXCEPT ![x] = f],
           \A y \in Runs : WellFormed(fetch[y]),
           billed' \in Int, logged' \in Nat,
           billed' - logged' = billed - logged - fetch[x].items + f.items,
           \/ /\ f.step = "call" /\ f.items = 0 /\ fetch[x].step = "check"
              /\ billed' = billed /\ logged' = logged /\ logged < Cap
           \/ f.step # "call" /\ billed' <= billed + (IF fetch[x].step = "call" THEN Page ELSE 0)
    PROVE  SpendInv'
  <1>1. /\ IsFiniteSet(Unlogged) /\ Cardinality(Unlogged) \in Nat /\ Cardinality(Unlogged') \in Nat
        /\ Cardinality(Unlogged') = Cardinality(Unlogged) - fetch[x].items + f.items
    BY UnloggedMoves
  <1>2. /\ billed \in Int /\ logged \in Nat /\ fetch[x].items \in Nat /\ f.items \in Nat
        /\ f.items <= Page /\ Page \in Nat \ {0} /\ Cap \in Nat /\ Cardinality(Runs) \in Nat
    BY Bounds DEF FetchTyped, RunAtWork
  <1>3. billed' = logged' + Cardinality(Unlogged')
    BY <1>1, <1>2 DEF SpendInv
  <1>4. /\ Calling \subseteq Runs /\ Calling' \subseteq Runs /\ IsFiniteSet(Runs)
    BY Bounds DEF Calling
  <1>5. /\ IsFiniteSet(Calling) /\ IsFiniteSet(Calling')
        /\ Cardinality(Calling) \in Nat /\ Cardinality(Calling') \in Nat
    BY <1>4, FS_Subset, FS_CardinalityType
  <1>6. Calling' = IF f.step = "call" THEN Calling \cup {x} ELSE Calling \ {x}
    BY OneRunMoves DEF Calling
  <1>7. CASE /\ f.step = "call" /\ f.items = 0 /\ fetch[x].step = "check"
             /\ billed' = billed /\ logged' = logged /\ logged < Cap
    <2> DEFINE L == {y \in Runs : fetch[y].items # 0}
    <2>1. \A y \in L : fetch[y].step = "log"
      BY DEF WellFormed
    <2>2. L \cap Calling' = {}
      BY <1>6, <1>7, <2>1 DEF Calling
    <2>3. L \subseteq Runs /\ IsFiniteSet(L) /\ Cardinality(L) \in Nat
      BY Bounds, FS_Subset, FS_CardinalityType
    <2>4. Unlogged \subseteq L \X (1..Page)
      <3> SUFFICES ASSUME NEW q \in Unlogged PROVE q \in L \X (1..Page)
        OBVIOUS
      <3>1. q \in Runs \X (1..Page) /\ q[2] <= fetch[q[1]].items
        BY DEF Unlogged
      <3>2. q = <<q[1], q[2]>> /\ q[1] \in Runs /\ q[2] \in 1..Page
        BY <3>1
      <3>3. fetch[q[1]].items # 0
        BY <1>2, <3>1, <3>2
      <3> QED
        BY <3>2, <3>3
    <2> HIDE DEF L
    <2>5. IsFiniteSet(1..Page) /\ Cardinality(1..Page) = Page
      <3>1. Page \in Int /\ 1 \in Int /\ ~(1 > Page) /\ Page - 1 + 1 = Page
        BY <1>2
      <3> HIDE DEF L
      <3> QED
        BY <3>1, FS_Interval
    <2>6. IsFiniteSet(L \X (1..Page)) /\ Cardinality(L \X (1..Page)) = Cardinality(L) * Page
      BY <2>3, <2>5, FS_Product
    <2>7. Cardinality(Unlogged) <= Cardinality(L) * Page
      BY <2>4, <2>6, FS_Subset
    <2>8. Cardinality(L \cup Calling') = Cardinality(L) + Cardinality(Calling')
      <3>1. Cardinality(L \cap Calling') = 0
        BY <2>2, FS_EmptySet
      <3>2. Cardinality(L \cup Calling') = Cardinality(L) + Cardinality(Calling') - Cardinality(L \cap Calling')
        BY <1>5, <2>3, FS_Union
      <3> QED
        BY <1>5, <2>3, <3>1, <3>2
    <2>9. Cardinality(L \cup Calling') <= Cardinality(Runs)
      BY <1>4, <2>3, FS_Subset
    <2>10. (Cardinality(L) + Cardinality(Calling')) * Page <= Cardinality(Runs) * Page
      <3> DEFINE l == Cardinality(L) + Cardinality(Calling')  r == Cardinality(Runs)
      <3>1. l \in Nat /\ r \in Nat /\ l <= r
        BY <1>2, <1>5, <2>3, <2>8, <2>9
      <3> HIDE DEF l, r
      <3>2. l * Page <= r * Page
        BY <1>2, <3>1, SMT
      <3> QED
        BY <3>2 DEF l, r
    <2>11. /\ (Cardinality(L) + Cardinality(Calling')) * Page
                 = Cardinality(L) * Page + Cardinality(Calling') * Page
           /\ Cardinality(L) * Page \in Nat /\ Cardinality(Calling') * Page \in Nat
           /\ Cardinality(Runs) * Page \in Nat
      <3> DEFINE l == Cardinality(L)  k == Cardinality(Calling')  r == Cardinality(Runs)
      <3>1. l \in Nat /\ k \in Nat /\ r \in Nat
        BY <1>2, <1>5, <2>3
      <3> HIDE DEF l, k, r
      <3>2. (l + k) * Page = l * Page + k * Page /\ l * Page \in Nat /\ k * Page \in Nat /\ r * Page \in Nat
        BY <1>2, <3>1, SMT
      <3> QED
        BY <3>2 DEF l, k, r
    <2>12. billed + Cardinality(Calling') * Page < Cap + Cardinality(Runs) * Page
      BY <1>1, <1>2, <1>7, <2>7, <2>10, <2>11 DEF SpendInv
    <2> QED
      BY <1>3, <1>7, <2>12 DEF SpendInv
  <1>8. CASE f.step # "call" /\ billed' <= billed + (IF fetch[x].step = "call" THEN Page ELSE 0)
    <2>1. Calling' = Calling \ {x}
      BY <1>6, <1>8
    <2>2. x \in Calling <=> fetch[x].step = "call"
      BY DEF Calling
    <2>3. Cardinality(Calling') = IF fetch[x].step = "call" THEN Cardinality(Calling) - 1 ELSE Cardinality(Calling)
      BY <1>5, <2>1, <2>2, FS_RemoveElement
    <2>4. Cardinality(Calling) * Page
             = Cardinality(Calling') * Page + (IF fetch[x].step = "call" THEN Page ELSE 0)
          /\ Cardinality(Calling') * Page \in Nat /\ Cardinality(Runs) * Page \in Nat
      <3> DEFINE l == Cardinality(Calling)  k == Cardinality(Calling')  r == Cardinality(Runs)
      <3>1. l \in Nat /\ k \in Nat /\ r \in Nat /\ l = k + (IF fetch[x].step = "call" THEN 1 ELSE 0)
        BY <1>2, <1>5, <2>3
      <3> HIDE DEF l, k, r
      <3>2. (k + 1) * Page = k * Page + Page /\ (k + 0) * Page = k * Page + 0
            /\ k * Page \in Nat /\ r * Page \in Nat
        BY <1>2, <3>1, SMT
      <3>3. l * Page = k * Page + (IF fetch[x].step = "call" THEN Page ELSE 0)
        BY <3>1, <3>2
      <3> QED
        BY <3>2, <3>3 DEF l, k, r
    <2>5. billed' + Cardinality(Calling') * Page < Cap + Cardinality(Runs) * Page
      BY <1>2, <1>8, <2>4 DEF SpendInv
    <2> QED
      BY <1>3, <2>5 DEF SpendInv
  <1> QED
    BY <1>7, <1>8

LEMMA CadenceRests ==
    ASSUME FetchTyped, CadenceInv, NEW x \in Runs, NEW f \in RunAtWork, fetch' = [fetch EXCEPT ![x] = f],
           UNCHANGED <<cadence, turns, overlap>>, f.step # "claim"
    PROVE  CadenceInv'
  <1>1. \A y \in Runs : fetch'[y].step = "claim" => fetch[y].step = "claim" /\ fetch'[y] = fetch[y]
    <2> TAKE y \in Runs
    <2> HAVE fetch'[y].step = "claim"
    <2>1. CASE y = x
      BY <2>1, OneRunMoves
    <2>2. CASE y # x
      BY <2>2, OneRunMoves
    <2> QED
      BY <2>1, <2>2
  <1> QED
    BY <1>1 DEF CadenceInv

\* A step of a run at its targets.
LEMMA RunSteps ==
    ASSUME FetchInv, NEW x \in Runs, NEW f \in RunAtWork, fetch' = [fetch EXCEPT ![x] = f],
           UNCHANGED <<today, posted, cadence, turns, overlap>>, f.step # "claim", WellFormed(f),
           status' \in [Posts -> {"absent", "pending", "settled"}],
           watermark' \in [Recruiters -> Nat], PostsInv',
           billed' \in Int, logged' \in Nat,
           billed' - logged' = billed - logged - fetch[x].items + f.items,
           \/ /\ f.step = "call" /\ f.items = 0 /\ fetch[x].step = "check"
              /\ billed' = billed /\ logged' = logged /\ logged < Cap
           \/ f.step # "call" /\ billed' <= billed + (IF fetch[x].step = "call" THEN Page ELSE 0)
    PROVE  FetchInv'
  <1>1. FetchTyped /\ SpendInv /\ CadenceInv /\ \A y \in Runs : WellFormed(fetch[y])
    BY DEF FetchInv
  <1>2. FetchTyped'
    BY <1>1, OneRunMoves DEF FetchTyped
  <1>3. ASSUME NEW y \in Runs PROVE WellFormed(fetch'[y])
    <2>1. CASE y = x
      BY <1>1, <2>1, OneRunMoves
    <2>2. CASE y # x
      BY <1>1, <2>2, OneRunMoves
    <2> QED
      BY <2>1, <2>2
  <1>4. SpendInv'
    BY <1>1, SpendMoves
  <1>5. CadenceInv'
    BY <1>1, CadenceRests
  <1>6. \A y \in Runs : WellFormed(fetch[y])'
    BY <1>3 DEF WellFormed
  <1> QED
    BY <1>2, <1>4, <1>5, <1>6 DEF FetchInv

\* Where a run stands.
LEMMA AtStep ==
    ASSUME FetchInv, NEW x \in Runs
    PROVE  /\ FetchTyped /\ PostsInv /\ fetch \in [Runs -> RunAtWork] /\ fetch[x] \in RunAtWork
           /\ WellFormed(fetch[x]) /\ Caught(fetch[x])
           /\ billed \in Int /\ logged \in Nat /\ fetch[x].items \in Nat
           /\ (fetch[x].step # "log" => fetch[x].items = 0)
           /\ status \in [Posts -> {"absent", "pending", "settled"}] /\ watermark \in [Recruiters -> Nat]
  BY Bounds DEF FetchInv, FetchTyped, PostsInv, WellFormed, RunAtWork

LEMMA OnwardIs ==
    ASSUME NEW f \in RunAtWork, WellFormed(f), f.job # "none"
    PROVE  /\ Onward(f) \in RunAtWork /\ WellFormed(Onward(f))
           /\ Onward(f).items = 0 /\ Onward(f).step \in {"idle", "check"}
  <1>1. CASE f.todo \subseteq {f.who}
    BY <1>1, Bounds DEF Onward, AtDesk, RunAtWork, WellFormed, Stamped
  <1>2. CASE ~(f.todo \subseteq {f.who})
    BY <1>2, Bounds DEF Onward, AtDesk, RunAtWork, WellFormed, Stamped
  <1> QED
    BY <1>1, <1>2

LEMMA DeskIs == WellFormed(AtDesk)
  BY DEF WellFormed, AtDesk, Stamped

\* A run between two targets, or at its end, with nothing stored.
LEMMA RunsLetGo ==
    ASSUME FetchInv, NEW x \in Runs, NEW f \in RunAtWork, fetch' = [fetch EXCEPT ![x] = f],
           f.items = 0, f.step \in {"idle", "check"}, WellFormed(f),
           UNCHANGED <<today, posted, status, watermark, cadence, logged, turns, overlap, excused>>,
           billed' = billed - fetch[x].items
    PROVE  FetchInv'
  <1>1. PostsInv'
    BY AtStep, PostsRest
  <1>2. billed' \in Int /\ billed' <= billed + (IF fetch[x].step = "call" THEN Page ELSE 0)
        /\ logged' \in Nat /\ billed' - logged' = billed - logged - fetch[x].items + f.items
    BY AtStep, Bounds
  <1>3. f.step # "call" /\ f.step # "claim"
    OBVIOUS
  <1>4. status' \in [Posts -> {"absent", "pending", "settled"}] /\ watermark' \in [Recruiters -> Nat]
    BY AtStep
  <1> QED
    BY <1>1, <1>2, <1>3, <1>4, RunSteps

\* A run lost at a step: its target fails, its token is rejected, or its process dies.
LEMMA RunsFail ==
    ASSUME FetchInv, NEW x \in Runs, RejectToken(x) \/ TargetFails(x) \/ DieFetching(x)
    PROVE  FetchInv'
  <1>1. fetch[x] \in RunAtWork /\ WellFormed(fetch[x]) /\ billed \in Int
    BY AtStep
  <1>2. UNCHANGED <<today, posted, status, watermark, cadence, logged, turns, overlap, excused>>
    BY DEF RejectToken, TargetFails, DieFetching, fetchTables, fetchHistory
  <1>3. billed' = billed - fetch[x].items
    BY <1>1, AtStep DEF RejectToken, TargetFails, DieFetching, fetchHistory
  <1>4. CASE RejectToken(x) \/ DieFetching(x)
    <2>1. fetch' = [fetch EXCEPT ![x] = AtDesk]
      BY <1>4 DEF RejectToken, DieFetching
    <2> QED
      BY <1>2, <1>3, <2>1, Bounds, DeskIs, RunsLetGo
  <1>5. CASE TargetFails(x)
    <2>1. fetch' = [fetch EXCEPT ![x] = Onward(fetch[x])] /\ fetch[x].job # "none"
      BY <1>1, <1>5 DEF TargetFails, WellFormed
    <2> QED
      BY <1>1, <1>2, <1>3, <2>1, OnwardIs, RunsLetGo
  <1> QED
    BY <1>4, <1>5

LEMMA Budgets ==
    ASSUME FetchInv, NEW x \in Runs, CheckBudget(x)
    PROVE  FetchInv'
  <1>1. PICK who \in fetch[x].todo : \E fresh \in BOOLEAN :
           fetch' = [fetch EXCEPT ![x] =
               IF @.job = "harvest" /\ fresh
               THEN Onward([@ EXCEPT !.who = who])
               ELSE IF logged >= Cap THEN AtDesk
               ELSE [@ EXCEPT !.step = "call", !.who = who]]
    BY DEF CheckBudget
  <1>2. /\ fetch[x].step = "check"
        /\ UNCHANGED <<today, posted, status, watermark, cadence, logged, turns, overlap, billed, excused>>
    BY DEF CheckBudget, fetchTables, fetchHistory
  <1>3. /\ fetch[x] \in RunAtWork /\ WellFormed(fetch[x]) /\ billed \in Int /\ logged \in Nat
        /\ fetch[x].items = 0 /\ fetch \in [Runs -> RunAtWork]
    BY <1>2, AtStep
  <1>4. fetch[x].job # "none" /\ who \in Targets /\ (fetch[x].job \in Stamped => who \in Recruiters)
    BY <1>1, <1>2, <1>3 DEF WellFormed, RunAtWork
  <1> DEFINE g == [fetch[x] EXCEPT !.who = who]
             h == [fetch[x] EXCEPT !.step = "call", !.who = who]
  <1>5. \/ fetch' = [fetch EXCEPT ![x] = Onward(g)]
        \/ fetch' = [fetch EXCEPT ![x] = AtDesk]
        \/ fetch' = [fetch EXCEPT ![x] = h] /\ logged < Cap
    <2>1. PICK fresh \in BOOLEAN :
            fetch' = [fetch EXCEPT ![x] = IF fetch[x].job = "harvest" /\ fresh THEN Onward(g)
                                          ELSE IF logged >= Cap THEN AtDesk ELSE h]
      BY <1>1
    <2> HIDE DEF g, h
    <2>2. CASE fetch[x].job = "harvest" /\ fresh
      BY <2>1, <2>2
    <2>3. CASE ~(fetch[x].job = "harvest" /\ fresh) /\ logged >= Cap
      BY <2>1, <2>3
    <2>4. CASE ~(fetch[x].job = "harvest" /\ fresh) /\ ~(logged >= Cap)
      <3>1. fetch' = [fetch EXCEPT ![x] = h]
        BY <2>1, <2>4
      <3>2. logged \in Nat /\ Cap \in Nat
        BY <1>3, FetchingAssumption
      <3> QED
        BY <2>4, <3>1, <3>2
    <2> QED
      BY <2>2, <2>3, <2>4
  <1>6. g \in RunAtWork /\ WellFormed(g) /\ g.job # "none"
    BY <1>2, <1>3, <1>4 DEF RunAtWork, WellFormed
  <1>7. h \in RunAtWork /\ WellFormed(h) /\ h.step = "call" /\ h.items = 0
    BY <1>3, <1>4 DEF RunAtWork, WellFormed
  <1> HIDE DEF g, h
  <1>8. billed' = billed - fetch[x].items /\ billed' = billed /\ billed' \in Int
    BY <1>2, <1>3
  <1>9. CASE fetch' = [fetch EXCEPT ![x] = Onward(g)]
    BY <1>2, <1>6, <1>8, <1>9, OnwardIs, RunsLetGo
  <1>10. CASE fetch' = [fetch EXCEPT ![x] = AtDesk]
    BY <1>2, <1>8, <1>10, Bounds, DeskIs, RunsLetGo
  <1>11. CASE fetch' = [fetch EXCEPT ![x] = h] /\ logged < Cap
    <2>1. PostsInv'
      BY <1>2, <1>7, <1>11, AtStep, PostsRest
    <2>2. status' \in [Posts -> {"absent", "pending", "settled"}] /\ watermark' \in [Recruiters -> Nat]
      BY <1>2, AtStep
    <2>3. logged' \in Nat /\ logged' = logged /\ billed' - logged' = billed - logged - fetch[x].items + h.items
      BY <1>2, <1>3, <1>7, <1>8
    <2>4. h.step # "claim"
      BY <1>7
    <2> QED
      BY <1>2, <1>7, <1>8, <1>11, <2>1, <2>2, <2>3, <2>4, RunSteps
  <1> QED
    BY <1>5, <1>9, <1>10, <1>11

LEMMA Logs ==
    ASSUME FetchInv, NEW x \in Runs, RecordCost(x)
    PROVE  FetchInv'
  <1>1. PICK f : f = [fetch[x] EXCEPT !.step = "store", !.items = 0]
    OBVIOUS
  <1>2. /\ fetch[x].step = "log" /\ logged' = logged + fetch[x].items
        /\ fetch' = [fetch EXCEPT ![x] = f]
        /\ UNCHANGED <<today, posted, status, watermark, cadence, turns, overlap, billed, excused>>
    BY <1>1 DEF RecordCost, fetchHistory
  <1>3. /\ fetch[x] \in RunAtWork /\ WellFormed(fetch[x]) /\ billed \in Int /\ logged \in Nat
        /\ fetch[x].items \in Nat /\ Caught(fetch[x]) /\ FetchTyped /\ PostsInv
    BY AtStep
  <1>4. /\ f \in RunAtWork /\ f.step = "store" /\ f.items = 0 /\ f.job = fetch[x].job
        /\ f.who = fetch[x].who /\ f.read = fetch[x].read /\ f.got = fetch[x].got /\ f.todo = fetch[x].todo
    BY <1>1, <1>3, Bounds DEF RunAtWork
  <1>5. WellFormed(f)
    BY <1>2, <1>3, <1>4 DEF WellFormed
  <1>6. /\ \A r \in Recruiters : watermark'[r] <= today
        /\ \A p \in Posts : Published(p) /\ status'[p] = "absent" /\ p \notin excused'
              => posted[p].at >= watermark'[posted[p].by]
    BY <1>2, <1>3 DEF PostsInv, NoPostFallsBetweenPolls
  <1>7. f.job \in Stamped =>
          /\ f.read <= today
          /\ \A p \in Posts :
               Published(p) /\ posted[p].by = f.who /\ status'[p] = "absent" /\ p \notin excused'
                 => posted[p].at >= f.read \/ (f.step # "stamp" /\ p \in f.got)
    BY <1>2, <1>3, <1>4 DEF Caught
  <1>8. PostsInv'
    BY <1>2, <1>3, <1>4, <1>6, <1>7, PostsMove
  <1>9. /\ logged' \in Nat /\ billed' \in Int /\ billed' = billed
        /\ billed' - logged' = billed - logged - fetch[x].items + f.items
        /\ billed' <= billed + (IF fetch[x].step = "call" THEN Page ELSE 0)
    BY <1>2, <1>3, <1>4
  <1>10. status' \in [Posts -> {"absent", "pending", "settled"}] /\ watermark' \in [Recruiters -> Nat]
    BY <1>2, AtStep
  <1>11. f.step # "call" /\ f.step # "claim"
    BY <1>4
  <1> QED
    BY <1>2, <1>4, <1>5, <1>8, <1>9, <1>10, <1>11, RunSteps

LEMMA Starts ==
    ASSUME FetchInv, NEW x \in Runs, NEW job \in {"backfill", "discovery", "harvest"}, StartByHand(x, job)
    PROVE  FetchInv'
  <1>1. PICK f : f = [fetch[x] EXCEPT !.job = job, !.step = "check",
                         !.todo = IF job = "discovery" THEN {Query} ELSE Recruiters]
    OBVIOUS
  <1>2. /\ fetch[x].job = "none" /\ fetch' = [fetch EXCEPT ![x] = f]
        /\ UNCHANGED <<today, posted, status, watermark, cadence, logged, turns, overlap, billed, excused>>
    BY <1>1 DEF StartByHand, fetchTables
  <1>3. /\ fetch[x] \in RunAtWork /\ WellFormed(fetch[x]) /\ billed \in Int /\ fetch[x].items = 0
    BY <1>2, AtStep DEF WellFormed
  <1>4. f \in RunAtWork /\ f.items = 0 /\ f.step = "check" /\ WellFormed(f)
    BY <1>1, <1>3 DEF RunAtWork, WellFormed, Stamped, Targets
  <1>5. billed' = billed - fetch[x].items
    BY <1>2, <1>3
  <1> QED
    BY <1>2, <1>4, <1>5, RunsLetGo

\* claim_run reads the counter: with no other claim under way it is the counter still.
LEMMA Claims ==
    ASSUME FetchInv, NEW x \in Runs, ClaimRun(x)
    PROVE  FetchInv'
  <1>1. PICK f : f = [fetch[x] EXCEPT !.job = "watchlist", !.step = "claim", !.index = cadence]
    OBVIOUS
  <1>2. /\ fetch[x].job = "none" /\ fetch' = [fetch EXCEPT ![x] = f]
        /\ overlap' = (overlap \/ \E y \in Runs : fetch[y].step = "claim")
        /\ UNCHANGED <<today, posted, status, watermark, cadence, logged, turns, billed, excused>>
    BY <1>1 DEF ClaimRun, fetchTables
  <1>3. /\ fetch[x] \in RunAtWork /\ WellFormed(fetch[x]) /\ FetchTyped /\ PostsInv
        /\ fetch[x].items = 0 /\ fetch[x].step = "idle" /\ fetch[x].todo = {}
    BY <1>2, AtStep DEF WellFormed
  <1>4. f \in RunAtWork /\ f.items = 0 /\ f.step = "claim" /\ f.index = cadence /\ WellFormed(f)
    BY <1>1, <1>3 DEF RunAtWork, WellFormed, Stamped, FetchTyped
  <1>5. FetchTyped'
    BY <1>2, <1>3, <1>4, OneRunMoves DEF FetchTyped
  <1>6. PostsInv'
    BY <1>2, <1>3, <1>4, PostsRest
  <1>7. SpendInv'
    <2>1. billed' \in Int /\ logged' \in Nat
          /\ billed' - logged' = billed - logged - fetch[x].items + f.items
          /\ billed' <= billed + (IF fetch[x].step = "call" THEN Page ELSE 0)
      BY <1>2, <1>3, <1>4 DEF FetchTyped
    <2>2. SpendInv /\ \A y \in Runs : WellFormed(fetch[y])
      BY DEF FetchInv
    <2> QED
      BY <1>2, <1>3, <1>4, <2>1, <2>2, SpendMoves
  <1>8. CadenceInv'
    <2> SUFFICES ASSUME ~overlap' PROVE CadenceInv'
      BY DEF CadenceInv
    <2>1. ~overlap /\ \A y \in Runs : fetch[y].step # "claim"
      BY <1>2
    <2>2. \A y \in Runs : fetch'[y].step = "claim" => y = x
      BY <1>2, <1>3, <1>4, <2>1, OneRunMoves
    <2>3. fetch'[x].index = cadence
      BY <1>2, <1>3, <1>4, OneRunMoves
    <2>4. turns' * Interval \in cadence' .. cadence' + Interval - 1
      BY <1>2, <2>1 DEF FetchInv, CadenceInv
    <2> QED
      BY <1>2, <2>2, <2>3, <2>4 DEF CadenceInv
  <1>9. ASSUME NEW y \in Runs PROVE WellFormed(fetch'[y])
    <2>1. CASE y = x
      BY <1>2, <1>3, <1>4, <2>1, OneRunMoves
    <2>2. CASE y # x
      BY <1>2, <1>3, <1>4, <2>2, OneRunMoves DEF FetchInv
    <2> QED
      BY <2>1, <2>2
  <1>10. \A y \in Runs : WellFormed(fetch[y])'
    BY <1>9 DEF WellFormed
  <1> QED
    BY <1>5, <1>6, <1>7, <1>8, <1>10 DEF FetchInv

\* The counter is advanced by the claim that read it, and a turn is taken when it was due.
LEMMA Decides ==
    ASSUME FetchInv, NEW x \in Runs, DecideRun(x)
    PROVE  FetchInv'
  <1> DEFINE g == [AtDesk EXCEPT !.job = "watchlist", !.step = "check", !.todo = Recruiters]
  <1>1. PICK force \in BOOLEAN :
           IF force \/ Due(fetch[x].index)
           THEN /\ fetch' = [fetch EXCEPT ![x] = g]
                /\ turns' = turns + (IF Due(fetch[x].index) THEN 1 ELSE 0)
           ELSE fetch' = [fetch EXCEPT ![x] = AtDesk] /\ UNCHANGED turns
    BY DEF DecideRun
  <1>2. /\ fetch[x].step = "claim" /\ cadence' = cadence + 1
        /\ UNCHANGED <<today, posted, status, watermark, logged, billed, overlap, excused>>
    BY DEF DecideRun
  <1>3. /\ fetch[x] \in RunAtWork /\ WellFormed(fetch[x]) /\ FetchTyped /\ PostsInv /\ fetch[x].items = 0
    BY <1>2, AtStep
  <1>4. g \in RunAtWork /\ g.items = 0 /\ g.step = "check" /\ WellFormed(g)
    BY Bounds DEF AtDesk, RunAtWork, WellFormed, Stamped, Targets
  <1> HIDE DEF g
  <1>5. turns' = turns + (IF fetch[x].index % Interval = 0 THEN 1 ELSE 0)
    BY <1>1, <1>3 DEF Due, FetchTyped
  <1>6. PICK f \in {g, AtDesk} : fetch' = [fetch EXCEPT ![x] = f]
    BY <1>1
  <1>7. f \in RunAtWork /\ f.items = 0 /\ f.step \in {"check", "idle"} /\ WellFormed(f)
    BY <1>4, Bounds, DeskIs
  <1>8. FetchTyped'
    <2>1. turns' \in Nat /\ cadence' \in Nat
      BY <1>2, <1>3, <1>5 DEF FetchTyped
    <2> QED
      BY <1>2, <1>3, <1>6, <1>7, <2>1, OneRunMoves DEF FetchTyped
  <1>9. PostsInv'
    BY <1>2, <1>3, <1>6, <1>7, PostsRest
  <1>10. SpendInv'
    <2>1. billed' \in Int /\ logged' \in Nat
          /\ billed' - logged' = billed - logged - fetch[x].items + f.items
          /\ billed' <= billed + (IF fetch[x].step = "call" THEN Page ELSE 0)
      BY <1>2, <1>3, <1>7 DEF FetchTyped
    <2>2. SpendInv /\ \A y \in Runs : WellFormed(fetch[y])
      BY DEF FetchInv
    <2> QED
      BY <1>3, <1>6, <1>7, <2>1, <2>2, SpendMoves
  <1>11. CadenceInv'
    <2> SUFFICES ASSUME ~overlap PROVE CadenceInv'
      BY <1>2 DEF CadenceInv
    <2>1. fetch[x].index = cadence /\ \A y \in Runs : fetch[y].step = "claim" => y = x
      BY <1>2 DEF FetchInv, CadenceInv
    <2>2. \A y \in Runs : fetch'[y].step # "claim"
      BY <1>3, <1>6, <1>7, <2>1, OneRunMoves
    <2>3. turns * Interval \in cadence .. cadence + Interval - 1
      BY DEF FetchInv, CadenceInv
    <2>4. turns' * Interval \in cadence + 1 .. cadence + Interval
      BY <1>3, <1>5, <2>1, <2>3, NextTurn DEF FetchTyped
    <2>5. cadence' + Interval - 1 = cadence + Interval
      BY <1>2, <1>3, Bounds DEF FetchTyped
    <2> QED
      BY <1>2, <2>2, <2>4, <2>5 DEF CadenceInv
  <1>12. ASSUME NEW y \in Runs PROVE WellFormed(fetch'[y])
    <2>1. CASE y = x
      BY <1>3, <1>6, <1>7, <2>1, OneRunMoves
    <2>2. CASE y # x
      BY <1>3, <1>6, <1>7, <2>2, OneRunMoves DEF FetchInv
    <2> QED
      BY <2>1, <2>2
  <1>13. \A y \in Runs : WellFormed(fetch[y])'
    BY <1>12 DEF WellFormed
  <1> QED
    BY <1>8, <1>9, <1>10, <1>11, <1>13 DEF FetchInv

\* What a call can answer: some of the posts, a page of them at most.
LEMMA AnswersFit ==
    ASSUME NEW set \in SUBSET Posts, NEW got \in Answers(set)
    PROVE  got \subseteq set /\ Cardinality(got) \in 0..Page
  <1>1. IsFiniteSet(set) /\ Cardinality(set) \in Nat
    BY FetchingAssumption, FS_Subset, FS_CardinalityType
  <1>2. CASE Cardinality(set) <= Page
    BY <1>1, <1>2, Bounds DEF Answers
  <1>3. CASE ~(Cardinality(set) <= Page)
    BY <1>3, Bounds DEF Answers
  <1> QED
    BY <1>2, <1>3

\* An answer is complete back to the watermark, but for what a page cut off and what lay
\* beyond the floor.
LEMMA Calls ==
    ASSUME FetchInv, NEW x \in Runs, CallVendor(x)
    PROVE  FetchInv'
  <1> DEFINE who == fetch[x].who
             job == fetch[x].job
             since == IF job = "watchlist" THEN ResolveSince(who) ELSE 0
             set == IF job = "harvest" THEN {} ELSE Available(x, since)
             lost == IF job = "watchlist" THEN Capped(x, since) ELSE {}
  <1>1. PICK got \in Answers(set) : \E items \in IF job = "harvest" THEN {0, 1} ELSE {Cardinality(got)} :
             \/ /\ billed' = billed + items
                /\ fetch' = [fetch EXCEPT ![x].step = "log", ![x].got = got, ![x].items = items,
                          ![x].read = IF fetch[x].job \in Stamped THEN today ELSE 0]
                /\ excused' = excused \cup {p \in set \ got : status[p] = "absent"} \cup lost
             \/ fetch' = [fetch EXCEPT ![x] = Onward(@)] /\ UNCHANGED <<billed, excused>>
    BY DEF CallVendor
  <1>2. PICK items \in IF job = "harvest" THEN {0, 1} ELSE {Cardinality(got)} :
             \/ /\ billed' = billed + items
                /\ fetch' = [fetch EXCEPT ![x].step = "log", ![x].got = got, ![x].items = items,
                          ![x].read = IF fetch[x].job \in Stamped THEN today ELSE 0]
                /\ excused' = excused \cup {p \in set \ got : status[p] = "absent"} \cup lost
             \/ fetch' = [fetch EXCEPT ![x] = Onward(@)] /\ UNCHANGED <<billed, excused>>
    BY <1>1
  <1>3. /\ fetch[x].step = "call"
        /\ UNCHANGED <<today, posted, status, watermark, cadence, logged, turns, overlap>>
    BY DEF CallVendor, fetchTables
  <1>4. /\ fetch[x] \in RunAtWork /\ WellFormed(fetch[x]) /\ billed \in Int /\ logged \in Nat
        /\ FetchTyped /\ PostsInv /\ fetch[x].items = 0 /\ job # "none"
        /\ (job \in Stamped => who \in Recruiters)
        /\ watermark \in [Recruiters -> Nat] /\ status \in [Posts -> {"absent", "pending", "settled"}]
    BY <1>3, AtStep DEF WellFormed
  <1>5. CASE fetch' = [fetch EXCEPT ![x] = Onward(@)] /\ UNCHANGED <<billed, excused>>
    <2>1. fetch' = [fetch EXCEPT ![x] = Onward(fetch[x])] /\ billed' = billed - fetch[x].items
      BY <1>4, <1>5
    <2> QED
      BY <1>3, <1>4, <1>5, <2>1, OnwardIs, RunsLetGo
  <1>6. CASE /\ billed' = billed + items
             /\ fetch' = [fetch EXCEPT ![x].step = "log", ![x].got = got, ![x].items = items,
                       ![x].read = IF fetch[x].job \in Stamped THEN today ELSE 0]
             /\ excused' = excused \cup {p \in set \ got : status[p] = "absent"} \cup lost
    <2>1. set \in SUBSET Posts
      BY DEF Available
    <2>2. got \subseteq set /\ Cardinality(got) \in 0..Page
      BY <2>1, AnswersFit
    <2>3. items \in 0..Page /\ items \in Nat /\ items <= Page
      BY <2>2, Bounds
    <2>4. PICK f : f = [fetch[x] EXCEPT !.step = "log", !.got = got, !.items = items,
                            !.read = IF fetch[x].job \in Stamped THEN today ELSE 0]
      OBVIOUS
    <2> HIDE DEF set, since, lost
    <2>5. fetch' = [fetch EXCEPT ![x] = f]
      BY <1>6, <2>4
    <2>6. /\ f \in RunAtWork /\ f.step = "log" /\ f.got = got /\ f.items = items
          /\ f.job = job /\ f.who = who /\ f.todo = fetch[x].todo
          /\ (job \in Stamped => f.read = today)
      <3>1. today \in Nat /\ got \subseteq Posts
        BY <1>4, <2>1, <2>2 DEF FetchTyped
      <3> QED
        BY <1>4, <2>3, <2>4, <3>1 DEF RunAtWork
    <2>7. WellFormed(f)
      BY <1>3, <1>4, <2>6 DEF WellFormed
    <2>8. job \in Stamped => \A p \in Posts :
            Published(p) /\ posted[p].by = who /\ status[p] = "absent" => p \in set \/ p \in excused'
      <3> SUFFICES ASSUME job \in Stamped, NEW p \in Posts, Published(p), posted[p].by = who,
                          status[p] = "absent", p \notin set, p \notin excused
                   PROVE  p \in excused'
        BY <1>6
      <3>1. posted[p].at \in Nat /\ today \in Nat /\ watermark[who] \in Nat /\ Interval \in Nat \ {0}
        BY <1>4, Bounds DEF FetchTyped
      <3>2. posted[p].at >= watermark[who]
        BY <1>4 DEF PostsInv, NoPostFallsBetweenPolls
      <3>3. set = Available(x, since)
        BY DEF set, Stamped
      <3>4. ~(posted[p].at >= since)
        BY <3>3 DEF Available
      <3>5. job = "watchlist"
        BY <3>1, <3>4 DEF since, Stamped
      <3>6. since = today - (Interval + 1) /\ today > Interval + 1
        BY <3>1, <3>2, <3>4, <3>5 DEF since, ResolveSince, LaterOf, CatchupFloor
      <3>7. today > watermark[who] + (Interval + 1) /\ posted[p].at < since
        BY <3>1, <3>2, <3>4, <3>6
      <3>8. p \in Capped(x, since)
        BY <3>7 DEF Capped
      <3> QED
        BY <1>6, <3>5, <3>8 DEF lost
    <2>9. f.job \in Stamped =>
            /\ f.read <= today
            /\ \A p \in Posts :
                 Published(p) /\ posted[p].by = f.who /\ status'[p] = "absent" /\ p \notin excused'
                   => posted[p].at >= f.read \/ (f.step # "stamp" /\ p \in f.got)
      <3>1. today \in Nat
        BY <1>4 DEF FetchTyped
      <3>2. \A p \in Posts : p \in set /\ status[p] = "absent" /\ p \notin excused' => p \in got
        BY <1>6
      <3> QED
        BY <1>3, <2>6, <2>8, <3>1, <3>2
    <2>10. /\ \A r \in Recruiters : watermark'[r] <= today
           /\ \A p \in Posts : Published(p) /\ status'[p] = "absent" /\ p \notin excused'
                 => posted[p].at >= watermark'[posted[p].by]
      BY <1>3, <1>4, <1>6 DEF PostsInv, NoPostFallsBetweenPolls
    <2>11. \A p \in Posts : p \in excused => p \in excused'
      BY <1>6
    <2>12. PostsInv'
      BY <1>3, <1>4, <2>5, <2>6, <2>9, <2>10, <2>11, PostsMove
    <2>13. /\ billed' \in Int /\ logged' \in Nat
           /\ billed' - logged' = billed - logged - fetch[x].items + f.items
           /\ billed' <= billed + (IF fetch[x].step = "call" THEN Page ELSE 0)
      BY <1>3, <1>4, <1>6, <2>3, <2>6, Bounds
    <2>14. f.step # "call" /\ f.step # "claim"
      BY <2>6
    <2>15. status' \in [Posts -> {"absent", "pending", "settled"}] /\ watermark' \in [Recruiters -> Nat]
      BY <1>3, <1>4
    <2> QED
      BY <1>3, <2>5, <2>6, <2>7, <2>12, <2>13, <2>14, <2>15, RunSteps
  <1> QED
    BY <1>2, <1>5, <1>6

\* upsert_posts: what was answered is stored, and nothing that was stored is absent again.
LEMMA Upserts ==
    ASSUME FetchInv, NEW x \in Runs, UpsertPosts(x)
    PROVE  FetchInv' /\ \A p \in Posts : status[p] = "settled" => status'[p] = "settled"
  <1>1. /\ fetch[x].step = "store"
        /\ status' = [p \in Posts |-> IF p \in fetch[x].got THEN StoredAs(p) ELSE status[p]]
        /\ fetch' = [fetch EXCEPT ![x] = IF fetch[x].job \in Stamped
                         THEN [fetch[x] EXCEPT !.step = "stamp", !.got = {}] ELSE Onward(fetch[x])]
        /\ excused' = excused \ fetch[x].got
        /\ UNCHANGED <<today, posted, watermark, cadence, logged, turns, overlap, billed>>
    BY DEF UpsertPosts
  <1>2. /\ fetch[x] \in RunAtWork /\ WellFormed(fetch[x]) /\ Caught(fetch[x]) /\ billed \in Int /\ logged \in Nat
        /\ FetchTyped /\ PostsInv /\ fetch[x].items = 0 /\ fetch[x].job # "none"
        /\ watermark \in [Recruiters -> Nat] /\ status \in [Posts -> {"absent", "pending", "settled"}]
    BY <1>1, AtStep DEF WellFormed
  <1> DEFINE h == [fetch[x] EXCEPT !.step = "stamp", !.got = {}]
  <1>3. PICK f : f = IF fetch[x].job \in Stamped THEN h ELSE Onward(fetch[x])
    OBVIOUS
  <1>4. fetch' = [fetch EXCEPT ![x] = f]
    BY <1>1, <1>3
  <1>5. /\ h \in RunAtWork /\ h.items = 0 /\ h.step = "stamp" /\ h.job = fetch[x].job
        /\ h.who = fetch[x].who /\ h.read = fetch[x].read /\ h.todo = fetch[x].todo
    BY <1>2 DEF RunAtWork
  <1> HIDE DEF h
  <1>6. fetch[x].job \in Stamped => WellFormed(h)
    BY <1>1, <1>2, <1>5 DEF WellFormed
  <1>7. f \in RunAtWork /\ f.items = 0 /\ WellFormed(f) /\ f.step # "call" /\ f.step # "claim"
    BY <1>2, <1>3, <1>5, <1>6, OnwardIs
  <1>8. /\ status' \in [Posts -> {"absent", "pending", "settled"}]
        /\ \A p \in Posts : status'[p] = "absent" => status[p] = "absent" /\ p \notin fetch[x].got
        /\ \A p \in Posts : status[p] = "settled" => status'[p] = "settled"
    BY <1>1, <1>2 DEF StoredAs
  <1>9. \A p \in Posts : status'[p] = "absent" /\ p \notin excused' => p \notin excused
    BY <1>1, <1>8
  <1>10. /\ \A r \in Recruiters : watermark'[r] <= today
         /\ \A p \in Posts : Published(p) /\ status'[p] = "absent" /\ p \notin excused'
               => posted[p].at >= watermark'[posted[p].by]
    BY <1>1, <1>2, <1>8, <1>9 DEF PostsInv, NoPostFallsBetweenPolls
  <1>11. f.job \in Stamped /\ f.step \in {"log", "store", "stamp"} =>
           /\ f.read <= today
           /\ \A p \in Posts :
                Published(p) /\ posted[p].by = f.who /\ status'[p] = "absent" /\ p \notin excused'
                  => posted[p].at >= f.read \/ (f.step # "stamp" /\ p \in f.got)
    <2>1. CASE fetch[x].job \in Stamped
      <3>1. f = h
        BY <1>3, <2>1
      <3>2. /\ h.read <= today
            /\ \A p \in Posts :
                 Published(p) /\ posted[p].by = h.who /\ status'[p] = "absent" /\ p \notin excused'
                   => posted[p].at >= h.read
        BY <1>1, <1>2, <1>5, <1>8, <1>9, <2>1 DEF Caught
      <3> QED
        BY <3>1, <3>2
    <2>2. CASE fetch[x].job \notin Stamped
      <3>1. f.step \in {"idle", "check"}
        BY <1>2, <1>3, <2>2, OnwardIs
      <3> QED
        BY <3>1
    <2> QED
      BY <2>1, <2>2
  <1>12. \A p \in Posts : status'[p] = "absent" => status[p] = "absent" /\ (p \in excused => p \in excused')
    BY <1>1, <1>8
  <1>13. PostsInv'
    BY <1>1, <1>2, <1>4, <1>7, <1>10, <1>11, <1>12, PostsMove
  <1>14. /\ billed' \in Int /\ logged' \in Nat /\ watermark' \in [Recruiters -> Nat]
         /\ billed' - logged' = billed - logged - fetch[x].items + f.items
         /\ billed' <= billed + (IF fetch[x].step = "call" THEN Page ELSE 0)
    BY <1>1, <1>2, <1>7
  <1> QED
    BY <1>1, <1>4, <1>7, <1>8, <1>13, <1>14, RunSteps

\* record_fetch_result: the watermark passes no post that is missing.
LEMMA Stamps ==
    ASSUME FetchInv, NEW x \in Runs, Stamp(x)
    PROVE  FetchInv'
  <1> DEFINE who == fetch[x].who
             f == Onward(fetch[x])
  <1>1. /\ fetch[x].step = "stamp" /\ watermark' = [watermark EXCEPT ![who] = today]
        /\ fetch' = [fetch EXCEPT ![x] = f]
        /\ excused' = excused \cup
             {p \in Posts : /\ posted[p].by = who /\ posted[p].at >= fetch[x].read
                            /\ posted[p].at < today /\ status[p] = "absent"}
        /\ UNCHANGED <<today, posted, status, cadence, logged, turns, overlap, billed>>
    BY DEF Stamp
  <1>2. /\ fetch[x] \in RunAtWork /\ WellFormed(fetch[x]) /\ Caught(fetch[x]) /\ billed \in Int /\ logged \in Nat
        /\ FetchTyped /\ PostsInv /\ fetch[x].items = 0 /\ fetch[x].job # "none"
        /\ fetch[x].job \in Stamped /\ who \in Recruiters
        /\ watermark \in [Recruiters -> Nat] /\ status \in [Posts -> {"absent", "pending", "settled"}]
    BY <1>1, AtStep DEF WellFormed
  <1>3. f \in RunAtWork /\ f.items = 0 /\ WellFormed(f) /\ f.step \in {"idle", "check"}
    BY <1>2, OnwardIs
  <1> HIDE DEF f
  <1>4. today \in Nat /\ \A p \in Posts : posted[p].at \in Nat
    BY <1>2 DEF FetchTyped
  <1>5. /\ watermark' \in [Recruiters -> Nat] /\ watermark'[who] = today
        /\ \A r \in Recruiters : r # who => watermark'[r] = watermark[r]
    BY <1>1, <1>2, <1>4
  <1>6. \A r \in Recruiters : watermark'[r] <= today
    BY <1>2, <1>4, <1>5 DEF PostsInv
  <1>7. ASSUME NEW p \in Posts, Published(p), status[p] = "absent", p \notin excused'
        PROVE  posted[p].at >= watermark'[posted[p].by]
    <2>1. CASE posted[p].by = who
      <3>1. p \notin excused /\ ~(posted[p].at >= fetch[x].read /\ posted[p].at < today)
        BY <1>1, <1>7, <2>1
      <3>2. posted[p].at >= fetch[x].read
        BY <1>1, <1>2, <1>7, <2>1, <3>1 DEF Caught
      <3> QED
        BY <1>4, <1>5, <2>1, <3>1, <3>2
    <2>2. CASE posted[p].by # who
      <3>1. posted[p].by \in Recruiters /\ p \notin excused
        BY <1>1, <1>2, <1>7 DEF PostsInv
      <3>2. posted[p].at >= watermark[posted[p].by]
        BY <1>2, <1>7, <3>1 DEF PostsInv, NoPostFallsBetweenPolls
      <3> QED
        BY <1>5, <2>2, <3>1, <3>2
    <2> QED
      BY <2>1, <2>2
  <1>8. /\ \A p \in Posts : Published(p) /\ status'[p] = "absent" /\ p \notin excused'
              => posted[p].at >= watermark'[posted[p].by]
        /\ \A p \in Posts : status'[p] = "absent" => status[p] = "absent" /\ (p \in excused => p \in excused')
    BY <1>1, <1>7
  <1>9. PostsInv'
    BY <1>1, <1>2, <1>3, <1>6, <1>8, PostsMove
  <1>10. /\ billed' \in Int /\ logged' \in Nat
         /\ billed' - logged' = billed - logged - fetch[x].items + f.items
         /\ billed' <= billed + (IF fetch[x].step = "call" THEN Page ELSE 0)
    BY <1>1, <1>2, <1>3
  <1>11. status' \in [Posts -> {"absent", "pending", "settled"}] /\ f.step # "call" /\ f.step # "claim"
    BY <1>1, <1>2, <1>3
  <1> QED
    BY <1>1, <1>3, <1>5, <1>9, <1>10, <1>11, RunSteps

\* The world: a post appears today, one is classified, a day goes by.
LEMMA WorldMoves ==
    ASSUME FetchInv,
           Tick \/ \E p \in Posts : Classify(p) \/ \E r \in Recruiters : Publish(p, r)
    PROVE  FetchInv' /\ \A p \in Posts : status[p] = "settled" => status'[p] = "settled"
  <1> DEFINE Moved ==
        /\ today' \in Nat /\ today' >= today /\ today \in Nat
        /\ posted' \in [Posts -> [by: Targets, at: Nat]]
        /\ status' \in [Posts -> {"absent", "pending", "settled"}]
        /\ \A p \in Posts : status'[p] = "absent" <=> status[p] = "absent"
        /\ \A p \in Posts : status[p] = "settled" => status'[p] = "settled"
        /\ \A p \in Posts : \/ posted'[p] = posted[p]
                            \/ /\ posted'[p].at = today /\ today' = today
                               /\ posted'[p].by \in Recruiters
  <1>1. FetchTyped /\ PostsInv /\ SpendInv /\ CadenceInv /\ \A x \in Runs : WellFormed(fetch[x])
    BY DEF FetchInv
  <1>2. UNCHANGED <<watermark, cadence, logged, fetch, turns, overlap, billed, excused>>
    BY DEF Tick, Classify, Publish, fetchTables, fetchHistory
  <1>3. Moved
    <2>1. CASE Tick
      BY <1>1, <2>1 DEF Tick, FetchTyped, fetchTables
    <2>2. ASSUME NEW p \in Posts, Classify(p) PROVE Moved
      BY <1>1, <2>2 DEF Classify, FetchTyped
    <2>3. ASSUME NEW p \in Posts, NEW r \in Recruiters, Publish(p, r) PROVE Moved
      BY <1>1, <2>3 DEF Publish, FetchTyped, fetchTables, Targets
    <2> QED
      BY <2>1, <2>2, <2>3
  <1>4. FetchTyped'
    BY <1>1, <1>2, <1>3 DEF FetchTyped
  <1>5. \A p \in Posts : posted[p].at \in Nat /\ posted'[p].at \in Nat
    BY <1>1, <1>3 DEF FetchTyped
  <1>6. \A r \in Recruiters : watermark[r] \in Nat
    BY <1>1 DEF FetchTyped
  <1>7. \A x \in Runs : fetch[x].read \in Nat
    BY <1>1 DEF FetchTyped, RunAtWork
  <1>8. \A p \in Posts : posted'[p].at <= today' /\ (Published(p)' => posted'[p].by \in Recruiters)
    BY <1>1, <1>3, <1>5 DEF PostsInv, Published
  <1>9. \A r \in Recruiters : watermark[r] <= today'
    BY <1>1, <1>3, <1>6 DEF PostsInv
  <1>10. ASSUME NEW p \in Posts, Published(p)', status'[p] = "absent", p \notin excused'
         PROVE  posted'[p].at >= watermark'[posted'[p].by]
    <2>1. CASE posted'[p] = posted[p]
      BY <1>1, <1>2, <1>3, <1>10, <2>1 DEF PostsInv, NoPostFallsBetweenPolls, Published
    <2>2. CASE posted'[p].at = today /\ posted'[p].by \in Recruiters
      BY <1>1, <1>2, <1>3, <1>6, <2>2 DEF PostsInv
    <2> QED
      BY <1>3, <2>1, <2>2
  <1>11. ASSUME NEW x \in Runs PROVE Caught(fetch[x])'
    <2> SUFFICES ASSUME fetch[x].job \in Stamped, fetch[x].step \in {"log", "store", "stamp"}
                 PROVE  /\ fetch[x].read <= today'
                        /\ \A p \in Posts :
                             Published(p)' /\ posted'[p].by = fetch[x].who /\ status'[p] = "absent"
                               /\ p \notin excused
                                 => posted'[p].at >= fetch[x].read
                                    \/ (fetch[x].step # "stamp" /\ p \in fetch[x].got)
      BY <1>2 DEF Caught
    <2>1. /\ fetch[x].read <= today
          /\ \A p \in Posts :
               Published(p) /\ posted[p].by = fetch[x].who /\ status[p] = "absent" /\ p \notin excused
                 => posted[p].at >= fetch[x].read \/ (fetch[x].step # "stamp" /\ p \in fetch[x].got)
      BY <1>1 DEF PostsInv, Caught
    <2>2. fetch[x].read <= today'
      BY <1>3, <1>7, <2>1
    <2>3. ASSUME NEW p \in Posts, Published(p)', posted'[p].by = fetch[x].who, status'[p] = "absent",
                 p \notin excused
          PROVE  posted'[p].at >= fetch[x].read \/ (fetch[x].step # "stamp" /\ p \in fetch[x].got)
      <3>1. CASE posted'[p] = posted[p]
        BY <1>3, <2>1, <2>3, <3>1 DEF Published
      <3>2. CASE posted'[p].at = today
        BY <1>3, <1>7, <2>1, <3>2
      <3> QED
        BY <1>3, <3>1, <3>2
    <2> QED
      BY <2>2, <2>3
  <1>12. PostsInv'
    BY <1>2, <1>8, <1>9, <1>10, <1>11 DEF PostsInv, NoPostFallsBetweenPolls
  <1>13. SpendInv' /\ CadenceInv'
    BY <1>1, <1>2 DEF SpendInv, CadenceInv, Unlogged, Calling
  <1>14. \A x \in Runs : WellFormed(fetch[x])'
    BY <1>1, <1>2 DEF WellFormed
  <1> QED
    BY <1>3, <1>4, <1>12, <1>13, <1>14 DEF FetchInv

\* The polls are accounted for: no post falls between two of them, one run in Interval takes
\* its turn, the vendor bills less than a page for each run beyond the cap, and a post that
\* was classified stays so.
THEOREM PollsLeaveNoGap == FetchSpec => PollsAreAccountedFor
  <1>1. FetchInit => FetchInv
    <2> SUFFICES ASSUME FetchInit PROVE FetchInv
      OBVIOUS
    <2>1. \A x \in Runs : fetch[x] = AtDesk
      BY DEF FetchInit
    <2>2. FetchTyped
      <3>1. Query \in Targets /\ AtDesk \in RunAtWork
        BY Bounds
      <3>2. posted \in [Posts -> [by: Targets, at: Nat]] /\ fetch \in [Runs -> RunAtWork]
        BY <3>1 DEF FetchInit
      <3>3. /\ status \in [Posts -> {"absent", "pending", "settled"}] /\ watermark \in [Recruiters -> Nat]
            /\ overlap \in BOOLEAN
        BY DEF FetchInit
      <3>4. /\ today \in Nat /\ cadence \in Nat /\ logged \in Nat /\ turns \in Nat /\ billed \in Int
        BY DEF FetchInit
      <3> QED
        BY <3>2, <3>3, <3>4 DEF FetchTyped
    <2>3. \A x \in Runs : WellFormed(fetch[x])
      BY <2>1, DeskIs
    <2>4. PostsInv
      <3>1. NoPostFallsBetweenPolls
        BY DEF NoPostFallsBetweenPolls, Published, FetchInit
      <3>2. \A x \in Runs : Caught(fetch[x])
        BY <2>1, Bounds DEF Caught, Stamped
      <3> QED
        BY <3>1, <3>2 DEF PostsInv, Published, FetchInit
    <2>5. SpendInv
      <3>1. Unlogged = {}
        <4> SUFFICES ASSUME NEW q \in Unlogged PROVE FALSE
          OBVIOUS
        <4>1. q[1] \in Runs /\ q[2] \in 1..Page /\ q[2] <= fetch[q[1]].items
          BY DEF Unlogged
        <4>2. fetch[q[1]].items = 0
          BY <2>1, <4>1, Bounds
        <4> QED
          BY <4>1, <4>2, Bounds
      <3>2. Calling = {}
        BY <2>1, Bounds DEF Calling
      <3>3. Cardinality(Unlogged) = 0 /\ Cardinality(Calling) = 0
        BY <3>1, <3>2, FS_EmptySet
      <3>4. Page \in Nat \ {0} /\ Cap \in Nat /\ Cardinality(Runs) \in Nat \ {0}
        BY Bounds
      <3>5. 0 * Page = 0 /\ Cardinality(Runs) * Page \in Nat /\ Cardinality(Runs) * Page > 0
        <4> DEFINE r == Cardinality(Runs)
        <4>1. r \in Nat \ {0}
          BY <3>4
        <4> HIDE DEF r
        <4>2. 0 * Page = 0 /\ r * Page \in Nat /\ r * Page > 0
          BY <3>4, <4>1, SMT
        <4> QED
          BY <4>2 DEF r
      <3> QED
        BY <3>3, <3>4, <3>5 DEF SpendInv, FetchInit
    <2>6. CadenceInv
      <3>1. Interval \in Nat \ {0} /\ 0 * Interval = 0
        BY Bounds
      <3> QED
        BY <2>1, <3>1, Bounds DEF CadenceInv, FetchInit
    <2> QED
      BY <2>2, <2>3, <2>4, <2>5, <2>6 DEF FetchInv
  <1>2. FetchInv /\ [FetchNext]_fetchVars =>
          FetchInv' /\ \A p \in Posts : status[p] = "settled" => status'[p] = "settled"
    <2> SUFFICES ASSUME FetchInv, [FetchNext]_fetchVars
                 PROVE  FetchInv' /\ \A p \in Posts : status[p] = "settled" => status'[p] = "settled"
      OBVIOUS
    <2>1. ASSUME NEW x \in Runs, ClaimRun(x) \/ DecideRun(x) PROVE FetchInv' /\ UNCHANGED status
      BY <2>1, Claims, Decides DEF ClaimRun, DecideRun, fetchTables
    <2>2. ASSUME NEW x \in Runs, NEW job \in {"backfill", "discovery", "harvest"}, StartByHand(x, job)
          PROVE  FetchInv' /\ UNCHANGED status
      BY <2>2, Starts DEF StartByHand, fetchTables
    <2>3. ASSUME NEW x \in Runs, CheckBudget(x) \/ CallVendor(x) \/ RecordCost(x) \/ Stamp(x)
          PROVE  FetchInv' /\ UNCHANGED status
      BY <2>3, Budgets, Calls, Logs, Stamps DEF CheckBudget, CallVendor, RecordCost, Stamp, fetchTables
    <2>4. ASSUME NEW x \in Runs, RejectToken(x) \/ TargetFails(x) \/ DieFetching(x)
          PROVE  FetchInv' /\ UNCHANGED status
      BY <2>4, RunsFail DEF RejectToken, TargetFails, DieFetching, fetchTables
    <2>5. ASSUME NEW x \in Runs, UpsertPosts(x)
          PROVE  FetchInv' /\ \A p \in Posts : status[p] = "settled" => status'[p] = "settled"
      BY <2>5, Upserts
    <2>6. CASE Tick \/ \E p \in Posts : Classify(p) \/ \E r \in Recruiters : Publish(p, r)
      BY <2>6, WorldMoves
    <2>7. CASE UNCHANGED fetchVars
      <3>1. UNCHANGED <<today, posted, status, watermark, cadence, logged, fetch, turns, overlap, billed, excused>>
        BY <2>7 DEF fetchVars, fetchTables, fetchHistory
      <3>2. FetchTyped'
        BY <3>1 DEF FetchInv, FetchTyped
      <3>3. PostsInv'
        BY <3>1 DEF FetchInv, PostsInv, NoPostFallsBetweenPolls, Caught, Published
      <3>4. SpendInv' /\ CadenceInv' /\ \A x \in Runs : WellFormed(fetch[x])'
        BY <3>1 DEF FetchInv, SpendInv, CadenceInv, Unlogged, Calling, WellFormed
      <3> QED
        BY <3>1, <3>2, <3>3, <3>4 DEF FetchInv
    <2> QED
      BY <2>1, <2>2, <2>3, <2>4, <2>5, <2>6, <2>7 DEF FetchNext
  <1>3. FetchInv => NoPostFallsBetweenPolls /\ OneRunInInterval /\ SpendStaysNearTheCap
    <2> SUFFICES ASSUME FetchInv PROVE NoPostFallsBetweenPolls /\ OneRunInInterval /\ SpendStaysNearTheCap
      OBVIOUS
    <2>1. NoPostFallsBetweenPolls /\ OneRunInInterval
      BY DEF FetchInv, PostsInv, CadenceInv, OneRunInInterval
    <2>2. Cardinality(Calling) \in Nat
      BY Bounds, FS_Subset, FS_CardinalityType DEF Calling
    <2>3. Cardinality(Calling) * Page \in Nat /\ Cardinality(Runs) * Page \in Nat
      <3> DEFINE k == Cardinality(Calling)  r == Cardinality(Runs)
      <3>1. k \in Nat /\ r \in Nat /\ Page \in Nat
        BY <2>2, Bounds
      <3> HIDE DEF k, r
      <3>2. k * Page \in Nat /\ r * Page \in Nat
        BY <3>1, SMT
      <3> QED
        BY <3>2 DEF k, r
    <2>4. SpendStaysNearTheCap
      BY <2>3, Bounds DEF FetchInv, FetchTyped, SpendInv, SpendStaysNearTheCap
    <2> QED
      BY <2>1, <2>4
  <1>4. FetchInv /\ [FetchNext]_fetchVars =>
          [\A p \in Posts : status[p] = "settled" => status'[p] = "settled"]_fetchVars
    BY <1>2
  <1> QED
    BY <1>1, <1>2, <1>3, <1>4, PTL DEF FetchSpec, PollsAreAccountedFor, VerdictsOutlastSightings

-----------------------------------------------------------------------------
(* Copies of one vacancy at several sources (CrossPosting).                *)

IdsWithinEmployers(v) ==
    \A l, m \in Listings : v[l] # None /\ v[l] = v[m] => Employer(l) = Employer(m)

\* A vacancy is a set of the rows it was sought in, all of one employer.
LEMMA ClusterFacts ==
    ASSUME NEW S, NEW l \in S
    PROVE  /\ Cluster(l, S) \subseteq S
           /\ l \in Cluster(l, S)
           /\ \A m \in Cluster(l, S) : Employer(m) = Employer(l)
  BY DEF Cluster

LEMMA CrossedFacts ==
    ASSUME NEW S, NEW C \in Crossed(S)
    PROVE  /\ C \subseteq S
           /\ \A l, m \in C : Employer(l) = Employer(m)
  <1>1. PICK l \in S : C = Cluster(l, S)
    BY DEF Crossed
  <1> QED
    BY <1>1, ClusterFacts

\* An elected id is one a copy of the vacancy carries, or one that no row carries.
LEMMA ElectedIdFacts ==
    ASSUME NEW C, C \subseteq Listings, NEW v \in ElectedIds(C)
    PROVE  (\E n \in C : vacancy[n] = v) \/ (\A n \in Listings : vacancy[n] # v)
  <1> DEFINE existing == {vacancy[l] : l \in C} \ {None}
             preferred == {vacancy[l] : l \in First(DisplayOrder, C)}
  <1>1. First(DisplayOrder, C) \subseteq C
    BY DEF First
  <1>2. \A x \in existing \cup preferred : \E n \in C : vacancy[n] = x
    BY <1>1
  <1>3. v \in Ids \ {vacancy[l] : l \in Listings} \/ v \in existing \/ v \in preferred
    BY Zenon DEF ElectedIds
  <1> QED
    BY <1>2, <1>3

LEMMA VacancyFacts ==
    ASSUME NEW S, NEW l \in UNION Crossed(S)
    PROVE  Vacancy(l, S) \in Crossed(S) /\ l \in Vacancy(l, S)
  BY DEF Vacancy

\* A pass keeps every id within one employer.
LEMMA ElectKeepsIds ==
    ASSUME NEW S, S \subseteq Listings, IdsWithinEmployers(vacancy), Elect(S)
    PROVE  IdsWithinEmployers(vacancy')
  <1> DEFINE X == Crossed(S)
             Of(l) == Vacancy(l, S)
  <1>0. PICK id \in [X -> Ids] :
          Identifies(S, id) /\ \E shown, sent : Write(S, shown, sent, id)
    BY Zenon DEF Elect
  <1>1. /\ \A C \in X : id[C] \in ElectedIds(C)
        /\ \A C, D \in X : C # D /\ id[C] = id[D] => \E n \in C : vacancy[n] = id[C]
        /\ \A l \in UNION X : Of(l) \in X /\ l \in Of(l)
        /\ vacancy' = [l \in Listings |-> IF l \in UNION X THEN id[Of(l)]
                                          ELSE IF l \in S THEN None ELSE vacancy[l]]
    BY <1>0, VacancyFacts, Zenon DEF Identifies, Write
  <1>2. \A C \in X : C \subseteq Listings /\ \A l, m \in C : Employer(l) = Employer(m)
    BY CrossedFacts
  <1>3. \A C \in X : id[C] # None
    BY <1>1, CrossPostingAssumption
  <1>4. \A C \in X : (\E n \in C : vacancy[n] = id[C]) \/ (\A n \in Listings : vacancy[n] # id[C])
    BY <1>1, <1>2, ElectedIdFacts
  <1> HIDE DEF X, Of
  <1> SUFFICES ASSUME NEW l \in Listings, NEW m \in Listings,
                      vacancy'[l] # None, vacancy'[l] = vacancy'[m]
               PROVE  Employer(l) = Employer(m)
    BY DEF IdsWithinEmployers
  \* A row outside every vacancy of S that shares the id of one.
  <1>5. ASSUME NEW C \in X, NEW r \in C, NEW o \in Listings, vacancy[o] = id[C]
        PROVE  Employer(r) = Employer(o)
    <2>1. PICK n \in C : vacancy[n] = id[C]
      BY <1>4, <1>5
    <2>2. Employer(n) = Employer(o)
      BY <1>2, <1>3, <1>5, <2>1 DEF IdsWithinEmployers
    <2> QED
      BY <1>2, <2>2
  <1>6. CASE l \in UNION X /\ m \in UNION X
    <2>1. /\ Of(l) \in X /\ l \in Of(l) /\ vacancy'[l] = id[Of(l)]
          /\ Of(m) \in X /\ m \in Of(m) /\ vacancy'[m] = id[Of(m)]
      BY <1>1, <1>6
    <2>2. CASE Of(l) = Of(m)
      BY <1>2, <2>1, <2>2
    <2>3. CASE Of(l) # Of(m)
      <3>1. PICK n \in Of(m) : vacancy[n] = id[Of(m)]
        BY <1>1, <2>1, <2>3
      <3>2. n \in Listings /\ vacancy[n] = id[Of(l)] /\ Employer(n) = Employer(m)
        BY <1>2, <2>1, <3>1
      <3> QED
        BY <1>5, <2>1, <3>2
    <2> QED
      BY <2>2, <2>3
  <1>7. CASE l \in UNION X /\ m \notin UNION X
    <2>1. Of(l) \in X /\ l \in Of(l) /\ vacancy[m] = id[Of(l)]
      BY <1>1, <1>7
    <2> QED
      BY <1>5, <2>1
  <1>8. CASE l \notin UNION X /\ m \in UNION X
    <2>1. Of(m) \in X /\ m \in Of(m) /\ vacancy[l] = id[Of(m)]
      BY <1>1, <1>8
    <2> QED
      BY <1>5, <2>1
  <1>9. CASE l \notin UNION X /\ m \notin UNION X
    BY <1>1, <1>9 DEF IdsWithinEmployers
  <1> QED
    BY <1>6, <1>7, <1>8, <1>9

\* A pass keeps the election's types: links lead to stored rows, ids are Ids.
LEMMA ElectType ==
    ASSUME NEW S, S \subseteq Stored, TypeOK, Elect(S)
    PROVE  /\ primary' \subseteq Listings /\ primary \ S \subseteq primary'
           /\ applyTo' \in [Listings -> Stored \cup {None}]
           /\ vacancy' \in [Listings -> Ids \cup {None}]
  <1> DEFINE X == Crossed(S)
             Of(l) == Vacancy(l, S)
  <1>1. PICK shown \in [X -> S], sent \in [X -> S], id \in [X -> Ids] : Write(S, shown, sent, id)
    BY Zenon DEF Elect
  <1>2. \A l \in UNION X : Of(l) \in X
    BY VacancyFacts
  <1>3. \A C \in X : C \subseteq S /\ shown[C] \in S /\ sent[C] \in S /\ id[C] \in Ids
    BY <1>1, CrossedFacts
  <1>4. /\ primary' = (primary \ UNION X) \cup (S \ UNION X) \cup {shown[C] : C \in X}
        /\ applyTo' = [l \in Listings |-> IF l \in UNION X THEN sent[Of(l)]
                                          ELSE IF l \in S THEN None ELSE applyTo[l]]
        /\ vacancy' = [l \in Listings |-> IF l \in UNION X THEN id[Of(l)]
                                          ELSE IF l \in S THEN None ELSE vacancy[l]]
    BY <1>1, Zenon DEF Write
  <1>5. Stored \subseteq Listings
    BY DEF Stored
  <1> HIDE DEF X, Of
  <1>6. primary' \subseteq Listings /\ primary \ S \subseteq primary'
    BY <1>3, <1>4, <1>5 DEF TypeOK
  <1>7. applyTo' \in [Listings -> Stored \cup {None}]
    BY <1>2, <1>3, <1>4 DEF TypeOK
  <1>8. vacancy' \in [Listings -> Ids \cup {None}]
    BY <1>2, <1>3, <1>4 DEF TypeOK
  <1> QED
    BY <1>6, <1>7, <1>8

LEMMA ScopeFacts == ASSUME NEW f PROVE Scope(f) \subseteq open
  BY DEF Scope

LEMMA InitType == Init => TypeOK
  <1> SUFFICES ASSUME Init PROVE TypeOK
    OBVIOUS
  <1>1. Stored = {}
    BY DEF Init, Stored
  <1> QED
    BY <1>1 DEF Init, TypeOK

LEMMA UpsertedType ==
    ASSUME TypeOK, NEW found \in SUBSET Listings, NEW open0 \in SUBSET open, Upserted(found, open0)
    PROVE  /\ title' \in [Listings -> Titles \cup {None}]
           /\ rich' \in [Listings -> Richness \cup {0}]
           /\ open' \subseteq Stored' /\ Stored \subseteq Stored'
           /\ applyTo' = applyTo /\ primary' = primary /\ vacancy' = vacancy
  <1>1. PICK t \in [found -> Titles], r \in [found -> Richness] :
          /\ title' = [l \in Listings |-> IF l \in found THEN t[l] ELSE title[l]]
          /\ rich' = [l \in Listings |-> IF l \in found THEN r[l] ELSE rich[l]]
    BY Zenon DEF Upserted
  <1>2. title' \in [Listings -> Titles \cup {None}] /\ rich' \in [Listings -> Richness \cup {0}]
    BY <1>1 DEF TypeOK
  <1>3. \A l \in found : title'[l] # None
    BY <1>1, CrossPostingAssumption
  <1>4. \A l \in Listings \ found : title'[l] = title[l]
    BY <1>1
  <1>5. Stored \subseteq Stored' /\ found \subseteq Stored'
    BY <1>3, <1>4 DEF Stored
  <1>6. open' = open0 \cup found /\ applyTo' = applyTo /\ primary' = primary /\ vacancy' = vacancy
    BY DEF Upserted, election
  <1> QED
    BY <1>2, <1>5, <1>6 DEF TypeOK

\* What a pass over S needs and leaves, with the rows untouched.
LEMMA PassType ==
    ASSUME TypeOK, NEW S \in SUBSET open, Elect(S), UNCHANGED rows
    PROVE  /\ title' \in [Listings -> Titles \cup {None}]
           /\ rich' \in [Listings -> Richness \cup {0}]
           /\ open' \subseteq Stored'
           /\ primary' \subseteq Listings /\ Listings \ Stored' \subseteq primary'
           /\ applyTo' \in [Listings -> Stored' \cup {None}]
           /\ vacancy' \in [Listings -> Ids \cup {None}]
  <1>1. Stored' = Stored /\ S \subseteq Stored
    BY DEF TypeOK, Stored, rows
  <1>2. /\ primary' \subseteq Listings /\ primary \ S \subseteq primary'
        /\ applyTo' \in [Listings -> Stored \cup {None}]
        /\ vacancy' \in [Listings -> Ids \cup {None}]
    BY <1>1, ElectType
  <1>3. Listings \ Stored' \subseteq primary'
    BY <1>1, <1>2 DEF TypeOK
  <1> QED
    BY <1>1, <1>2, <1>3 DEF TypeOK, rows

LEMMA NextType == TypeOK /\ [Next]_vars => TypeOK'
  <1> SUFFICES ASSUME TypeOK, [Next]_vars PROVE TypeOK'
    OBVIOUS
  <1> DEFINE Emps == {Employer(l) : l \in Listings}
             RowsTyped == /\ title' \in [Listings -> Titles \cup {None}]
                          /\ rich' \in [Listings -> Richness \cup {0}]
                          /\ open' \subseteq Stored'
                          /\ primary' \subseteq Listings /\ Listings \ Stored' \subseteq primary'
                          /\ applyTo' \in [Listings -> Stored' \cup {None}]
                          /\ vacancy' \in [Listings -> Ids \cup {None}]
             ControlTyped == /\ step' \in {"rest", "scraping", "promoted", "reelecting", "crashed"}
                             /\ resume' \in {"rest", "scraping"}
                             /\ touched' \subseteq Slugs /\ (touched' # {} <=> step' = "reelecting")
                             /\ unelected' \subseteq Emps
  <1>1. RowsTyped /\ ControlTyped => TypeOK'
    BY DEF TypeOK
  <1>2. \A R \in SUBSET Listings : {SlugOf[l] : l \in R} \subseteq Slugs /\
                                   (R # {} => {SlugOf[l] : l \in R} # {})
    BY DEF Slugs
  <1>3. Stored \subseteq Listings /\ open \subseteq Listings
    BY DEF Stored, TypeOK
  <1>4. ASSUME UNCHANGED rows, UNCHANGED election PROVE RowsTyped
    BY <1>4 DEF TypeOK, rows, election, Stored
  <1>5. ASSUME UNCHANGED <<title, rich, election>>, open' \subseteq Stored PROVE RowsTyped
    BY <1>5 DEF TypeOK, election, Stored
  <1>6. ASSUME NEW found \in SUBSET Listings, NEW open0 \in SUBSET open, Upserted(found, open0)
        PROVE  RowsTyped
    <2>1. /\ title' \in [Listings -> Titles \cup {None}]
          /\ rich' \in [Listings -> Richness \cup {0}]
          /\ open' \subseteq Stored' /\ Stored \subseteq Stored'
          /\ applyTo' = applyTo /\ primary' = primary /\ vacancy' = vacancy
      BY <1>6, UpsertedType
    <2> QED
      BY <2>1 DEF TypeOK
  <1>7. ASSUME NEW S \in SUBSET open, Elect(S), UNCHANGED rows PROVE RowsTyped
    BY <1>7, PassType
  <1> HIDE DEF RowsTyped, ControlTyped, Emps
  <1>10. CASE StartRun
    <2>1. RowsTyped
      BY <1>4, <1>10 DEF StartRun
    <2>2. ControlTyped
      BY <1>10 DEF StartRun, ControlTyped, Emps, TypeOK
    <2> QED
      BY <1>1, <2>1, <2>2
  <1>11. CASE Reconcile
    <2>1. RowsTyped
      BY <1>7, <1>11 DEF Reconcile
    <2>2. ControlTyped
      BY <1>11 DEF Reconcile, ControlTyped, Emps, TypeOK
    <2> QED
      BY <1>1, <2>1, <2>2
  <1>12. CASE Retire
    <2>1. PICK R \in (SUBSET open) \ {{}} : open' = open \ R /\ touched' = {SlugOf[l] : l \in R}
      BY <1>12 DEF Retire
    <2>2. RowsTyped
      BY <1>5, <1>12, <2>1 DEF Retire, TypeOK
    <2>5. R \in SUBSET Listings /\ R # {}
      BY <1>3, <2>1
    <2>3. touched' \subseteq Slugs /\ touched' # {}
      BY <1>2, <2>1, <2>5, Zenon
    <2>4. ControlTyped
      BY <1>12, <2>3 DEF Retire, ControlTyped, Emps, TypeOK
    <2> QED
      BY <1>1, <2>2, <2>4
  <1>13. CASE Restore
    <2>1. PICK R \in (SUBSET (Stored \ open)) \ {{}} : open' = open \cup R /\ touched' = {SlugOf[l] : l \in R}
      BY <1>13 DEF Restore
    <2>2. RowsTyped
      BY <1>5, <1>13, <2>1 DEF Restore, TypeOK
    <2>5. R \in SUBSET Listings /\ R # {}
      BY <1>3, <2>1
    <2>3. touched' \subseteq Slugs /\ touched' # {}
      BY <1>2, <2>1, <2>5, Zenon
    <2>4. ControlTyped
      BY <1>13, <2>3 DEF Restore, ControlTyped, Emps, TypeOK
    <2> QED
      BY <1>1, <2>2, <2>4
  <1>14. CASE Reelect
    <2>1. PICK f \in Picks :
            /\ Elect(Scope(f))
            /\ unelected' \subseteq {Employer(l) : l \in open \ Scope(f)}
      BY <1>14 DEF Reelect
    <2>2. RowsTyped
      BY <1>7, <1>14, <2>1, ScopeFacts DEF Reelect
    <2>4. unelected' \subseteq Emps
      BY <1>3, <2>1 DEF Emps
    <2>5. ControlTyped
      BY <1>14, <2>4 DEF Reelect, ControlTyped, TypeOK
    <2> QED
      BY <1>1, <2>2, <2>5
  <1>15. CASE Promote
    <2>1. PICK found \in SUBSET Listings : Upserted(found, open)
      BY <1>15 DEF Promote
    <2>2. RowsTyped
      BY <1>6, <2>1
    <2>3. ControlTyped
      BY <1>15 DEF Promote, ControlTyped, Emps, TypeOK
    <2> QED
      BY <1>1, <2>2, <2>3
  <1>16. CASE Crash
    <2>1. RowsTyped
      BY <1>4, <1>16 DEF Crash
    <2>2. ControlTyped
      BY <1>16 DEF Crash, ControlTyped, Emps, TypeOK
    <2> QED
      BY <1>1, <2>1, <2>2
  <1>17. ASSUME NEW s \in Slugs, NEW src \in Sources, Scrape(s, src) PROVE TypeOK'
    <2> DEFINE own == {l \in Listings : SlugOf[l] = s /\ SourceOf[l] = src}
    <2>1. PICK found \in SUBSET own :
            \/ Upserted(found, open) /\ UNCHANGED <<step, touched, resume>>
            \/ /\ Upserted(found, open \ own)
               /\ touched' = {s} /\ step' = "reelecting" /\ resume' = step
      BY <1>17 DEF Scrape
    <2>2. RowsTyped
      BY <1>6, <2>1
    <2>3. ControlTyped
      BY <1>17, <2>1 DEF Scrape, ControlTyped, Emps, TypeOK
    <2> QED
      BY <1>1, <2>2, <2>3
  <1>18. CASE UNCHANGED vars
    <2>1. UNCHANGED rows /\ UNCHANGED election /\ UNCHANGED <<step, touched, resume, unelected>>
      BY <1>18 DEF vars
    <2>2. RowsTyped
      BY <1>4, <2>1
    <2>3. ControlTyped
      BY <2>1 DEF ControlTyped, Emps, TypeOK
    <2> QED
      BY <1>1, <2>2, <2>3
  <1> QED
    BY <1>10, <1>11, <1>12, <1>13, <1>14, <1>15, <1>16, <1>17, <1>18 DEF Next

\* The election and its bookkeeping keep their types; an apply link always leads to
\* a stored copy.
THEOREM TypeCorrect == Spec => []TypeOK
  <1> QED
    BY InitType, NextType, PTL DEF Spec

\* A Saved Role is never redirected to another employer's Role, for any Listings,
\* slugs, names and similarity of titles, whatever is merged, split, closed,
\* restored or cut short by a crash.
THEOREM RedirectsWithinEmployers == Spec => []RedirectsStayWithTheEmployer
  <1>1. Init => RedirectsStayWithTheEmployer
    BY DEF Init, RedirectsStayWithTheEmployer
  <1>2. TypeOK /\ RedirectsStayWithTheEmployer /\ [Next]_vars => RedirectsStayWithTheEmployer'
    <2> SUFFICES ASSUME TypeOK, RedirectsStayWithTheEmployer, [Next]_vars
                 PROVE  RedirectsStayWithTheEmployer'
      OBVIOUS
    <2>1. RedirectsStayWithTheEmployer <=> IdsWithinEmployers(vacancy)
      BY DEF RedirectsStayWithTheEmployer, IdsWithinEmployers
    <2>2. IdsWithinEmployers(vacancy') => RedirectsStayWithTheEmployer'
      BY DEF RedirectsStayWithTheEmployer, IdsWithinEmployers, Employer
    <2>3. open \subseteq Listings
      BY DEF TypeOK, Stored
    <2>4. CASE vacancy' = vacancy
      BY <2>1, <2>2, <2>4
    <2>5. ASSUME NEW S \in SUBSET open, Elect(S) PROVE RedirectsStayWithTheEmployer'
      BY <2>1, <2>2, <2>3, <2>5, ElectKeepsIds
    <2>6. CASE Reconcile
      BY <2>5, <2>6 DEF Reconcile
    <2>7. CASE Reelect
      BY <2>5, <2>7, ScopeFacts DEF Reelect
    <2>8. StartRun \/ Retire \/ Restore \/ Promote \/ Crash => vacancy' = vacancy
      BY DEF StartRun, Retire, Restore, Promote, Crash, Upserted, election
    <2>9. ASSUME NEW s \in Slugs, NEW src \in Sources, Scrape(s, src) PROVE vacancy' = vacancy
      BY <2>9 DEF Scrape, Upserted, election
    <2>10. UNCHANGED vars => vacancy' = vacancy
      BY DEF vars, election
    <2> QED
      BY <2>4, <2>6, <2>7, <2>8, <2>9, <2>10 DEF Next
  <1> QED
    BY <1>1, <1>2, TypeCorrect, PTL DEF Spec
-----------------------------------------------------------------------------
\* One card per vacancy.  The vacancies of a set of rows part it, a pass that reads an
\* employer's open rows agrees on each of its vacancies, and a pass that reads none of
\* them leaves them as they were.

\* A vacancy holds what is similar to what it holds, and is the least set that does.
LEMMA ClusterIsLinked ==
    ASSUME NEW S, NEW l \in S, NEW p \in Cluster(l, S), NEW n \in S,
           Employer(n) = Employer(l), <<title[p], title[n]>> \in Similar
    PROVE  n \in Cluster(l, S)
  BY DEF Cluster

LEMMA ClusterIsLeast ==
    ASSUME NEW S, NEW l \in S, NEW C \in SUBSET S, l \in C,
           \A m \in C : Employer(m) = Employer(l),
           \A m \in C, n \in S :
             Employer(n) = Employer(l) /\ <<title[m], title[n]>> \in Similar => n \in C
    PROVE  Cluster(l, S) \subseteq C
  <1> DEFINE G == {m \in S : Employer(m) = Employer(l)}
  <1>1. C \in SUBSET G /\ \A m \in C, n \in G : <<title[m], title[n]>> \in Similar => n \in C
    OBVIOUS
  <1> QED
    BY <1>1 DEF Cluster

\* Similarity is symmetric, so a vacancy is the same from each of its rows.
LEMMA ClusterIsShared ==
    ASSUME NEW S, NEW l \in S, NEW m \in Cluster(l, S)
    PROVE  Cluster(m, S) = Cluster(l, S)
  <1> DEFINE G == {n \in S : Employer(n) = Employer(l)}
             K == Cluster(m, S)
  <1>1. m \in S /\ Employer(m) = Employer(l) /\ m \in K /\ K \subseteq G
    BY ClusterFacts
  <1>2. \A p \in K, n \in G : <<title[p], title[n]>> \in Similar => n \in K
    BY <1>1, ClusterIsLinked
  <1>3. K \subseteq Cluster(l, S)
    <2>1. \A p \in Cluster(l, S), n \in S :
            Employer(n) = Employer(m) /\ <<title[p], title[n]>> \in Similar => n \in Cluster(l, S)
      BY <1>1, ClusterIsLinked
    <2>2. Cluster(l, S) \in SUBSET S /\ \A p \in Cluster(l, S) : Employer(p) = Employer(m)
      BY <1>1, ClusterFacts
    <2> QED
      BY <1>1, <2>1, <2>2, ClusterIsLeast
  \* Were l outside K, so would be all that is linked to it, m included.
  <1>4. l \in K
    <2> SUFFICES ASSUME l \notin K PROVE FALSE
      OBVIOUS
    <2>1. \A p \in G \ K, n \in G : <<title[p], title[n]>> \in Similar => n \in G \ K
      <3> SUFFICES ASSUME NEW p \in G \ K, NEW n \in K, <<title[p], title[n]>> \in Similar
                   PROVE  FALSE
        OBVIOUS
      <3>1. <<title[n], title[p]>> \in Similar
        BY CrossPostingAssumption
      <3> QED
        BY <1>2, <3>1
    <2>2. Cluster(l, S) \subseteq G \ K
      BY <2>1, ClusterIsLeast
    <2> QED
      BY <1>1, <2>2
  <1>5. Cluster(l, S) \subseteq K
    BY <1>1, <1>2, <1>4, ClusterIsLeast
  <1> QED
    BY <1>3, <1>5

\* The fewer rows are read, the smaller the vacancy.
LEMMA ClusterIsMonotone ==
    ASSUME NEW T, NEW S \in SUBSET T, NEW l \in S
    PROVE  Cluster(l, S) \subseteq Cluster(l, T)
  <1> DEFINE C == Cluster(l, T) \cap S
  <1>1. C \in SUBSET S /\ l \in C /\ \A m \in C : Employer(m) = Employer(l)
    BY ClusterFacts
  <1>2. \A m \in C, n \in S :
          Employer(n) = Employer(l) /\ <<title[m], title[n]>> \in Similar => n \in C
    BY ClusterIsLinked
  <1> QED
    BY <1>1, <1>2, ClusterIsLeast

\* A vacancy is made of its employer's rows alone.
LEMMA ClusterIsOfTheEmployer ==
    ASSUME NEW S, NEW T, NEW l \in S, l \in T,
           \A m : Employer(m) = Employer(l) => (m \in S <=> m \in T)
    PROVE  Cluster(l, S) = Cluster(l, T)
  <1>1. {m \in S : Employer(m) = Employer(l)} = {m \in T : Employer(m) = Employer(l)}
    OBVIOUS
  <1> QED
    BY <1>1 DEF Cluster

LEMMA CrossedIsShared ==
    ASSUME NEW S, NEW C \in Crossed(S), NEW l \in C
    PROVE  l \in S /\ C = Cluster(l, S) /\ SeveralSources(C)
  <1>1. PICK x \in S : C = Cluster(x, S) /\ SeveralSources(C)
    BY DEF Crossed
  <1> QED
    BY <1>1, ClusterFacts, ClusterIsShared

LEMMA VacancyIsCluster ==
    ASSUME NEW S, NEW l \in S
    PROVE  /\ l \in UNION Crossed(S) <=> SeveralSources(Cluster(l, S))
           /\ l \in UNION Crossed(S) => Vacancy(l, S) = Cluster(l, S)
           /\ SeveralSources(Cluster(l, S)) => Cluster(l, S) \in Crossed(S)
  <1>1. SeveralSources(Cluster(l, S)) => Cluster(l, S) \in Crossed(S)
    BY DEF Crossed
  <1>2. l \in Cluster(l, S)
    BY ClusterFacts
  <1>3. l \in UNION Crossed(S) => SeveralSources(Cluster(l, S)) /\ Vacancy(l, S) = Cluster(l, S)
    BY CrossedIsShared, VacancyFacts
  <1> QED
    BY <1>1, <1>2, <1>3

\* Agreed, of the election it speaks of.
AgreedOn(C, p, a, v) ==
    IF SeveralSources(C)
    THEN /\ Cardinality(C \cap p) = 1
         /\ \E x \in C, i \in Ids : \A l \in C : a[l] = x /\ v[l] = i
    ELSE C \subseteq p /\ \A l \in C : a[l] = None /\ v[l] = None

\* A pass over S agrees on every vacancy of S.
LEMMA ElectAgrees ==
    ASSUME NEW S, S \subseteq Listings, Elect(S), NEW l \in S
    PROVE  AgreedOn(Cluster(l, S), primary', applyTo', vacancy')
  <1> DEFINE X == Crossed(S)
             C == Cluster(l, S)
  <1> SUFFICES AgreedOn(C, primary', applyTo', vacancy')
    OBVIOUS
  <1>1. PICK shown \in [X -> S] :
          /\ \A D \in X : shown[D] \in Shown(D)
          /\ \E sent \in [X -> S] :
               /\ \A D \in X : sent[D] \in First(ApplyOrder, D)
               /\ \E id \in [X -> Ids] : Identifies(S, id) /\ Write(S, shown, sent, id)
    BY Zenon DEF Elect
  <1>2. PICK sent \in [X -> S] :
          /\ \A D \in X : sent[D] \in First(ApplyOrder, D)
          /\ \E id \in [X -> Ids] : Identifies(S, id) /\ Write(S, shown, sent, id)
    BY <1>1
  <1>3. PICK id \in [X -> Ids] : Write(S, shown, sent, id)
    BY <1>2
  <1>4. /\ primary' = (primary \ UNION X) \cup (S \ UNION X) \cup {shown[D] : D \in X}
        /\ applyTo' = [r \in Listings |-> IF r \in UNION X THEN sent[Vacancy(r, S)]
                                          ELSE IF r \in S THEN None ELSE applyTo[r]]
        /\ vacancy' = [r \in Listings |-> IF r \in UNION X THEN id[Vacancy(r, S)]
                                          ELSE IF r \in S THEN None ELSE vacancy[r]]
    BY <1>3, Zenon DEF Write
  <1>5. \A D \in X : shown[D] \in D /\ sent[D] \in D /\ id[D] \in Ids
    BY <1>1, <1>2 DEF Shown, First
  <1>6. C \subseteq S /\ l \in C /\ \A r \in C : Cluster(r, S) = C
    BY ClusterFacts, ClusterIsShared
  <1>7. CASE SeveralSources(C)
    <2>1. C \in X /\ \A r \in C : r \in Listings /\ r \in UNION X /\ Vacancy(r, S) = C
      BY <1>6, <1>7, VacancyIsCluster
    <2>2. \A D \in X : shown[D] \in C => D = C
      BY <1>5, <1>6, CrossedIsShared
    <2>3. C \cap primary' = {shown[C]}
      BY <1>4, <1>5, <2>1, <2>2
    <2>4. Cardinality(C \cap primary') = 1
      BY <2>3, FS_Singleton
    <2>5. \A r \in C : applyTo'[r] = sent[C] /\ vacancy'[r] = id[C]
      BY <1>4, <2>1
    <2>6. sent[C] \in C /\ id[C] \in Ids
      BY <1>5, <2>1
    <2> HIDE DEF C, X
    <2> QED
      BY <1>7, <2>4, <2>5, <2>6 DEF AgreedOn
  <1>8. CASE ~ SeveralSources(C)
    <2>1. \A r \in C : r \in S /\ r \in Listings /\ r \notin UNION X
      BY <1>6, <1>8, VacancyIsCluster
    <2>2. C \subseteq primary'
      BY <1>4, <2>1
    <2>3. \A r \in C : applyTo'[r] = None /\ vacancy'[r] = None
      BY <1>4, <2>1
    <2> HIDE DEF C
    <2> QED
      BY <1>8, <2>2, <2>3 DEF AgreedOn
  <1> QED
    BY <1>7, <1>8

\* It leaves the rows outside S as they were.
LEMMA ElectLeavesOthers ==
    ASSUME NEW S, S \subseteq Listings, Elect(S), NEW r \in Listings \ S
    PROVE  /\ r \in primary' <=> r \in primary
           /\ applyTo'[r] = applyTo[r] /\ vacancy'[r] = vacancy[r]
  <1> DEFINE X == Crossed(S)
  <1>1. PICK shown \in [X -> S] : \E sent, id : Write(S, shown, sent, id)
    BY Zenon DEF Elect
  <1>2. PICK sent, id : Write(S, shown, sent, id)
    BY <1>1
  <1>3. /\ primary' = (primary \ UNION X) \cup (S \ UNION X) \cup {shown[D] : D \in X}
        /\ applyTo' = [n \in Listings |-> IF n \in UNION X THEN sent[Vacancy(n, S)]
                                          ELSE IF n \in S THEN None ELSE applyTo[n]]
        /\ vacancy' = [n \in Listings |-> IF n \in UNION X THEN id[Vacancy(n, S)]
                                          ELSE IF n \in S THEN None ELSE vacancy[n]]
    BY <1>2, Zenon DEF Write
  <1>4. UNION X \subseteq S
    BY CrossedFacts
  <1>5. {shown[D] : D \in X} \subseteq S
    OBVIOUS
  <1> HIDE DEF X
  <1> QED
    BY <1>3, <1>4, <1>5

\* What is still to be elected: every open vacancy but those of the employers of Ex agrees.
AllAgreeBut(Ex) == \A l \in open : Employer(l) \notin Ex => Agreed(Cluster(l, open))

\* Between passes the vacancies no pass missed agree, and after a closing so do those
\* of every employer that the closing did not touch.
ElectionInv ==
    /\ step = "rest" => AllAgreeBut(unelected)
    /\ step = "reelecting" /\ resume = "rest" => AllAgreeBut(unelected \cup Touched)

LEMMA AgreedIsOn ==
    ASSUME NEW l
    PROVE  /\ Agreed(Cluster(l, open)) <=> AgreedOn(Cluster(l, open), primary, applyTo, vacancy)
           /\ Agreed(Cluster(l, open))' <=> AgreedOn(Cluster(l, open)', primary', applyTo', vacancy')
  BY DEF Agreed, AgreedOn

\* The employers picked are read whole.
LEMMA PickedAreWhole ==
    ASSUME NEW f, NEW s \in touched, NEW l \in open, Employer(l) \in f[s]
    PROVE  l \in Scope(f)
  BY DEF Scope

\* A pass that reads every open row of an employer settles its vacancies.
LEMMA WholeIsSettled ==
    ASSUME NEW S \in SUBSET open, open \subseteq Listings, Elect(S), UNCHANGED rows,
           NEW l \in S, \A m \in open : Employer(m) = Employer(l) => m \in S
    PROVE  Agreed(Cluster(l, open))'
  <1>1. Cluster(l, S) = Cluster(l, open)
    BY ClusterIsOfTheEmployer
  <1>2. Cluster(l, open)' = Cluster(l, open)
    BY DEF rows, Cluster
  <1>3. AgreedOn(Cluster(l, S), primary', applyTo', vacancy')
    BY ElectAgrees
  <1> QED
    BY <1>1, <1>2, <1>3, AgreedIsOn

\* A pass that reads none of an employer's rows leaves its vacancies.
LEMMA UnreadIsLeft ==
    ASSUME NEW S \in SUBSET open, open \subseteq Listings, Elect(S), UNCHANGED rows,
           NEW l \in open, \A m \in S : Employer(m) # Employer(l), Agreed(Cluster(l, open))
    PROVE  Agreed(Cluster(l, open))'
  <1> DEFINE C == Cluster(l, open)
  <1>1. Cluster(l, open)' = C
    BY DEF rows, Cluster
  <1>2. C \subseteq Listings \ S
    BY ClusterFacts
  <1>3. \A r \in C : (r \in primary' <=> r \in primary) /\ applyTo'[r] = applyTo[r] /\ vacancy'[r] = vacancy[r]
    BY <1>2, ElectLeavesOthers
  <1>4. C \cap primary' = C \cap primary /\ (C \subseteq primary' <=> C \subseteq primary)
    BY <1>3
  <1>5. AgreedOn(C, primary, applyTo, vacancy)
    BY AgreedIsOn
  <1>6. AgreedOn(C, primary', applyTo', vacancy')
    <2> HIDE DEF C
    <2>1. CASE SeveralSources(C)
      <3>1. PICK x \in C, i \in Ids : \A r \in C : applyTo[r] = x /\ vacancy[r] = i
        BY <1>5, <2>1 DEF AgreedOn
      <3>2. \A r \in C : applyTo'[r] = x /\ vacancy'[r] = i
        BY <1>3, <3>1
      <3>3. Cardinality(C \cap primary') = 1
        BY <1>4, <1>5, <2>1 DEF AgreedOn
      <3> QED
        BY <2>1, <3>2, <3>3 DEF AgreedOn
    <2>2. CASE ~ SeveralSources(C)
      BY <1>3, <1>4, <1>5, <2>2 DEF AgreedOn
    <2> QED
      BY <2>1, <2>2
  <1> QED
    BY <1>1, <1>6, AgreedIsOn

LEMMA ReelectSettles ==
    ASSUME TypeOK, ElectionInv, Reelect PROVE ElectionInv'
  <1>1. step' = resume /\ step = "reelecting" /\ UNCHANGED <<rows, resume>>
    BY DEF Reelect
  <1>2. PICK f \in Picks :
          LET S == Scope(f)
              Unsettled == unelected \cup Touched \cup {Employer(l) : l \in S}
          IN  /\ Elect(S)
              /\ unelected' = (Unsettled \cap {Employer(l) : l \in open \ S}) \ UNION {f[s] : s \in touched}
    BY DEF Reelect
  <1> DEFINE S == Scope(f)
             Unsettled == unelected \cup Touched \cup {Employer(l) : l \in S}
  <1>3. /\ Elect(S)
        /\ unelected' = (Unsettled \cap {Employer(l) : l \in open \ S}) \ UNION {f[s] : s \in touched}
    BY <1>2
  <1>4. S \in SUBSET open /\ open \subseteq Listings /\ open' = open
    BY <1>1, ScopeFacts DEF TypeOK, Stored, rows
  <1>5. ASSUME resume = "rest", NEW l \in open, Employer(l) \notin unelected'
        PROVE  Agreed(Cluster(l, open))'
    <2>1. CASE \A m \in open : Employer(m) = Employer(l) => m \in S
      <3> HIDE DEF S
      <3> QED
        BY <1>1, <1>3, <1>4, <2>1, WholeIsSettled
    <2>2. CASE \E m \in open : Employer(m) = Employer(l) /\ m \notin S
      <3>1. PICK m \in open : Employer(m) = Employer(l) /\ m \notin S
        BY <2>2
      <3>2. Employer(l) \notin UNION {f[s] : s \in touched}
        BY <3>1, PickedAreWhole
      <3>3. Employer(l) \notin Unsettled
        BY <1>3, <1>5, <3>1, <3>2
      <3>4. Agreed(Cluster(l, open))
        BY <1>1, <1>5, <3>3 DEF ElectionInv, AllAgreeBut
      <3>5. \A n \in S : Employer(n) # Employer(l)
        BY <3>3
      <3> HIDE DEF S
      <3> QED
        BY <1>1, <1>3, <1>4, <3>4, <3>5, UnreadIsLeft
    <2> QED
      BY <2>1, <2>2
  <1>6. resume = "rest" => AllAgreeBut(unelected)'
    BY <1>4, <1>5 DEF AllAgreeBut, Employer
  <1> QED
    BY <1>1, <1>6 DEF ElectionInv, TypeOK

LEMMA ReconcileSettles ==
    ASSUME TypeOK, Reconcile PROVE ElectionInv'
  <1>1. step' = "rest" /\ UNCHANGED rows /\ Elect(open)
    BY DEF Reconcile
  <1>2. open \subseteq Listings /\ open' = open
    BY <1>1 DEF TypeOK, Stored, rows
  <1>3. ASSUME NEW l \in open PROVE Agreed(Cluster(l, open))'
    BY <1>1, <1>2, WholeIsSettled
  <1>4. AllAgreeBut(unelected)'
    BY <1>2, <1>3 DEF AllAgreeBut
  <1> QED
    BY <1>1, <1>4 DEF ElectionInv

\* A closing disturbs the vacancies of the employers it touches and no other.
LEMMA RetireTouches ==
    ASSUME TypeOK, ElectionInv, Retire PROVE ElectionInv'
  <1>1. PICK R \in SUBSET open : open' = open \ R /\ touched' = {SlugOf[l] : l \in R}
    BY DEF Retire
  <1>2. /\ step = "rest" /\ step' = "reelecting"
        /\ UNCHANGED <<title, primary, applyTo, vacancy, unelected>>
    BY DEF Retire, election
  <1>3. Stored' = Stored /\ open \subseteq Stored
    BY <1>2 DEF Stored, TypeOK
  <1>4. \A r \in R : Employer(r) \in Touched'
    BY <1>1, <1>3 DEF Touched, Employer
  <1>5. ASSUME NEW l \in open', Employer(l) \notin unelected', Employer(l) \notin Touched'
        PROVE  Agreed(Cluster(l, open))'
    <2>1. Agreed(Cluster(l, open))
      BY <1>1, <1>2, <1>5 DEF ElectionInv, AllAgreeBut
    <2>2. Cluster(l, open)' = Cluster(l, open')
      BY <1>2 DEF Cluster
    <2>3. Cluster(l, open') = Cluster(l, open)
      BY <1>1, <1>4, <1>5, ClusterIsOfTheEmployer
    <2>4. AgreedOn(Cluster(l, open), primary, applyTo, vacancy)
      BY <2>1, AgreedIsOn
    <2> QED
      BY <1>2, <2>2, <2>3, <2>4, AgreedIsOn
  <1>6. AllAgreeBut(unelected \cup Touched)'
    BY <1>5 DEF AllAgreeBut
  <1> QED
    BY <1>2, <1>6 DEF ElectionInv

LEMMA StillnessKeepsElection ==
    ASSUME ElectionInv, UNCHANGED vars PROVE ElectionInv'
  <1>1. UNCHANGED <<title, open, primary, applyTo, vacancy, step, resume, touched, unelected>>
    BY DEF vars, rows, election
  <1>2. Touched' = Touched
    BY <1>1 DEF Touched, Stored
  <1>3. \A l : Agreed(Cluster(l, open))' <=> Agreed(Cluster(l, open))
    BY <1>1 DEF Agreed, Cluster
  <1> QED
    BY <1>1, <1>2, <1>3 DEF ElectionInv, AllAgreeBut

\* An open vacancy found on several sources has one card, one apply link and one id, and
\* every other open Listing stands for itself, for any Listings, sources, slugs, names
\* and similarity of titles, whenever the pipeline rests.
THEOREM OneCardEach == Spec => []OneCardPerVacancy
  <1>1. Init => ElectionInv
    BY DEF Init, ElectionInv, AllAgreeBut
  <1>2. TypeOK /\ ElectionInv /\ [Next]_vars => ElectionInv'
    <2> SUFFICES ASSUME TypeOK, ElectionInv, [Next]_vars PROVE ElectionInv'
      OBVIOUS
    <2>1. StartRun \/ Promote \/ Crash => step' \in {"scraping", "promoted", "crashed"}
      BY DEF StartRun, Promote, Crash
    <2>2. Restore => step' = "reelecting" /\ resume' = "scraping"
      BY DEF Restore
    <2>3. ASSUME NEW s \in Slugs, NEW src \in Sources, Scrape(s, src)
          PROVE  step' = "scraping" \/ (step' = "reelecting" /\ resume' = "scraping")
      BY <2>3 DEF Scrape
    <2>4. step' \in {"scraping", "promoted", "crashed"} \/ (step' = "reelecting" /\ resume' = "scraping")
            => ElectionInv'
      BY DEF ElectionInv
    <2> QED
      BY <2>1, <2>2, <2>3, <2>4, ReelectSettles, ReconcileSettles, RetireTouches,
         StillnessKeepsElection DEF Next
  <1>3. ElectionInv => OneCardPerVacancy
    BY DEF ElectionInv, AllAgreeBut, OneCardPerVacancy
  <1> QED
    BY <1>1, <1>2, <1>3, TypeCorrect, PTL DEF Spec

-----------------------------------------------------------------------------
\* A pass over S that takes a closed row's redirect away took it from a vacancy of one
\* source, or merged it with one that has an id of its own, or read its employer in part.
LEMMA ElectLoses ==
    ASSUME NEW S \in SUBSET open, open \subseteq Listings, TypeOK, Elect(S), UNCHANGED rows,
           NEW l \in Listings, NEW m \in Listings, Loses(l, m)
    PROVE  LET C == Cluster(m, open) IN
             \/ ~ SeveralSources(C)
             \/ \E n \in C : vacancy[n] \notin {None, vacancy[l]}
             \/ /\ \E r \in S : Employer(r) = Employer(m)
                /\ \E r \in open \ S : Employer(r) = Employer(m)
  <1> DEFINE X == Crossed(S)
             D == Cluster(m, S)
             existing == {vacancy[r] : r \in D} \ {None}
  <1>1. /\ l \in Listings \ S /\ m \in open
        /\ vacancy[l] # None /\ vacancy[m] = vacancy[l] /\ vacancy'[m] # vacancy'[l]
    BY DEF Loses, Redirected
  <1>2. vacancy'[l] = vacancy[l]
    BY <1>1, ElectLeavesOthers
  <1>3. m \in S
    BY <1>1, <1>2, ElectLeavesOthers
  <1>4. m \in D /\ D \subseteq S /\ D \subseteq Cluster(m, open)
    BY <1>3, ClusterFacts, ClusterIsMonotone
  <1>5. CASE SeveralSources(D)
    <2>1. D \in X /\ m \in UNION X /\ Vacancy(m, S) = D
      BY <1>3, <1>5, VacancyIsCluster
    <2>2. PICK id \in [X -> Ids] : Identifies(S, id) /\ \E shown, sent : Write(S, shown, sent, id)
      BY Zenon DEF Elect
    <2>3. id[D] \in ElectedIds(D)
      BY <2>1, <2>2 DEF Identifies
    <2>4. vacancy'[m] = id[D]
      <3>1. vacancy' = [r \in Listings |-> IF r \in UNION X THEN id[Vacancy(r, S)]
                                           ELSE IF r \in S THEN None ELSE vacancy[r]]
        BY <2>2, Zenon DEF Write
      <3> HIDE DEF X
      <3> QED
        BY <2>1, <3>1
    <2>5. vacancy[l] \in existing
      BY <1>1, <1>4
    <2>6. CASE \E n \in D : vacancy[n] \notin {None, vacancy[l]}
      BY <1>4, <2>6
    <2>7. CASE \A n \in D : vacancy[n] \in {None, vacancy[l]}
      <3>1. existing = {vacancy[l]}
        BY <2>5, <2>7
      <3>2. existing # {} /\ Cardinality(existing) = 1
        BY <3>1, FS_Singleton
      <3>3. ElectedIds(D) = existing
        BY <3>2, Zenon DEF ElectedIds
      <3> QED
        BY <1>1, <1>2, <2>3, <2>4, <3>1, <3>3
    <2> QED
      BY <2>6, <2>7
  <1>6. CASE ~ SeveralSources(D)
    <2>1. CASE \A r \in open : Employer(r) = Employer(m) => r \in S
      <3>1. D = Cluster(m, open)
        BY <1>1, <1>3, <2>1, ClusterIsOfTheEmployer
      <3> QED
        BY <1>6, <3>1
    <2>2. CASE \E r \in open \ S : Employer(r) = Employer(m)
      BY <1>3, <2>2
    <2> QED
      BY <2>1, <2>2
  <1> QED
    BY <1>5, <1>6

\* A closed copy keeps its redirect while its vacancy is open on several sources, unless
\* the vacancy was merged with another that has an id of its own or its employer was read
\* in part: for any Listings, slugs, names and similarity.
THEOREM RedirectsAreKept == Spec => OnlyLoneOrMergedVacanciesLoseRedirects
  <1> DEFINE Excused(l, m) ==
        LET C == Cluster(m, open)' IN
          \/ ~ SeveralSources(C)
          \/ \E n \in C : vacancy[n] \notin {None, vacancy[l]}
          \/ Employer(m) \in unelected'
  <1>1. ASSUME TypeOK, [Next]_vars, NEW l \in Listings, NEW m \in Listings, Loses(l, m)
        PROVE  Excused(l, m)
    <2>1. open \subseteq Listings
      BY <1>1 DEF TypeOK, Stored
    \* A redirect is lost only where ids are written.
    <2>2. vacancy' # vacancy
      <3>1. m \in open' /\ vacancy[m] = vacancy[l] /\ vacancy'[m] # vacancy'[l]
        BY <1>1 DEF Loses, Redirected
      <3> QED
        BY <3>1
    <2>3. CASE Reconcile
      <3>1. Elect(open) /\ UNCHANGED rows
        BY <2>3 DEF Reconcile
      <3>2. Cluster(m, open)' = Cluster(m, open)
        BY <3>1 DEF rows, Cluster
      <3>3. LET C == Cluster(m, open) IN
              ~ SeveralSources(C) \/ \E n \in C : vacancy[n] \notin {None, vacancy[l]}
        BY <1>1, <2>1, <3>1, ElectLoses
      <3> QED
        BY <3>2, <3>3
    <2>4. CASE Reelect
      <3>1. UNCHANGED rows
        BY <2>4 DEF Reelect
      <3>2. PICK f \in Picks :
              LET S == Scope(f)
                  Unsettled == unelected \cup Touched \cup {Employer(r) : r \in S}
              IN  /\ Elect(S)
                  /\ unelected' = (Unsettled \cap {Employer(r) : r \in open \ S}) \ UNION {f[s] : s \in touched}
        BY <2>4 DEF Reelect
      <3> DEFINE S == Scope(f)
      <3>3. Cluster(m, open)' = Cluster(m, open)
        BY <3>1 DEF rows, Cluster
      <3>4. S \in SUBSET open /\ Elect(S)
        BY <3>2, ScopeFacts
      <3>5. ASSUME NEW r \in S, Employer(r) = Employer(m), NEW o \in open \ S, Employer(o) = Employer(m)
            PROVE  Employer(m) \in unelected'
        <4>1. Employer(m) \notin UNION {f[s] : s \in touched}
          BY <3>5, PickedAreWhole
        <4> QED
          BY <3>2, <3>5, <4>1
      <3>6. LET C == Cluster(m, open) IN
              \/ ~ SeveralSources(C)
              \/ \E n \in C : vacancy[n] \notin {None, vacancy[l]}
              \/ /\ \E r \in S : Employer(r) = Employer(m)
                 /\ \E r \in open \ S : Employer(r) = Employer(m)
        <4> HIDE DEF S
        <4> QED
          BY <1>1, <2>1, <3>1, <3>4, ElectLoses
      <3> QED
        BY <3>3, <3>5, <3>6
    <2>5. StartRun \/ Retire \/ Restore \/ Promote \/ Crash => vacancy' = vacancy
      BY DEF StartRun, Retire, Restore, Promote, Crash, Upserted, election
    <2>6. ASSUME NEW s \in Slugs, NEW src \in Sources, Scrape(s, src) PROVE vacancy' = vacancy
      BY <2>6 DEF Scrape, Upserted, election
    <2>7. UNCHANGED vars => vacancy' = vacancy
      BY DEF vars, election
    <2> QED
      BY <1>1, <2>2, <2>3, <2>4, <2>5, <2>6, <2>7 DEF Next
  <1>2. TypeOK /\ [Next]_vars =>
          [\A l, m \in Listings :
             Loses(l, m) => LET C == Cluster(m, open)' IN
                              \/ ~ SeveralSources(C)
                              \/ \E n \in C : vacancy[n] \notin {None, vacancy[l]}
                              \/ Employer(m) \in unelected']_vars
    BY <1>1
  <1> QED
    BY <1>2, TypeCorrect, PTL DEF Spec, OnlyLoneOrMergedVacanciesLoseRedirects
=============================================================================
