-------------------------- MODULE NightlyWork_proofs ---------------------------
(* What a run pays the model for, which Roles it pays for, the figures it     *)
(* stores and what a scrape tells of itself, proved for every set of Roles    *)
(* and entries, allowance, batch and pool size, number of tries and of        *)
(* nights, and for any tables, titles and answers.                            *)
EXTENDS ModelCalls, EnrichmentQueue, Estimates, ScrapeRun, BoardPages, Orders_proofs,
        WellFoundedInduction

----------------------------------------------------------------------------
(* The calls of one run.                                                   *)

Most == IF DescribeCost > ClassifyCost THEN DescribeCost ELSE ClassifyCost
OutNow == {r \in Asked : task[r].at = "out"}
AskedFor == [at: {"ready", "out", "answered", "nothing"}, pass: {"describe", "classify"}, try: Nat]

CallsTyped ==
    /\ task \in [Asked -> AskedFor] /\ batch \subseteq Asked /\ waiting \subseteq Asked
    /\ spent \in Nat /\ bought \in [Asked -> Nat] /\ cutShort \in [Asked -> Int]

\* Only a batch's Roles have requests out, and what is spent leaves room for an answer to
\* each of them; a Role whose answer was cut short is not at work any more.
CallsInv ==
    /\ CallsTyped
    /\ OutNow \subseteq batch /\ Cardinality(batch) <= BatchSize
    /\ Allowance = 0 \/ spent + Cardinality(OutNow) * Most < Allowance + BatchSize * Most
    /\ \A r \in Asked : cutShort[r] # -1 => bought[r] = cutShort[r] /\ task[r].at = "nothing"

LEMMA Prices == Most \in Nat \ {0} /\ \A pass \in {"describe", "classify"} : Cost(pass) \in Nat /\ Cost(pass) <= Most
  BY CallsAssumption DEF Most, Cost

LEMMA Outstanding ==
    ASSUME CallsInv
    PROVE  /\ IsFiniteSet(OutNow) /\ Cardinality(OutNow) \in Nat
           /\ IsFiniteSet(batch) /\ Cardinality(batch) \in Nat
           /\ Cardinality(OutNow) <= Cardinality(batch)
  BY CallsAssumption, FS_Subset, FS_CardinalityType DEF CallsInv, CallsTyped, OutNow

\* Room for more answers is room for fewer, and an answer that is paid for made room.
LEMMA Room ==
    ASSUME NEW n \in Nat, NEW k \in Nat, k <= n
    PROVE  k * Most <= n * Most /\ k * Most \in Nat /\ (k + 1) * Most = k * Most + Most
  <1>1. Most \in Nat
    BY Prices
  <1> QED
    BY <1>1, SMT

\* An answer has come: its Role is out no more, whatever becomes of it, and its request has
\* been charged or not.
LEMMA AnswersCome ==
    ASSUME CallsInv, NEW r \in Asked, ModelReplies(r)
    PROVE  CallsInv'
  <1> DEFINE a == task'[r]
  <1>1. /\ task[r].at = "out" /\ UNCHANGED <<batch, waiting, bought>>
        /\ task' = [task EXCEPT ![r] = a] /\ a \in AskedFor /\ a.at # "out"
        /\ spent' = spent \/ spent' = spent + Cost(task[r].pass)
        /\ cutShort' = cutShort \/ (cutShort' = [cutShort EXCEPT ![r] = bought[r]] /\ a.at = "nothing")
    <2>1. task[r] \in AskedFor /\ task \in [Asked -> AskedFor] /\ MaxTries \in Nat
      BY CallsAssumption DEF CallsInv, CallsTyped
    <2>2. CASE LoseAnswer(r)
      BY <2>1, <2>2 DEF LoseAnswer, TryAgain, Ready, Done, AskedFor
    <2>3. CASE CutShort(r)
      BY <2>1, <2>3 DEF CutShort, Charge, Done, AskedFor
    <2>4. CASE Garble(r)
      BY <2>1, <2>4 DEF Garble, Charge, TryAgain, Ready, Done, AskedFor
    <2>5. CASE ModelAnswer(r)
      BY <2>1, <2>5 DEF ModelAnswer, Charge, Ready, Done, AskedFor
    <2> QED
      BY <2>2, <2>3, <2>4, <2>5 DEF ModelReplies
  <1> HIDE DEF a
  <1>2. Cost(task[r].pass) \in Nat /\ Cost(task[r].pass) <= Most
    BY Prices DEF CallsInv, CallsTyped, AskedFor
  <1>3. CallsTyped'
    BY <1>1, <1>2 DEF CallsInv, CallsTyped
  <1>4. OutNow' = OutNow \ {r} /\ r \in OutNow
    BY <1>1 DEF OutNow, CallsInv, CallsTyped
  <1>5. Cardinality(OutNow') = Cardinality(OutNow) - 1 /\ Cardinality(OutNow') \in Nat
    BY <1>4, Outstanding, FS_RemoveElement, FS_CardinalityType
  <1>6. Allowance = 0 \/ spent' + Cardinality(OutNow') * Most < Allowance + BatchSize * Most
    <2> DEFINE k == Cardinality(OutNow')
    <2>1. k \in Nat /\ Cardinality(OutNow) = k + 1
      BY <1>5, Outstanding
    <2> HIDE DEF k
    <2>2. (k + 1) * Most = k * Most + Most /\ k * Most \in Nat
      BY <2>1, Room
    <2>3. Allowance = 0 \/ spent + (k * Most + Most) < Allowance + BatchSize * Most
      BY <2>1, <2>2 DEF CallsInv
    <2>4. BatchSize * Most \in Nat /\ Allowance \in Nat /\ spent \in Nat /\ Most \in Nat
      BY CallsAssumption, Prices, Room DEF CallsInv, CallsTyped
    <2>5. spent' <= spent + Most /\ spent' \in Nat
      BY <1>1, <1>2, <2>4
    <2>6. Allowance = 0 \/ spent' + k * Most < Allowance + BatchSize * Most
      BY <2>2, <2>3, <2>4, <2>5
    <2> QED
      BY <2>6 DEF k
  <1>7. \A x \in Asked : cutShort'[x] # -1 => bought'[x] = cutShort'[x] /\ task'[x].at = "nothing"
    BY <1>1 DEF CallsInv, CallsTyped
  <1> QED
    BY <1>1, <1>3, <1>4, <1>6, <1>7 DEF CallsInv

\* A request goes out while something of the allowance is left.
LEMMA RequestsGoOut ==
    ASSUME CallsInv, NEW r \in Asked, Send(r)
    PROVE  CallsInv'
  <1>1. /\ r \in batch /\ task[r].at = "ready" /\ ~Exhausted
        /\ task' = [task EXCEPT ![r].at = "out"] /\ bought' = [bought EXCEPT ![r] = @ + 1]
        /\ UNCHANGED <<batch, waiting, spent, cutShort>>
    BY DEF Send
  <1>2. CallsTyped'
    BY <1>1 DEF CallsInv, CallsTyped, AskedFor
  <1>3. OutNow' = OutNow \cup {r}
    BY <1>1 DEF OutNow, CallsInv, CallsTyped, AskedFor
  <1>4. OutNow' \subseteq batch /\ IsFiniteSet(batch)
    BY <1>1, <1>3, Outstanding DEF CallsInv
  <1>5. Cardinality(OutNow') \in Nat /\ Cardinality(OutNow') <= BatchSize
    <2>1. IsFiniteSet(OutNow') /\ Cardinality(OutNow') <= Cardinality(batch)
      BY <1>4, FS_Subset
    <2>2. Cardinality(OutNow') \in Nat
      BY <2>1, FS_CardinalityType
    <2> QED
      BY <2>1, <2>2, Outstanding, CallsAssumption DEF CallsInv
  <1>6. Allowance = 0 \/ spent' + Cardinality(OutNow') * Most < Allowance + BatchSize * Most
    <2>1. Cardinality(OutNow') * Most <= BatchSize * Most /\ Cardinality(OutNow') * Most \in Nat
      BY <1>5, CallsAssumption, Room
    <2>2. BatchSize * Most \in Nat
      BY CallsAssumption, Room
    <2>3. Allowance = 0 \/ spent' < Allowance
      BY <1>1, CallsAssumption DEF Exhausted, CallsInv, CallsTyped
    <2> QED
      BY <1>1, <2>1, <2>2, <2>3, CallsAssumption DEF CallsInv, CallsTyped
  <1>7. \A x \in Asked : cutShort'[x] # -1 => bought'[x] = cutShort'[x] /\ task'[x].at = "nothing"
    BY <1>1 DEF CallsInv, CallsTyped
  <1> QED
    BY <1>1, <1>2, <1>4, <1>6, <1>7 DEF CallsInv

\* A run's calls are accounted for: what is spent beyond the allowance is at most one answer
\* for each worker, and a truncated answer is the last one bought for its Role.
THEOREM CallsAreBounded == CallsSpec => []CallsAreAccountedFor
  <1>1. CallsInit => CallsInv
    <2> SUFFICES ASSUME CallsInit PROVE CallsInv
      OBVIOUS
    <2>1. CallsTyped
      BY DEF CallsInit, CallsTyped, AskedFor, Ready, Done
    <2>2. OutNow = {}
      BY DEF CallsInit, OutNow, Ready, Done
    <2>3. Cardinality(OutNow) = 0 /\ batch = {} /\ Cardinality(batch) = 0
      BY <2>2, FS_EmptySet DEF CallsInit
    <2>4. 0 * Most = 0 /\ BatchSize * Most \in Nat
      BY CallsAssumption, Prices, Room
    <2>5. Allowance = 0 \/ spent + Cardinality(OutNow) * Most < Allowance + BatchSize * Most
      BY <2>3, <2>4, CallsAssumption DEF CallsInit
    <2> QED
      BY <2>1, <2>2, <2>3, <2>5, CallsAssumption DEF CallsInit, CallsInv
  <1>2. CallsInv /\ [CallsNext]_callVars => CallsInv'
    <2> SUFFICES ASSUME CallsInv, [CallsNext]_callVars PROVE CallsInv'
      OBVIOUS
    <2>1. CASE NextBatch
      <3>1. PICK b \in SUBSET waiting :
              /\ Cardinality(b) = (IF Cardinality(waiting) < BatchSize
                                   THEN Cardinality(waiting) ELSE BatchSize)
              /\ batch' = b /\ waiting' = waiting \ b
        BY <2>1 DEF NextBatch
      <3>2. UNCHANGED <<task, spent, bought, cutShort>>
        BY <2>1 DEF NextBatch
      <3>3. OutNow = {}
        BY <2>1 DEF NextBatch, Settled, CallsInv, OutNow
      <3>4. OutNow' = OutNow
        BY <3>2 DEF OutNow
      <3>5. Cardinality(waiting) \in Nat
        BY CallsAssumption, FS_Subset, FS_CardinalityType DEF CallsInv, CallsTyped
      <3>6. Cardinality(b) <= BatchSize
        BY <3>1, <3>5, CallsAssumption
      <3> QED
        BY <3>1, <3>2, <3>3, <3>4, <3>6 DEF CallsInv, CallsTyped
    <2>2. ASSUME NEW r \in Asked, Send(r) PROVE CallsInv'
      BY <2>2, RequestsGoOut
    <2>3. ASSUME NEW r \in Asked, Refuse(r) PROVE CallsInv'
      <3>1. /\ task[r].at = "ready" /\ TryAgain(r) /\ UNCHANGED <<batch, waiting, spent, bought, cutShort>>
        BY <2>3 DEF Refuse
      <3>2. /\ task' \in [Asked -> AskedFor] /\ task'[r].at # "out"
            /\ \A x \in Asked : x # r => task'[x] = task[x]
        BY <3>1, CallsAssumption DEF TryAgain, Ready, Done, AskedFor, CallsInv, CallsTyped
      <3>3. OutNow' = OutNow
        BY <3>1, <3>2 DEF OutNow
      <3>4. \A x \in Asked : cutShort[x] # -1 => task'[x].at = "nothing"
        BY <3>1, <3>2 DEF CallsInv
      <3> QED
        BY <3>1, <3>2, <3>3, <3>4 DEF CallsInv, CallsTyped
    <2>4. ASSUME NEW r \in Asked, ModelReplies(r) PROVE CallsInv'
      BY <2>4, AnswersCome
    <2>5. CASE UNCHANGED callVars
      BY <2>5 DEF callVars, CallsInv, CallsTyped, OutNow
    <2> QED
      BY <2>1, <2>2, <2>3, <2>4, <2>5 DEF CallsNext
  <1>3. CallsInv => CallsAreAccountedFor
    <2> SUFFICES ASSUME CallsInv PROVE CallsAreAccountedFor
      OBVIOUS
    <2>1. Cardinality(OutNow) * Most \in Nat /\ BatchSize * Most \in Nat
      BY CallsAssumption, Outstanding, Room
    <2>2. Allowance = 0 \/ spent < Allowance + BatchSize * Most
      BY <2>1, CallsAssumption DEF CallsInv, CallsTyped
    <2> QED
      BY <2>2 DEF CallsInv, CallsAreAccountedFor, SpendStaysNearTheAllowance,
                  TruncatedRolesAreNotBoughtAgain, Most
  <1> QED
    BY <1>1, <1>2, <1>3, PTL DEF CallsSpec

----------------------------------------------------------------------------
(* Which Roles are paid for.                                               *)

Row == [there : BOOLEAN, current : BOOLEAN, priced : BOOLEAN, summary : BOOLEAN,
        age : 0 .. LongAgo, judged : BOOLEAN]

QueueTyped ==
    /\ described \in [Listed -> BOOLEAN] /\ enriched \in [Listed -> Row]
    /\ byHand \subseteq Listed
    /\ picked \in [mode : {"idle", "ordinary", "everything"}, roles : SUBSET Listed]
    /\ rest \in [Listed -> 0 .. LongAgo] /\ verdicts \in [Listed -> Nat]

\* A Role that rests has a row nothing in the selection asks for: of the prompt in force,
\* priced unless it is an internship, and written no longer ago than it has rested.
RestingRowsAreSettled ==
    \A r \in Listed : rest[r] <= RetryDays =>
        /\ enriched[r].there /\ enriched[r].current
        /\ enriched[r].priced \/ r \in Internships
        /\ enriched[r].age <= rest[r]

\* A verdict marks the row judged, and no admin's row is being asked about.
VerdictsAreMarked == \A r \in Listed : verdicts[r] # 0 => verdicts[r] = 1 /\ enriched[r].judged
HandEditedAreNotAsked == byHand \cap picked.roles = {}

QueueInv ==
    /\ QueueTyped /\ RestingRowsAreSettled /\ VerdictsAreMarked /\ HandEditedAreNotAsked
    /\ SettledRolesRest

LEMMA Days ==
    /\ LongAgo \in Nat /\ RetryDays \in Nat /\ ~(LongAgo <= RetryDays)
    /\ 0 \in 0 .. LongAgo /\ LongAgo \in 0 .. LongAgo
    /\ \A d \in 0 .. LongAgo : /\ Later(d) \in 0 .. LongAgo
                               /\ Later(d) <= RetryDays => d <= RetryDays
                               /\ \A e \in 0 .. LongAgo : e <= d => Later(e) <= Later(d)
  BY QueueAssumption DEF LongAgo, Later

\* An ordinary night asks about no Role that rests.
LEMMA RestingRolesAreNoCandidates ==
    ASSUME QueueTyped, RestingRowsAreSettled, NEW r \in Candidates("ordinary")
    PROVE  ~(rest[r] <= RetryDays)
  <1>1. r \in Listed /\ Stale(r)
    BY DEF Candidates
  <1>2. enriched[r].age \in 0 .. LongAgo /\ rest[r] \in 0 .. LongAgo
    BY <1>1 DEF QueueTyped, Row
  <1> SUFFICES ASSUME rest[r] <= RetryDays PROVE FALSE
    OBVIOUS
  <1>3. /\ enriched[r].there /\ enriched[r].current
        /\ enriched[r].priced \/ r \in Internships
        /\ enriched[r].age <= rest[r]
    BY <1>1 DEF RestingRowsAreSettled
  <1>4. ~(enriched[r].age > RetryDays)
    BY <1>2, <1>3, Days
  <1> QED
    BY <1>1, <1>3, <1>4 DEF Stale, Unpriced, SummaryDue

\* A verdict leaves the rest of a row as it was.
LEMMA JudgedRow ==
    ASSUME NEW rewritten \in Row
    PROVE  LET judged == [rewritten EXCEPT !.judged = TRUE]
           IN  /\ judged \in Row /\ judged.judged /\ judged.there = rewritten.there
               /\ judged.current = rewritten.current /\ judged.priced = rewritten.priced
               /\ judged.age = rewritten.age
  BY DEF Row

LEMMA QueueInvInit == QueueInit => QueueInv
  <1> SUFFICES ASSUME QueueInit PROVE QueueInv
    OBVIOUS
  <1>1. NoRow \in Row
    BY Days DEF NoRow, Row
  <1>2. QueueTyped
    BY <1>1, Days DEF QueueInit, QueueTyped, NoEditor
  <1>3. RestingRowsAreSettled
    BY Days DEF QueueInit, RestingRowsAreSettled
  <1> QED
    BY <1>2, <1>3 DEF QueueInit, QueueInv, VerdictsAreMarked, HandEditedAreNotAsked, SettledRolesRest

\* Each step keeps what is settled, and leaves an admin's rows alone.
LEMMA QueueSteps ==
    ASSUME QueueInv, QueueNext
    PROVE  /\ QueueInv'
           /\ \A r \in byHand : /\ r \notin picked'.roles
                                /\ enriched'[r].priced = enriched[r].priced
                                /\ enriched'[r].summary = enriched[r].summary
                                /\ verdicts'[r] = verdicts[r]
  <1>1. ASSUME NEW mode \in {"ordinary", "everything"}, Pick(mode) PROVE QueueInv' /\ byHand \cap picked'.roles = {}
    <2>1. PICK roles \in SUBSET Candidates(mode) :
              /\ picked' = [mode |-> mode, roles |-> roles]
              /\ early' = IF mode = "ordinary"
                          THEN early \cup {r \in roles : rest[r] <= RetryDays} ELSE early
      BY <1>1 DEF Pick
    <2>2. roles \subseteq Listed \ byHand
      BY DEF Candidates
    <2>3. UNCHANGED <<described, enriched, byHand, rest, verdicts>>
      BY <1>1 DEF Pick
    <2>4. early' = {}
      <3>1. mode = "ordinary" => \A r \in roles : ~(rest[r] <= RetryDays)
        BY RestingRolesAreNoCandidates DEF QueueInv
      <3> QED
        BY <2>1, <3>1 DEF QueueInv, SettledRolesRest
    <2>5. QueueTyped'
      BY <2>1, <2>2, <2>3 DEF QueueInv, QueueTyped
    <2>6. RestingRowsAreSettled' /\ VerdictsAreMarked'
      BY <2>3 DEF QueueInv, RestingRowsAreSettled, VerdictsAreMarked
    <2> QED
      BY <2>1, <2>2, <2>3, <2>4, <2>5, <2>6 DEF QueueInv, HandEditedAreNotAsked, SettledRolesRest
  <1>2. ASSUME NEW r \in Listed, WriteAnswer(r)
        PROVE  /\ QueueInv' /\ byHand \cap picked'.roles = {} /\ r \notin byHand
               /\ \A x \in Listed \ {r} : enriched'[x] = enriched[x] /\ verdicts'[x] = verdicts[x]
    <2>1. PICK priced \in BOOLEAN, summary \in BOOLEAN :
              /\ enriched' = [enriched EXCEPT ![r] = Rewritten(enriched[r], priced, summary)]
              /\ rest' = [rest EXCEPT ![r] =
                     IF priced \/ enriched[r].priced \/ r \in Internships THEN 0 ELSE LongAgo]
      BY <1>2 DEF WriteAnswer
    <2>2. /\ r \in picked.roles /\ picked' = [picked EXCEPT !.roles = @ \ {r}]
          /\ verdicts' = [verdicts EXCEPT ![r] = 0] /\ UNCHANGED <<described, byHand, early>>
      BY <1>2 DEF WriteAnswer
    <2> DEFINE rewritten == Rewritten(enriched[r], priced, summary)
    <2>3. /\ rewritten \in Row /\ rewritten.there /\ rewritten.current /\ rewritten.age = 0
          /\ (priced \/ enriched[r].priced) => rewritten.priced
      BY Days DEF Rewritten, QueueInv, QueueTyped, Row
    <2> HIDE DEF rewritten
    <2>4. /\ enriched' = [enriched EXCEPT ![r] = rewritten] /\ enriched'[r] = rewritten
          /\ rest'[r] \in 0 .. LongAgo
          /\ \A x \in Listed \ {r} : enriched'[x] = enriched[x] /\ rest'[x] = rest[x]
                                     /\ verdicts'[x] = verdicts[x]
      BY <2>1, <2>2, Days DEF rewritten, QueueInv, QueueTyped
    <2>5. QueueTyped'
      <3>1. enriched' \in [Listed -> Row] /\ verdicts' \in [Listed -> Nat]
        BY <2>2, <2>3, <2>4 DEF QueueInv, QueueTyped
      <3>2. rest' \in [Listed -> 0 .. LongAgo]
        BY <2>1, Days DEF QueueInv, QueueTyped
      <3>3. picked' \in [mode : {"idle", "ordinary", "everything"}, roles : SUBSET Listed]
        BY <2>2 DEF QueueInv, QueueTyped
      <3> QED
        BY <2>2, <3>1, <3>2, <3>3 DEF QueueInv, QueueTyped
    <2>6. RestingRowsAreSettled'
      <3>1. rest'[r] <= RetryDays => rest'[r] = 0 /\ (priced \/ enriched[r].priced \/ r \in Internships)
        BY <2>1, Days DEF QueueInv, QueueTyped
      <3> QED
        BY <2>3, <2>4, <3>1 DEF QueueInv, RestingRowsAreSettled
    <2>7. VerdictsAreMarked'
      BY <2>2, <2>4 DEF QueueInv, QueueTyped, VerdictsAreMarked
    <2>8. byHand \cap picked'.roles = {} /\ r \notin byHand
      BY <2>2 DEF QueueInv, QueueTyped, HandEditedAreNotAsked
    <2> QED
      BY <2>2, <2>4, <2>5, <2>6, <2>7, <2>8 DEF QueueInv, HandEditedAreNotAsked, SettledRolesRest
  <1>3. ASSUME \/ EndRun
               \/ \E r \in Listed : Unanswered(r)
        PROVE  QueueInv' /\ byHand \cap picked'.roles = {} /\ UNCHANGED <<enriched, verdicts>>
    <2>1. /\ UNCHANGED <<described, enriched, byHand, rest, early, verdicts>>
          /\ picked'.roles \subseteq picked.roles
          /\ picked' \in [mode : {"idle", "ordinary", "everything"}, roles : SUBSET Listed]
      BY <1>3 DEF EndRun, Unanswered, NoEditor, QueueInv, QueueTyped
    <2> QED
      BY <2>1 DEF QueueInv, QueueTyped, RestingRowsAreSettled, VerdictsAreMarked,
                  HandEditedAreNotAsked, SettledRolesRest
  <1>4. ASSUME JudgeEstimates
        PROVE  /\ QueueInv' /\ UNCHANGED picked
               /\ \A r \in byHand : enriched'[r] = enriched[r] /\ verdicts'[r] = verdicts[r]
    <2>1. PICK judged \in SUBSET ToJudge, noOp \in SUBSET Listed :
              /\ enriched' = [r \in Listed |-> IF r \in judged \ noOp
                               THEN [enriched[r] EXCEPT !.judged = TRUE] ELSE enriched[r]]
              /\ verdicts' = [r \in Listed |-> IF r \in judged \ noOp THEN 1 + verdicts[r]
                                               ELSE verdicts[r]]
      BY <1>4 DEF JudgeEstimates
    <2>2. UNCHANGED <<described, byHand, picked, rest, early>>
      BY <1>4 DEF JudgeEstimates
    <2> DEFINE now == judged \ noOp
    <2>3. /\ now \subseteq Listed \ byHand /\ \A r \in now : ~enriched[r].judged
      BY DEF ToJudge
    <2>4. /\ \A r \in now : /\ enriched'[r] = [enriched[r] EXCEPT !.judged = TRUE]
                            /\ verdicts'[r] = 1 + verdicts[r]
          /\ \A r \in Listed \ now : enriched'[r] = enriched[r] /\ verdicts'[r] = verdicts[r]
      BY <2>1, <2>3
    <2> HIDE DEF now
    <2>5. \A r \in Listed : /\ enriched'[r] \in Row /\ verdicts'[r] \in Nat
                            /\ enriched'[r].there = enriched[r].there
                            /\ enriched'[r].current = enriched[r].current
                            /\ enriched'[r].priced = enriched[r].priced
                            /\ enriched'[r].age = enriched[r].age
      <3> SUFFICES ASSUME NEW r \in Listed
                   PROVE  /\ enriched'[r] \in Row /\ verdicts'[r] \in Nat
                          /\ enriched'[r].there = enriched[r].there
                          /\ enriched'[r].current = enriched[r].current
                          /\ enriched'[r].priced = enriched[r].priced
                          /\ enriched'[r].age = enriched[r].age
        OBVIOUS
      <3>1. enriched[r] \in Row /\ verdicts[r] \in Nat
        BY DEF QueueInv, QueueTyped
      <3>2. CASE r \in now
        <4>1. enriched'[r] = [enriched[r] EXCEPT !.judged = TRUE] /\ verdicts'[r] = 1 + verdicts[r]
          BY <2>4, <3>2
        <4>2. verdicts'[r] \in Nat
          BY <3>1, <4>1
        <4> QED
          BY <3>1, <4>1, <4>2, JudgedRow
      <3>3. CASE r \notin now
        BY <2>4, <3>1, <3>3
      <3> QED
        BY <3>2, <3>3
    <2>6. QueueTyped'
      BY <2>1, <2>2, <2>5 DEF QueueInv, QueueTyped
    <2>7. RestingRowsAreSettled'
      BY <2>2, <2>5 DEF QueueInv, RestingRowsAreSettled
    <2>8. VerdictsAreMarked'
      <3> SUFFICES ASSUME NEW r \in Listed, verdicts'[r] # 0
                   PROVE  verdicts'[r] = 1 /\ enriched'[r].judged
        BY DEF VerdictsAreMarked
      <3>1. CASE r \in now
        <4>1. verdicts[r] = 0
          BY <2>3, <3>1 DEF QueueInv, VerdictsAreMarked
        <4>2. enriched[r] \in Row
          BY DEF QueueInv, QueueTyped
        <4>3. enriched'[r] = [enriched[r] EXCEPT !.judged = TRUE] /\ verdicts'[r] = 1 + verdicts[r]
          BY <2>4, <3>1
        <4>4. enriched'[r].judged
          BY <4>2, <4>3, JudgedRow
        <4> QED
          BY <4>1, <4>3, <4>4
      <3>2. CASE r \notin now
        BY <2>4, <3>2 DEF QueueInv, VerdictsAreMarked
      <3> QED
        BY <3>1, <3>2
    <2>9. \A r \in byHand : enriched'[r] = enriched[r] /\ verdicts'[r] = verdicts[r]
      BY <2>3, <2>4 DEF QueueInv, QueueTyped
    <2> QED
      BY <2>2, <2>6, <2>7, <2>8, <2>9 DEF QueueInv, HandEditedAreNotAsked, SettledRolesRest
  <1>5. ASSUME Describe PROVE QueueInv' /\ UNCHANGED <<enriched, picked, verdicts>>
    <2>1. described' \in [Listed -> BOOLEAN] /\ UNCHANGED <<enriched, byHand, picked, rest, early, verdicts>>
      BY <1>5 DEF Describe, QueueInv, QueueTyped
    <2> QED
      BY <2>1 DEF QueueInv, QueueTyped, RestingRowsAreSettled, VerdictsAreMarked,
                  HandEditedAreNotAsked, SettledRolesRest
  <1>6. ASSUME NewVersion \/ NewDay
        PROVE  /\ QueueInv' /\ UNCHANGED <<picked, verdicts>>
               /\ \A r \in Listed : /\ enriched'[r].priced = enriched[r].priced
                                    /\ enriched'[r].summary = enriched[r].summary
    <2>1. UNCHANGED <<described, byHand, picked, early, verdicts>>
      BY <1>6 DEF NewVersion, NewDay
    <2>2. \A r \in Listed : /\ enriched[r] \in Row /\ rest[r] \in 0 .. LongAgo
                            /\ enriched[r].age \in 0 .. LongAgo
      BY DEF QueueInv, QueueTyped, Row
    <2>3. \A r \in Listed : /\ enriched'[r] \in Row /\ rest'[r] \in 0 .. LongAgo
                            /\ enriched'[r].judged = enriched[r].judged
                            /\ enriched'[r].priced = enriched[r].priced
                            /\ enriched'[r].summary = enriched[r].summary
      <3>1. CASE NewVersion
        <4> SUFFICES ASSUME NEW r \in Listed
                     PROVE  /\ enriched'[r] \in Row /\ rest'[r] \in 0 .. LongAgo
                            /\ enriched'[r].judged = enriched[r].judged
                            /\ enriched'[r].priced = enriched[r].priced
                            /\ enriched'[r].summary = enriched[r].summary
          OBVIOUS
        <4>1. enriched'[r] = [enriched[r] EXCEPT !.current = FALSE] /\ rest'[r] = LongAgo
          BY <3>1 DEF NewVersion
        <4> QED
          BY <2>2, <4>1, Days DEF Row
      <3>2. CASE NewDay
        BY <2>2, <3>2, Days DEF NewDay, Row
      <3> QED
        BY <1>6, <3>1, <3>2
    <2>4. enriched' \in [Listed -> Row] /\ rest' \in [Listed -> 0 .. LongAgo]
      BY <1>6, <2>3 DEF NewVersion, NewDay
    <2>5. QueueTyped'
      BY <2>1, <2>4 DEF QueueInv, QueueTyped
    <2>6. RestingRowsAreSettled'
      <3>1. CASE NewVersion
        BY <3>1, Days DEF NewVersion, RestingRowsAreSettled
      <3>2. CASE NewDay
        <4> SUFFICES ASSUME NEW r \in Listed, rest'[r] <= RetryDays
                     PROVE  /\ enriched'[r].there /\ enriched'[r].current
                            /\ enriched'[r].priced \/ r \in Internships
                            /\ enriched'[r].age <= rest'[r]
          BY DEF RestingRowsAreSettled
        <4>1. rest'[r] = Later(rest[r])
          BY <3>2 DEF NewDay
        <4>2. /\ enriched'[r].age = Later(enriched[r].age)
              /\ enriched'[r].there = enriched[r].there
              /\ enriched'[r].current = enriched[r].current
              /\ enriched'[r].priced = enriched[r].priced
          BY <2>2, <3>2 DEF NewDay, Row
        <4>3. rest[r] <= RetryDays
          BY <2>2, <4>1, Days
        <4>4. /\ enriched[r].there /\ enriched[r].current
              /\ enriched[r].priced \/ r \in Internships
              /\ enriched[r].age <= rest[r]
          BY <4>3 DEF QueueInv, RestingRowsAreSettled
        <4>5. Later(enriched[r].age) <= Later(rest[r])
          BY <2>2, <4>4, Days
        <4> QED
          BY <4>1, <4>2, <4>4, <4>5
      <3> QED
        BY <1>6, <3>1, <3>2
    <2>7. VerdictsAreMarked'
      BY <2>1, <2>3 DEF QueueInv, VerdictsAreMarked
    <2> QED
      BY <2>1, <2>3, <2>5, <2>6, <2>7 DEF QueueInv, HandEditedAreNotAsked, SettledRolesRest
  <1>7. ASSUME NEW r \in Listed, Correct(r)
        PROVE  /\ QueueInv' /\ UNCHANGED <<picked, verdicts>> /\ byHand \cap picked.roles = {}
               /\ \A x \in byHand : enriched'[x] = enriched[x]
    <2>1. /\ picked = NoEditor /\ r \notin byHand /\ byHand' = byHand \cup {r}
          /\ UNCHANGED <<described, picked, rest, early, verdicts>>
          /\ enriched' = [enriched EXCEPT ![r].there = TRUE, ![r].priced = TRUE]
      BY <1>7 DEF Correct
    <2>2. picked.roles = {}
      BY <2>1 DEF NoEditor
    <2>3. /\ enriched[r] \in Row
          /\ enriched' = [enriched EXCEPT ![r] = [enriched[r] EXCEPT !.there = TRUE, !.priced = TRUE]]
      BY <2>1 DEF QueueInv, QueueTyped
    <2>4. /\ enriched' \in [Listed -> Row]
          /\ enriched'[r].there /\ enriched'[r].priced
          /\ enriched'[r].current = enriched[r].current
          /\ enriched'[r].age = enriched[r].age /\ enriched'[r].judged = enriched[r].judged
          /\ \A x \in Listed \ {r} : enriched'[x] = enriched[x]
      BY <2>3 DEF QueueInv, QueueTyped, Row
    <2>5. QueueTyped'
      BY <2>1, <2>4 DEF QueueInv, QueueTyped
    <2>6. RestingRowsAreSettled' /\ VerdictsAreMarked'
      BY <2>1, <2>4 DEF QueueInv, RestingRowsAreSettled, VerdictsAreMarked
    <2>7. \A x \in byHand : enriched'[x] = enriched[x]
      BY <2>1, <2>4 DEF QueueInv, QueueTyped
    <2> QED
      BY <2>1, <2>2, <2>5, <2>6, <2>7 DEF QueueInv, HandEditedAreNotAsked, SettledRolesRest
  <1>8. byHand \subseteq Listed /\ byHand \cap picked.roles = {}
    BY DEF QueueInv, QueueTyped, HandEditedAreNotAsked
  <1>9. CASE \E mode \in {"ordinary", "everything"} : Pick(mode)
    <2>1. UNCHANGED <<enriched, verdicts>>
      BY <1>9 DEF Pick
    <2> QED
      BY <1>1, <1>9, <2>1
  <1>10. CASE \E r \in Listed : WriteAnswer(r)
    BY <1>2, <1>8, <1>10
  <1>11. CASE \E r \in Listed : Correct(r)
    BY <1>7, <1>11
  <1> QED
    BY <1>3, <1>4, <1>5, <1>6, <1>8, <1>9, <1>10, <1>11 DEF QueueNext

\* A Role that is priced under the prompt in force rests from ordinary nights for more than a
\* week, an estimate is judged once, and an admin's rows are neither asked about nor written.
THEOREM SettledStaySettled == QueueSpec => SettledRowsAreLeftAlone
  <1>1. QueueInv /\ [QueueNext]_queueVars => QueueInv'
    <2>1. CASE UNCHANGED queueVars
      BY <2>1 DEF queueVars, QueueInv, QueueTyped, RestingRowsAreSettled, VerdictsAreMarked,
                  HandEditedAreNotAsked, SettledRolesRest
    <2> QED
      BY <2>1, QueueSteps
  <1>2. QueueInv => SettledRolesRest /\ EstimatesAreJudgedOnce
    <2> SUFFICES ASSUME QueueInv, NEW r \in Listed PROVE verdicts[r] <= 1
      BY DEF QueueInv, EstimatesAreJudgedOnce
    <2>1. verdicts[r] \in Nat /\ (verdicts[r] # 0 => verdicts[r] = 1)
      BY DEF QueueInv, QueueTyped, VerdictsAreMarked
    <2> QED
      BY <2>1
  <1>3. QueueInv /\ [QueueNext]_queueVars
          => [\A r \in byHand : /\ r \notin picked'.roles
                                /\ enriched'[r].priced = enriched[r].priced
                                /\ enriched'[r].summary = enriched[r].summary
                                /\ verdicts'[r] = verdicts[r]]_queueVars
    BY QueueSteps
  <1> QED
    BY <1>1, <1>2, <1>3, QueueInvInit, PTL DEF QueueSpec, SettledRowsAreLeftAlone, HandEditedRowsAreLeftAlone

----------------------------------------------------------------------------
(* What a night's scrape tells of itself.                                  *)

Stages == {"queued", "fetching", "waiting", "hanging", "stored", "resulted"}
Outcome == [kind : {"none", "raised", "timeout", "store", "ok"}, found : Nat]
SeenOn == [open : Nat, closed : Nat]

ScrapeTyped ==
    /\ phase \in {"idle", "scrape", "retry", "aged", "indexed", "recorded", "dead"}
    /\ night \in Nights /\ retries \subseteq Entries
    /\ stage \in [Entries -> Stages] /\ reply \in [Entries -> Nat]
    /\ result \in [Entries -> Outcome] /\ rows \in [Entries -> [Nights -> SeenOn]]
    /\ runs \in [Entries -> {"none", "failed", "zero", "success"}]

\* Nothing was seen on a night to come; nobody works but in the pool and, one at a time, in
\* the retry pass.
NightsToCome == \A e \in Entries, n \in Nights : n > night => rows[e][n] = Empty
WorkersEnd ==
    /\ phase \in {"scrape", "retry"} \/ AllResulted
    /\ phase = "retry" => \A e, f \in Entries :
           stage[e] # "resulted" /\ stage[f] # "resulted" => e = f

\* An entry's result tells what its attempts stored: a first attempt starts from nothing, a
\* second one is made only for what found nothing, and a failed one leaves nothing.
TellsOf(e) ==
    /\ stage[e] = "stored" => SeenTonight(e) >= reply[e]
    /\ result[e].kind = "ok" => SeenTonight(e) >= result[e].found
    /\ result[e].kind \in {"timeout", "raised"} =>
           SeenTonight(e) = IF stage[e] = "stored" THEN reply[e] ELSE 0
FirstAttempt(e) ==
    IF stage[e] = "resulted" THEN result[e].kind # "none"
    ELSE result[e].kind = "none" /\ (stage[e] = "stored" \/ SeenTonight(e) = 0)
SecondAttempt(e) ==
    /\ e \in retries => stage[e] = "resulted"
    /\ e \in retries \/ stage[e] # "resulted" => result[e].found = 0

Pooled == phase \in {"retry", "aged", "indexed", "recorded"} \/ (phase = "idle" /\ night > 0)
InOrder(e) ==
    /\ TellsOf(e)
    /\ phase = "scrape" => FirstAttempt(e)
    /\ phase = "retry" => SecondAttempt(e)
    /\ Pooled => result[e].kind # "none"
    /\ phase = "idle" /\ night > 0 => runs[e] = Status(result[e])

NightsInv ==
    /\ ScrapeTyped /\ NightsToCome /\ WorkersEnd /\ (\A e \in Entries : InOrder(e))
    /\ SearchFindsTheBoard

LEMMA SeenType ==
    ASSUME ScrapeTyped, NEW e \in Entries
    PROVE  /\ rows[e][night].open \in Nat /\ rows[e][night].closed \in Nat
           /\ SeenTonight(e) \in Nat /\ SeenTonight(e) = rows[e][night].open + rows[e][night].closed
  <1>1. rows[e] \in [Nights -> SeenOn] /\ rows[e][night] \in SeenOn
    BY DEF ScrapeTyped
  <1> QED
    BY <1>1 DEF SeenOn, SeenTonight

LEMMA NightsInvInit == ScrapeInit => NightsInv
  <1> SUFFICES ASSUME ScrapeInit PROVE NightsInv
    OBVIOUS
  <1>1. 0 \in Nights /\ \A n \in Nights : n \in Nat
    BY ScrapeAssumption DEF Nights
  <1>2. Empty \in SeenOn /\ NoResult \in Outcome /\ NoResult.kind = "none"
    BY DEF Empty, SeenOn, NoResult, Outcome
  <1>3. \A e \in Entries, n \in Nights : /\ rows[e][n] \in SeenOn
                                         /\ n > 0 => rows[e][n] = Empty
    BY <1>1, <1>2, ScrapeAssumption DEF ScrapeInit, SeenOn, Empty
  <1>4. rows \in [Entries -> [Nights -> SeenOn]]
    BY <1>3 DEF ScrapeInit
  <1>5. ScrapeTyped
    BY <1>1, <1>2, <1>4 DEF ScrapeInit, ScrapeTyped, Stages
  <1>6. NightsToCome /\ WorkersEnd
    BY <1>3 DEF ScrapeInit, NightsToCome, WorkersEnd, AllResulted
  <1>7. \A e \in Entries : InOrder(e)
    BY <1>2 DEF ScrapeInit, InOrder, TellsOf, Pooled
  <1>8. SearchFindsTheBoard
    BY DEF ScrapeInit, SearchFindsTheBoard
  <1> QED
    BY <1>5, <1>6, <1>7, <1>8 DEF NightsInv

\* A worker changes nothing of another entry but, when its second attempt fails to store,
\* the run.
Alone(e) ==
    /\ UNCHANGED <<night, retries, indexed, runs>>
    /\ \A x \in Entries \ {e} : stage'[x] = stage[x] /\ reply'[x] = reply[x] /\ rows'[x] = rows[x]
    /\ \A n \in Nights : n > night => rows'[e][n] = rows[e][n]
    /\ \/ phase' = phase /\ \A x \in Entries \ {e} : result'[x] = result[x]
       \/ phase = "retry" /\ phase' = "dead" /\ stage'[e] = "resulted" /\ \A x \in Entries : result'[x] = NoResult

LEMMA WorkIsAlone ==
    ASSUME NightsInv, NEW e \in Entries, stage[e] # "resulted",
           ScrapeTyped', Alone(e),
           stage'[e] = "stored" => SeenTonight(e)' >= reply'[e],
           phase' # "dead" => TellsOf(e)' /\ (phase = "scrape" => FirstAttempt(e)')
                              /\ (phase = "retry" => SecondAttempt(e)' /\ result'[e].kind # "none")
    PROVE  NightsInv'
  <1>1. phase \in {"scrape", "retry"} /\ phase' \in {"scrape", "retry", "dead"}
    BY DEF NightsInv, WorkersEnd, AllResulted, Alone
  <1>2. NightsToCome'
    BY DEF NightsInv, NightsToCome, Alone
  <1>3. WorkersEnd'
    <2>1. phase = "retry" => \A x \in Entries \ {e} : stage[x] = "resulted" /\ stage'[x] = "resulted"
      BY DEF NightsInv, WorkersEnd, Alone
    <2>2. phase' = "retry" => phase = "retry"
      BY <1>1 DEF Alone
    <2>3. phase' = "dead" => AllResulted'
      BY <1>1, <2>1 DEF Alone, AllResulted
    <2> QED
      BY <1>1, <2>1, <2>2, <2>3 DEF WorkersEnd
  <1>4. ASSUME NEW x \in Entries PROVE InOrder(x)'
    <2>1. CASE phase' = "dead"
      <3>1. result'[x].kind = "none"
        BY <1>1, <2>1 DEF Alone, NoResult
      <3>2. stage'[x] = "stored" => SeenTonight(x)' >= reply'[x]
        <4>1. CASE x = e
          BY <4>1
        <4>2. CASE x # e
          BY <4>2 DEF NightsInv, InOrder, TellsOf, Alone, SeenTonight
        <4> QED
          BY <4>1, <4>2
      <3> QED
        BY <2>1, <3>1, <3>2 DEF InOrder, TellsOf, Pooled
    <2>2. CASE phase' # "dead" /\ x = e
      BY <1>1, <2>2 DEF InOrder, Pooled, Alone
    <2>3. CASE phase' # "dead" /\ x # e
      <3>1. /\ phase' = phase /\ stage'[x] = stage[x] /\ reply'[x] = reply[x]
            /\ rows'[x] = rows[x] /\ result'[x] = result[x] /\ retries' = retries /\ night' = night
        BY <2>3 DEF Alone
      <3>2. SeenTonight(x)' = SeenTonight(x)
        BY <3>1 DEF SeenTonight
      <3> QED
        BY <1>1, <3>1, <3>2 DEF NightsInv, InOrder, TellsOf, FirstAttempt, SecondAttempt, Pooled
    <2> QED
      BY <2>1, <2>2, <2>3
  <1>5. SearchFindsTheBoard'
    BY <1>1 DEF SearchFindsTheBoard
  <1> QED
    BY <1>2, <1>3, <1>4, <1>5 DEF NightsInv

\* A result in the pool, or again in the retry pass.
LEMMA ResultsAreTold ==
    ASSUME NightsInv, NEW e \in Entries, stage[e] # "resulted", NEW r \in Outcome, Resulted(e, r),
           ScrapeTyped', UNCHANGED <<phase, night, retries, indexed, runs>>,
           rows'[e][night] = rows[e][night], 
           \A n \in Nights : n > night => rows'[e][n] = rows[e][n],
           \A x \in Entries \ {e} : rows'[x] = rows[x],
           r.kind # "none", r.kind = "ok" => stage[e] = "stored" /\ r.found = reply[e],
           r.kind \in {"timeout", "raised"} => stage[e] # "stored",
           r.found # 0 => r.kind = "ok",
           stage[e] = "stored" /\ r.found = 0 /\ phase = "retry" => reply[e] = 0
    PROVE  NightsInv'
  <1>1. /\ stage' = [stage EXCEPT ![e] = "resulted"] /\ reply' = [reply EXCEPT ![e] = 0]
        /\ result' = IF phase = "retry" /\ r.found = 0 THEN result ELSE [result EXCEPT ![e] = r]
    BY DEF Resulted
  <1>2. stage \in [Entries -> Stages] /\ reply \in [Entries -> Nat] /\ result \in [Entries -> Outcome]
        /\ SeenTonight(e) \in Nat
    BY SeenType DEF NightsInv, ScrapeTyped
  <1>3. stage'[e] = "resulted" /\ SeenTonight(e)' = SeenTonight(e)
    BY <1>1, <1>2 DEF SeenTonight
  <1>4. Alone(e)
    BY <1>1, <1>2 DEF Alone
  <1>5. phase \in {"scrape", "retry"} /\ InOrder(e) /\ e \in Entries
    BY DEF NightsInv, WorkersEnd, AllResulted
  <1>6. CASE phase = "retry" /\ r.found = 0
    <2>1. result'[e] = result[e]
      BY <1>1, <1>6
    <2>2. TellsOf(e)'
      BY <1>2, <1>3, <1>5, <1>6, <2>1 DEF InOrder, TellsOf
    <2>3. SecondAttempt(e)' /\ result'[e].kind # "none"
      BY <1>3, <1>5, <1>6, <2>1 DEF InOrder, SecondAttempt, Pooled
    <2> QED
      BY <1>3, <1>4, <1>6, <2>2, <2>3, WorkIsAlone
  <1>7. CASE ~(phase = "retry" /\ r.found = 0)
    <2>1. result'[e] = r
      BY <1>1, <1>2, <1>7
    <2>2. TellsOf(e)'
      BY <1>2, <1>3, <1>5, <1>7, <2>1 DEF InOrder, TellsOf, FirstAttempt, Outcome
    <2>3. phase = "retry" => SecondAttempt(e)' /\ result'[e].kind # "none"
      BY <1>3, <1>5, <1>7, <2>1 DEF InOrder, SecondAttempt
    <2>4. FirstAttempt(e)'
      BY <1>3, <2>1 DEF FirstAttempt
    <2> QED
      BY <1>3, <1>4, <2>2, <2>3, <2>4, WorkIsAlone
  <1> QED
    BY <1>6, <1>7

LEMMA ResultTypes ==
    ASSUME ScrapeTyped, NEW e \in Entries, NEW r \in Outcome, Resulted(e, r)
    PROVE  /\ stage' \in [Entries -> Stages] /\ reply' \in [Entries -> Nat]
           /\ result' \in [Entries -> Outcome]
  BY DEF ScrapeTyped, Resulted, Stages

\* The worker's steps up to the store.
LEMMA FetchesAreAlone ==
    ASSUME NightsInv, NEW e \in Entries, Fetch(e) \/ Answer(e) \/ TimeOut(e)
    PROVE  NightsInv'
  <1>1. /\ stage[e] \in {"queued", "fetching"} /\ UNCHANGED <<phase, night, result, retries, rows, indexed, runs>>
        /\ \E s \in {"fetching", "waiting", "hanging"} : stage' = [stage EXCEPT ![e] = s]
        /\ \E k \in Nat : reply' = [reply EXCEPT ![e] = k]
    <2>1. Postings[e] \in Nat /\ reply \in [Entries -> Nat] /\ reply[e] \in Nat
      BY ScrapeAssumption DEF NightsInv, ScrapeTyped
    <2>0. reply = [reply EXCEPT ![e] = reply[e]]
      BY <2>1
    <2>2. CASE Fetch(e)
      <3>1. /\ stage[e] = "queued" /\ stage' = [stage EXCEPT ![e] = "fetching"]
            /\ UNCHANGED <<phase, night, reply, result, retries, rows, indexed, runs>>
        BY <2>2 DEF Fetch
      <3> QED
        BY <2>0, <2>1, <3>1
    <2>3. CASE Answer(e)
      <3>1. PICK k \in 0..Postings[e] : reply' = [reply EXCEPT ![e] = k]
        BY <2>3 DEF Answer
      <3>2. k \in Nat /\ stage[e] = "fetching" /\ stage' = [stage EXCEPT ![e] = "waiting"]
            /\ UNCHANGED <<phase, night, result, retries, rows, indexed, runs>>
        BY <2>1, <2>3 DEF Answer
      <3> QED
        BY <3>1, <3>2
    <2>4. CASE TimeOut(e)
      BY <2>0, <2>1, <2>4 DEF TimeOut
    <2> QED
      BY <2>2, <2>3, <2>4
  <1>2. ScrapeTyped'
    BY <1>1 DEF NightsInv, ScrapeTyped, Stages
  <1>3. /\ stage'[e] \in {"fetching", "waiting", "hanging"} /\ SeenTonight(e)' = SeenTonight(e)
        /\ \A x \in Entries \ {e} : stage'[x] = stage[x] /\ reply'[x] = reply[x]
    BY <1>1 DEF NightsInv, ScrapeTyped, SeenTonight
  <1>4. Alone(e)
    BY <1>1, <1>3 DEF Alone
  <1>5. InOrder(e) /\ phase \in {"scrape", "retry"}
    BY <1>1 DEF NightsInv, WorkersEnd, AllResulted
  <1>6. TellsOf(e)' /\ (phase = "scrape" => FirstAttempt(e)')
    BY <1>1, <1>3, <1>5 DEF InOrder, TellsOf, FirstAttempt
  <1>7. phase = "retry" => SecondAttempt(e)' /\ result'[e].kind # "none"
    BY <1>1, <1>3, <1>5 DEF InOrder, SecondAttempt, Pooled
  <1> QED
    BY <1>1, <1>2, <1>3, <1>4, <1>6, <1>7, WorkIsAlone

LEMMA EmptyHanded ==
    ASSUME NightsInv, NEW e \in Entries, RaiseInRun(e) \/ LateEnd(e)
    PROVE  NightsInv'
  <1>1. PICK r \in {[kind |-> "raised", found |-> 0], [kind |-> "timeout", found |-> 0]} :
            /\ stage[e] \in {"fetching", "hanging"} /\ Resulted(e, r)
            /\ UNCHANGED <<phase, night, retries, rows, indexed, runs>>
    BY DEF RaiseInRun, LateEnd
  <1>2. r \in Outcome /\ r.kind \in {"raised", "timeout"} /\ r.found = 0
    BY <1>1 DEF Outcome
  <1>3. ScrapeTyped'
    BY <1>1, <1>2, ResultTypes DEF NightsInv, ScrapeTyped
  <1> QED
    BY <1>1, <1>2, <1>3, ResultsAreTold

\* What is stored is seen tonight, all of it.
LEMMA StoredIsSeen ==
    ASSUME NightsInv, NEW e \in Entries, Store(e)
    PROVE  NightsInv'
  <1>0. /\ stage[e] = "waiting" /\ stage' = [stage EXCEPT ![e] = "stored"]
        /\ UNCHANGED <<phase, night, reply, result, retries, indexed, runs>>
    BY DEF Store
  <1>1. PICK again \in Some(e, LAMBDA r : r.open), back \in Some(e, LAMBDA r : r.closed),
             same \in 0..rows[e][night].open :
            rows' = [rows EXCEPT ![e] = [n \in Nights |-> LET r == rows[e][n] IN
                  IF n < night THEN [open |-> r.open - again[n], closed |-> r.closed - back[n]]
                  ELSE IF n = night THEN [r EXCEPT !.open = r.open + reply[e] - same] ELSE r]]
    BY DEF Store
  <1>2. /\ reply[e] \in Nat /\ night \in Nights /\ night \in Nat
        /\ rows \in [Entries -> [Nights -> SeenOn]] /\ rows[e][night] \in SeenOn
    BY ScrapeAssumption DEF NightsInv, ScrapeTyped, Nights
  <1>3. rows[e][night].open \in Nat /\ rows[e][night].closed \in Nat /\ same \in Nat /\ same <= rows[e][night].open
    BY <1>2 DEF SeenOn
  <1>4. \A n \in Nights : n < night => /\ again[n] \in Nat /\ back[n] \in Nat
                                       /\ again[n] <= rows[e][n].open /\ back[n] <= rows[e][n].closed
    BY <1>2, ScrapeAssumption DEF Some, Earlier, Nights
  <1>5. /\ rows'[e] \in [Nights -> SeenOn]
        /\ rows'[e][night] = [rows[e][night] EXCEPT !.open = rows[e][night].open + reply[e] - same]
        /\ \A n \in Nights : n > night => rows'[e][n] = rows[e][n]
        /\ \A x \in Entries \ {e} : rows'[x] = rows[x]
        /\ rows' \in [Entries -> [Nights -> SeenOn]]
    <2> DEFINE Tonight(n) == IF n < night THEN [open |-> rows[e][n].open - again[n],
                                            closed |-> rows[e][n].closed - back[n]]
                         ELSE IF n = night THEN [rows[e][n] EXCEPT !.open = rows[e][n].open + reply[e] - same]
                         ELSE rows[e][n]
    <2>1. \A n \in Nights : Tonight(n) \in SeenOn
      <3> SUFFICES ASSUME NEW n \in Nights PROVE Tonight(n) \in SeenOn
        OBVIOUS
      <3>1. rows[e][n] \in SeenOn /\ rows[e][n].open \in Nat /\ rows[e][n].closed \in Nat
        BY <1>2 DEF SeenOn
      <3>2. CASE n < night
        BY <1>4, <3>1, <3>2 DEF SeenOn
      <3>3. CASE n = night
        BY <1>2, <1>3, <3>1, <3>3 DEF SeenOn
      <3>4. CASE ~(n < night) /\ n # night
        BY <3>1, <3>4
      <3> QED
        BY <3>2, <3>3, <3>4
    <2>2. rows' = [rows EXCEPT ![e] = [n \in Nights |-> Tonight(n)]]
      BY <1>1
    <2>3. rows'[e] = [n \in Nights |-> Tonight(n)]
      BY <1>2, <2>2
    <2>4. /\ Tonight(night) = [rows[e][night] EXCEPT !.open = rows[e][night].open + reply[e] - same]
          /\ \A n \in Nights : n > night => Tonight(n) = rows[e][n]
      BY <1>2, ScrapeAssumption DEF Nights
    <2> HIDE DEF Tonight
    <2>5. rows'[e] \in [Nights -> SeenOn]
      BY <2>1, <2>3
    <2> QED
      BY <1>2, <2>2, <2>3, <2>4, <2>5
  <1>6. SeenTonight(e)' = rows[e][night].open + reply[e] - same + rows[e][night].closed
    BY <1>0, <1>2, <1>5 DEF SeenTonight, SeenOn
  <1>7. SeenTonight(e)' >= reply[e] /\ (SeenTonight(e) = 0 => SeenTonight(e)' = reply[e])
    BY <1>2, <1>3, <1>6 DEF SeenTonight
  <1>8. stage'[e] = "stored" /\ reply' = reply /\ result' = result
    BY <1>0 DEF NightsInv, ScrapeTyped
  <1>9. ScrapeTyped'
    BY <1>0, <1>5 DEF NightsInv, ScrapeTyped, Stages
  <1>10. Alone(e)
    BY <1>0, <1>5 DEF Alone, NightsInv, ScrapeTyped
  <1>11. InOrder(e) /\ phase \in {"scrape", "retry"}
    BY <1>0 DEF NightsInv, WorkersEnd, AllResulted
  <1>12. TellsOf(e)'
    <2>1. result[e].kind = "ok" => result[e].found = 0
      BY <1>0, <1>11 DEF InOrder, FirstAttempt, SecondAttempt
    <2>2. result[e].kind = "ok" => SeenTonight(e)' >= result[e].found
      BY <1>2, <1>7, <2>1, <1>3, <1>6
    <2>3. result[e].kind \in {"timeout", "raised"} => SeenTonight(e)' = reply[e]
      BY <1>0, <1>7, <1>11 DEF InOrder, TellsOf
    <2> QED
      BY <1>7, <1>8, <2>2, <2>3 DEF TellsOf
  <1>13. phase = "scrape" => FirstAttempt(e)'
    BY <1>0, <1>8, <1>11 DEF InOrder, FirstAttempt
  <1>14. phase = "retry" => SecondAttempt(e)' /\ result'[e].kind # "none"
    BY <1>0, <1>8, <1>11 DEF InOrder, SecondAttempt, Pooled
  <1> QED
    BY <1>0, <1>7, <1>8, <1>9, <1>10, <1>12, <1>13, <1>14, WorkIsAlone

\* What is closed was last seen on an earlier night.
LEMMA ClosingIsAlone ==
    ASSUME NightsInv, NEW e \in Entries, CloseUnseen(e)
    PROVE  NightsInv'
  <1> DEFINE r == [kind |-> "ok", found |-> reply[e]]
  <1>1. /\ stage[e] = "stored" /\ Resulted(e, r) /\ UNCHANGED <<phase, night, retries, indexed, runs>>
        /\ rows' = [x \in Entries |-> IF x \in SeenNoMore(e)
                    THEN [n \in Nights |-> IF n < night
                              THEN [open |-> 0, closed |-> rows[x][n].open + rows[x][n].closed]
                              ELSE rows[x][n]]
                    ELSE rows[x]]
    BY DEF CloseUnseen
  <1>2. SeenNoMore(e) \subseteq {e}
    BY DEF SeenNoMore
  <1>3. /\ reply[e] \in Nat /\ night \in Nights /\ \A n \in Nights : n \in Nat
        /\ rows \in [Entries -> [Nights -> SeenOn]]
    BY ScrapeAssumption DEF NightsInv, ScrapeTyped, Nights
  <1>4. r \in Outcome /\ r.kind = "ok" /\ r.found = reply[e]
    BY <1>3 DEF Outcome
  <1>5. /\ rows' \in [Entries -> [Nights -> SeenOn]]
        /\ \A n \in Nights : ~(n < night) => rows'[e][n] = rows[e][n]
        /\ \A x \in Entries \ {e} : rows'[x] = rows[x]
    <2>1. \A n \in Nights : /\ rows[e][n] \in SeenOn
                            /\ [open |-> 0, closed |-> rows[e][n].open + rows[e][n].closed] \in SeenOn
      BY <1>3 DEF SeenOn
    <2>2. \A x \in Entries \ {e} : rows'[x] = rows[x]
      BY <1>1, <1>2
    <2>3. CASE e \in SeenNoMore(e)
      <3>1. rows'[e] = [n \in Nights |-> IF n < night
                              THEN [open |-> 0, closed |-> rows[e][n].open + rows[e][n].closed]
                              ELSE rows[e][n]]
        BY <1>1, <2>3
      <3>2. rows'[e] \in [Nights -> SeenOn] /\ \A n \in Nights : ~(n < night) => rows'[e][n] = rows[e][n]
        BY <2>1, <3>1
      <3> QED
        BY <1>1, <1>3, <2>2, <3>2
    <2>4. CASE e \notin SeenNoMore(e)
      BY <1>1, <1>2, <1>3, <2>4
    <2> QED
      BY <2>3, <2>4
  <1> HIDE DEF r
  <1>6. ScrapeTyped'
    BY <1>1, <1>4, <1>5, ResultTypes DEF NightsInv, ScrapeTyped
  <1>7. rows'[e][night] = rows[e][night] /\ \A n \in Nights : n > night => rows'[e][n] = rows[e][n]
    BY <1>3, <1>5
  <1> QED
    BY <1>1, <1>3, <1>4, <1>5, <1>6, <1>7, ResultsAreTold

LEMMA FailuresAreAlone ==
    ASSUME NightsInv, NEW e \in Entries, StoreFails(e)
    PROVE  NightsInv'
  <1>1. stage[e] \in {"waiting", "stored"} /\ UNCHANGED <<night, retries, rows, indexed, runs>>
    BY DEF StoreFails
  <1>2. CASE phase = "scrape"
    <2> DEFINE r == [kind |-> "store", found |-> 0]
    <2>1. Resulted(e, r) /\ UNCHANGED phase
      BY <1>2 DEF StoreFails
    <2>2. r \in Outcome /\ r.kind = "store" /\ r.found = 0
      BY DEF Outcome
    <2> HIDE DEF r
    <2>3. ScrapeTyped'
      BY <1>1, <2>1, <2>2, ResultTypes DEF NightsInv, ScrapeTyped
    <2> QED
      BY <1>1, <1>2, <2>1, <2>2, <2>3, ResultsAreTold
  <1>3. CASE phase # "scrape"
    <2>1. /\ phase' = "dead" /\ result' = [x \in Entries |-> NoResult]
          /\ stage' = [stage EXCEPT ![e] = "resulted"] /\ reply' = [reply EXCEPT ![e] = 0]
      BY <1>3 DEF StoreFails
    <2>2. phase = "retry" /\ NoResult \in Outcome
      BY <1>1, <1>3 DEF NightsInv, WorkersEnd, AllResulted, NoResult, Outcome
    <2>3. ScrapeTyped'
      BY <1>1, <2>1, <2>2 DEF NightsInv, ScrapeTyped, Stages
    <2>4. Alone(e) /\ stage'[e] = "resulted"
      BY <1>1, <2>1, <2>2 DEF Alone, NightsInv, ScrapeTyped
    <2> QED
      BY <1>1, <2>1, <2>3, <2>4, WorkIsAlone
  <1> QED
    BY <1>2, <1>3

----------------------------------------------------------------------------
\* The run's own steps, when its workers have ended or are gone.
LEMMA RunsStart ==
    ASSUME NightsInv, StartRun
    PROVE  NightsInv'
  <1>1. /\ phase' = "scrape" /\ night' = night + 1 /\ night < MaxNights
        /\ stage' = [e \in Entries |-> "queued"] /\ result' = [e \in Entries |-> NoResult]
        /\ runs' = [e \in Entries |-> "none"] /\ UNCHANGED <<reply, retries, rows, indexed>>
    BY DEF StartRun
  <1>2. night \in Nat /\ night' \in Nights /\ night' > night /\ \A n \in Nights : n \in Nat
    BY <1>1, ScrapeAssumption DEF NightsInv, ScrapeTyped, Nights
  <1>3. NoResult \in Outcome /\ NoResult.kind = "none"
    BY DEF NoResult, Outcome
  <1>4. ScrapeTyped'
    BY <1>1, <1>2, <1>3 DEF NightsInv, ScrapeTyped, Stages
  <1>5. NightsToCome'
    <2> SUFFICES ASSUME NEW e \in Entries, NEW n \in Nights, n > night' PROVE rows'[e][n] = Empty
      BY DEF NightsToCome, Nights
    <2>1. n > night
      BY <1>2
    <2>2. rows[e][n] = Empty
      BY <2>1 DEF NightsInv, NightsToCome
    <2> QED
      BY <1>1, <2>2
  <1>6. WorkersEnd' /\ SearchFindsTheBoard'
    BY <1>1 DEF WorkersEnd, SearchFindsTheBoard
  <1>7. ASSUME NEW e \in Entries PROVE InOrder(e)'
    <2>1. rows'[e][night'] = Empty
      BY <1>1, <1>2 DEF NightsInv, NightsToCome
    <2>2. SeenTonight(e)' = 0
      BY <2>1 DEF SeenTonight, Empty
    <2> QED
      BY <1>1, <1>3, <2>2 DEF InOrder, TellsOf, FirstAttempt, Pooled
  <1> QED
    BY <1>4, <1>5, <1>6, <1>7 DEF NightsInv

LEMMA RunsDie ==
    ASSUME NightsInv, RunnerDies
    PROVE  NightsInv'
  <1>1. /\ phase' = "dead" /\ retries' = {} /\ UNCHANGED <<night, rows, indexed, runs>>
        /\ stage' = [e \in Entries |-> "resulted"] /\ reply' = [e \in Entries |-> 0]
        /\ result' = [e \in Entries |-> NoResult]
    BY DEF RunnerDies
  <1>2. NoResult \in Outcome /\ NoResult.kind = "none"
    BY DEF NoResult, Outcome
  <1>3. ScrapeTyped'
    BY <1>1, <1>2 DEF NightsInv, ScrapeTyped, Stages
  <1>4. NightsToCome' /\ WorkersEnd' /\ SearchFindsTheBoard'
    BY <1>1 DEF NightsInv, NightsToCome, WorkersEnd, AllResulted, SearchFindsTheBoard
  <1>5. \A e \in Entries : InOrder(e)'
    BY <1>1, <1>2 DEF InOrder, TellsOf, Pooled
  <1> QED
    BY <1>3, <1>4, <1>5 DEF NightsInv

LEMMA RetriesStart ==
    ASSUME NightsInv, StartRetries
    PROVE  NightsInv'
  <1>1. /\ phase = "scrape" /\ AllResulted /\ phase' = "retry"
        /\ retries' = {e \in Entries : result[e].found = 0}
        /\ UNCHANGED <<night, stage, reply, result, rows, indexed, runs>>
    BY DEF StartRetries
  <1>2. ScrapeTyped' /\ NightsToCome' /\ SearchFindsTheBoard'
    BY <1>1 DEF NightsInv, ScrapeTyped, NightsToCome, SearchFindsTheBoard
  <1>3. WorkersEnd'
    BY <1>1 DEF WorkersEnd, AllResulted
  <1>4. ASSUME NEW e \in Entries PROVE InOrder(e)'
    <2>1. stage'[e] = "resulted" /\ SeenTonight(e)' = SeenTonight(e) /\ InOrder(e)
      BY <1>1 DEF NightsInv, AllResulted, SeenTonight
    <2> QED
      BY <1>1, <2>1 DEF InOrder, TellsOf, FirstAttempt, SecondAttempt, Pooled
  <1> QED
    BY <1>2, <1>3, <1>4 DEF NightsInv

LEMMA RetriesGoOn ==
    ASSUME NightsInv, NEW e \in Entries, Retry(e)
    PROVE  NightsInv'
  <1>1. /\ phase = "retry" /\ AllResulted /\ e \in retries /\ retries' = retries \ {e}
        /\ stage' = [stage EXCEPT ![e] = "queued"]
        /\ UNCHANGED <<phase, night, reply, result, rows, indexed, runs>>
    BY DEF Retry
  <1>2. ScrapeTyped' /\ NightsToCome' /\ SearchFindsTheBoard'
    BY <1>1 DEF NightsInv, ScrapeTyped, Stages, NightsToCome, SearchFindsTheBoard
  <1>3. WorkersEnd'
    BY <1>1 DEF WorkersEnd, AllResulted, NightsInv, ScrapeTyped
  <1>4. ASSUME NEW x \in Entries PROVE InOrder(x)'
    <2>1. /\ SeenTonight(x)' = SeenTonight(x) /\ InOrder(x) /\ stage[x] = "resulted"
          /\ stage'[x] = IF x = e THEN "queued" ELSE "resulted"
      BY <1>1 DEF NightsInv, AllResulted, SeenTonight, ScrapeTyped
    <2> QED
      BY <1>1, <2>1 DEF InOrder, TellsOf, SecondAttempt, Pooled
  <1> QED
    BY <1>2, <1>3, <1>4 DEF NightsInv

\* After the retry pass: a Listing too old is closed on the night it was last seen.
LEMMA RetiringIsInOrder ==
    ASSUME NightsInv, RetireAged
    PROVE  NightsInv'
  <1>1. /\ phase = "retry" /\ AllResulted /\ phase' = "aged"
        /\ UNCHANGED <<night, stage, reply, result, retries, indexed, runs>>
    BY DEF RetireAged
  <1>2. /\ rows' \in [Entries -> [Nights -> SeenOn]] /\ NightsToCome'
        /\ \A x \in Entries : SeenTonight(x)' = SeenTonight(x)
    <2>1. CASE UNCHANGED rows
      BY <1>1, <2>1 DEF NightsInv, ScrapeTyped, NightsToCome, SeenTonight
    <2>2. CASE \E e \in Entries, n \in Nights :
                   /\ rows[e][n].open > 0
                   /\ rows' = [rows EXCEPT ![e][n] = [open |-> @.open - 1, closed |-> @.closed + 1]]
      <3>1. PICK e \in Entries, n \in Nights :
                   /\ rows[e][n].open > 0
                   /\ rows' = [rows EXCEPT ![e][n] = [open |-> @.open - 1, closed |-> @.closed + 1]]
        BY <2>2
      <3> DEFINE now == [open |-> rows[e][n].open - 1, closed |-> rows[e][n].closed + 1]
      <3>2. /\ rows \in [Entries -> [Nights -> SeenOn]] /\ rows[e][n].open \in Nat
            /\ rows[e][n].closed \in Nat /\ night \in Nights
        BY DEF NightsInv, ScrapeTyped, SeenOn
      <3>3. /\ rows' = [rows EXCEPT ![e][n] = now] /\ now \in SeenOn
            /\ now.open + now.closed = rows[e][n].open + rows[e][n].closed
        <4>1. rows' = [rows EXCEPT ![e][n] = now]
          BY <3>1, <3>2
        <4>2. rows[e][n].open > 0
          BY <3>1
        <4>3. now \in SeenOn /\ now.open + now.closed = rows[e][n].open + rows[e][n].closed
          BY <3>2, <4>2 DEF SeenOn
        <4> QED
          BY <4>1, <4>3
      <3>4. ~(n > night)
        BY <3>1 DEF NightsInv, NightsToCome, Empty
      <3> HIDE DEF now
      <3>5. /\ rows' \in [Entries -> [Nights -> SeenOn]]
            /\ rows'[e][n] = now
            /\ \A x \in Entries, m \in Nights : x # e \/ m # n => rows'[x][m] = rows[x][m]
        BY <3>2, <3>3
      <3>6. NightsToCome'
        BY <1>1, <3>4, <3>5 DEF NightsInv, NightsToCome
      <3>7. ASSUME NEW x \in Entries PROVE SeenTonight(x)' = SeenTonight(x)
        <4>1. CASE x = e /\ n = night
          BY <1>1, <3>3, <3>5, <4>1 DEF SeenTonight
        <4>2. CASE ~(x = e /\ n = night)
          BY <1>1, <3>2, <3>5, <4>2 DEF SeenTonight
        <4> QED
          BY <4>1, <4>2
      <3> QED
        BY <3>5, <3>6, <3>7
    <2> QED
      BY <2>1, <2>2 DEF RetireAged
  <1>3. ScrapeTyped' /\ WorkersEnd' /\ SearchFindsTheBoard'
    BY <1>1, <1>2 DEF NightsInv, ScrapeTyped, WorkersEnd, AllResulted, SearchFindsTheBoard
  <1>4. ASSUME NEW x \in Entries PROVE InOrder(x)'
    <2>1. SeenTonight(x)' = SeenTonight(x) /\ InOrder(x)
      BY <1>2 DEF NightsInv
    <2> QED
      BY <1>1, <2>1 DEF InOrder, TellsOf, Pooled
  <1> QED
    BY <1>2, <1>3, <1>4 DEF NightsInv

LEMMA RunsAreRecorded ==
    ASSUME NightsInv, RebuildIndex \/ RecordHistory \/ RecordRuns
    PROVE  NightsInv'
  <1>1. /\ phase \in {"aged", "indexed", "recorded"} /\ phase' \in {"indexed", "recorded", "idle"}
        /\ UNCHANGED <<night, stage, reply, result, retries, rows>>
        /\ runs' = runs \/ runs' = [e \in Entries |-> Status(result[e])]
        /\ phase' = "idle" => runs' = [e \in Entries |-> Status(result[e])]
        /\ phase = "aged" => indexed' = [e \in Entries |-> OpenOf(e)]
        /\ phase # "aged" => indexed' = indexed
    BY DEF RebuildIndex, RecordHistory, RecordRuns
  <1>2. ScrapeTyped' /\ NightsToCome' /\ WorkersEnd'
    BY <1>1 DEF NightsInv, ScrapeTyped, NightsToCome, WorkersEnd, AllResulted, Status
  <1>3. ASSUME NEW x \in Entries PROVE InOrder(x)'
    <2>1. SeenTonight(x)' = SeenTonight(x) /\ InOrder(x)
      BY <1>1 DEF NightsInv, SeenTonight
    <2> QED
      BY <1>1, <2>1 DEF InOrder, TellsOf, Pooled
  <1>4. SearchFindsTheBoard'
    <2>1. \A e \in Entries : OpenOf(e)' = OpenOf(e)
      BY <1>1 DEF OpenOf
    <2> QED
      BY <1>1, <2>1 DEF NightsInv, SearchFindsTheBoard
  <1> QED
    BY <1>2, <1>3, <1>4 DEF NightsInv

LEMMA NightsSteps == NightsInv /\ [ScrapeNext]_scrapeVars => NightsInv'
  <1> SUFFICES ASSUME NightsInv, [ScrapeNext]_scrapeVars PROVE NightsInv'
    OBVIOUS
  <1>1. CASE UNCHANGED scrapeVars
    <2>1. \A e \in Entries : OpenOf(e)' = OpenOf(e) /\ SeenTonight(e)' = SeenTonight(e)
      BY <1>1 DEF scrapeVars, OpenOf, SeenTonight
    <2>2. \A e \in Entries : InOrder(e)'
      BY <1>1, <2>1 DEF scrapeVars, NightsInv, InOrder, TellsOf, FirstAttempt, SecondAttempt, Pooled
    <2>3. SearchFindsTheBoard'
      BY <1>1, <2>1 DEF scrapeVars, NightsInv, SearchFindsTheBoard
    <2>4. ScrapeTyped' /\ NightsToCome'
      BY <1>1 DEF scrapeVars, NightsInv, ScrapeTyped, NightsToCome
    <2>5. WorkersEnd'
      BY <1>1 DEF scrapeVars, NightsInv, WorkersEnd, AllResulted
    <2> QED
      BY <2>2, <2>3, <2>4, <2>5 DEF NightsInv
  <1>2. ASSUME NEW e \in Entries, CompanyWork(e) PROVE NightsInv'
    BY <1>2, FetchesAreAlone, EmptyHanded, StoredIsSeen, ClosingIsAlone, FailuresAreAlone DEF CompanyWork
  <1>3. CASE FinishCompany
    BY <1>3, RetiringIsInOrder, RunsAreRecorded DEF FinishCompany
  <1> QED
    BY <1>1, <1>2, <1>3, RunsStart, RetriesStart, RetriesGoOn, RunsDie DEF ScrapeNext

----------------------------------------------------------------------------
(* Sums over a finite set: what MapThenSumSet computes, and that larger     *)
(* numbers have a larger sum.                                               *)

\* Some numbers have a least one.
LEMMA LeastOf ==
    ASSUME NEW S \in SUBSET Nat, S # {}
    PROVE  \E x \in S : \A y \in S : x <= y
  <1>1. PICK x \in S : \A y \in S : <<y, x>> \notin OpToRel(<, Nat)
    BY WFMin, NatLessThanWellFounded, Zenon
  <1>2. \A y \in S : ~(y < x)
    BY <1>1 DEF OpToRel
  <1> QED
    BY <1>2

\* h is the sum of F over every part of S, taken element by element.
SumsUp(h, S, F) ==
    h = [s \in SUBSET S |-> IF s = {} THEN 0
                            ELSE F[CHOOSE x \in s : TRUE] + h[s \ {CHOOSE x \in s : TRUE}]]

LEMMA SumsExist ==
    ASSUME NEW S, IsFiniteSet(S), NEW F \in [S -> Nat]
    PROVE  \E h : SumsUp(h, S, F)
  <1> DEFINE pick(s) == CHOOSE x \in s : TRUE
             next(h, s) == IF s = {} THEN 0 ELSE F[pick(s)] + h[s \ {pick(s)}]
             upTo(n, h) == \A s \in SUBSET S : Cardinality(s) <= n => h[s] = next(h, s)
             Missing == {n \in Nat : ~ \E h \in [SUBSET S -> Nat] : upTo(n, h)}
  <1>1. ASSUME NEW s \in SUBSET S
        PROVE  /\ IsFiniteSet(s) /\ Cardinality(s) \in Nat /\ (Cardinality(s) = 0 <=> s = {})
               /\ s # {} => /\ pick(s) \in s /\ s \ {pick(s)} \in SUBSET S
                            /\ Cardinality(s \ {pick(s)}) = Cardinality(s) - 1
    <2>1. IsFiniteSet(s) /\ Cardinality(s) \in Nat /\ (Cardinality(s) = 0 <=> s = {})
      BY FS_Subset, FS_CardinalityType, FS_EmptySet
    <2>2. s # {} => pick(s) \in s
      OBVIOUS
    <2> HIDE DEF pick
    <2> QED
      BY <2>1, <2>2, FS_RemoveElement
  <1> HIDE DEF pick
  <1> DEFINE size(s) == Cardinality(s)
  <1>2. \A s \in SUBSET S : size(s) \in Nat /\ (size(s) <= 0 => s = {})
    <2>1. \A s \in SUBSET S : size(s) \in Nat /\ (size(s) = 0 => s = {})
      BY <1>1
    <2> HIDE DEF size
    <2> QED
      BY <2>1
  <1>3. ASSUME NEW h \in [SUBSET S -> Nat], NEW s \in SUBSET S PROVE next(h, s) \in Nat
    <2>1. s # {} => F[pick(s)] \in Nat /\ h[s \ {pick(s)}] \in Nat
      BY <1>1
    <2> QED
      BY <2>1
  <1>4. Missing \in SUBSET Nat
    OBVIOUS
  <1>5. ASSUME NEW n \in Nat, n # 0, NEW h \in [SUBSET S -> Nat], upTo(n - 1, h)
        PROVE  n \notin Missing
    <2> DEFINE more == [s \in SUBSET S |-> IF Cardinality(s) = n THEN next(h, s) ELSE h[s]]
    <2>1. more \in [SUBSET S -> Nat]
      <3> HIDE DEF next
      <3> QED
        BY <1>3
    <2>2. ASSUME NEW s \in SUBSET S, Cardinality(s) <= n PROVE more[s] = next(more, s)
      <3>1. s # {} => more[s \ {pick(s)}] = h[s \ {pick(s)}]
        <4>1. s # {} => s \ {pick(s)} \in SUBSET S /\ Cardinality(s \ {pick(s)}) # n
          BY <1>1, <2>2
        <4> HIDE DEF next
        <4> QED
          BY <4>1
      <3>2. next(more, s) = next(h, s)
        <4> HIDE DEF more
        <4> QED
          BY <3>1
      <3>3. more[s] = next(h, s)
        <4>1. Cardinality(s) = n \/ Cardinality(s) <= n - 1
          <5>1. size(s) \in Nat /\ size(s) <= n
            BY <1>2, <2>2
          <5> HIDE DEF size
          <5>2. size(s) = n \/ size(s) <= n - 1
            BY <5>1
          <5> QED
            BY <5>2 DEF size
        <4>2. Cardinality(s) <= n - 1 => h[s] = next(h, s)
          BY <1>5
        <4> HIDE DEF next
        <4> QED
          BY <4>1, <4>2
      <3> QED
        BY <3>2, <3>3
    <2> HIDE DEF more, next
    <2> QED
      BY <2>1, <2>2
  <1>6. 0 \notin Missing
    <2> DEFINE h == [s \in SUBSET S |-> 0]
    <2>1. \A s \in SUBSET S : Cardinality(s) <= 0 => s = {}
      BY <1>2
    <2>2. upTo(0, h)
      BY <2>1
    <2>3. h \in [SUBSET S -> Nat]
      OBVIOUS
    <2> HIDE DEF h, upTo
    <2> QED
      BY <2>2, <2>3
  <1>7. Missing = {}
    <2> SUFFICES ASSUME Missing # {} PROVE FALSE
      OBVIOUS
    <2>1. PICK n \in Missing : \A m \in Missing : n <= m
      <3> HIDE DEF Missing
      <3> QED
        BY <1>4, LeastOf
    <2>2. n \in Nat /\ n # 0 /\ n - 1 \in Nat /\ ~(n <= n - 1)
      <3> HIDE DEF Missing
      <3> QED
        BY <1>4, <1>6, <2>1
    <2>3. n - 1 \notin Missing
      <3> HIDE DEF Missing
      <3> QED
        BY <2>1, <2>2
    <2>4. PICK h \in [SUBSET S -> Nat] : upTo(n - 1, h)
      <3> HIDE DEF upTo
      <3> QED
        BY <2>2, <2>3
    <2> HIDE DEF upTo, Missing
    <2> QED
      BY <1>5, <2>1, <2>2, <2>4
  <1>8. PICK h \in [SUBSET S -> Nat] : upTo(Cardinality(S), h)
    <2>1. Cardinality(S) \in Nat
      BY FS_CardinalityType
    <2> HIDE DEF upTo
    <2> QED
      BY <1>7, <2>1
  <1>9. \A s \in SUBSET S : h[s] = next(h, s)
    <2>1. \A s \in SUBSET S : Cardinality(s) <= Cardinality(S)
      BY FS_Subset
    <2> HIDE DEF next
    <2> QED
      BY <1>8, <2>1
  <1>10. h = [s \in SUBSET S |-> next(h, s)]
    <2> HIDE DEF next
    <2> QED
      BY <1>9
  <1> QED
    BY <1>10 DEF SumsUp, pick

\* Larger numbers have a larger sum.
LEMMA SumsCompare ==
    ASSUME NEW S, IsFiniteSet(S), NEW F \in [S -> Nat], NEW G \in [S -> Nat], \A x \in S : F[x] <= G[x],
           NEW h, SumsUp(h, S, F), NEW k, SumsUp(k, S, G)
    PROVE  h[S] <= k[S]
  <1> DEFINE pick(s) == CHOOSE x \in s : TRUE
             fits(s) == h[s] \in Nat /\ k[s] \in Nat /\ h[s] <= k[s]
             Sizes == {Cardinality(s) : s \in {x \in SUBSET S : ~fits(x)}}
  <1>1. ASSUME NEW s \in SUBSET S
        PROVE  /\ Cardinality(s) \in Nat
               /\ s = {} => h[s] = 0 /\ k[s] = 0
               /\ s # {} => /\ pick(s) \in S /\ s \ {pick(s)} \in SUBSET S
                            /\ Cardinality(s \ {pick(s)}) = Cardinality(s) - 1
                            /\ h[s] = F[pick(s)] + h[s \ {pick(s)}]
                            /\ k[s] = G[pick(s)] + k[s \ {pick(s)}]
    <2>1. IsFiniteSet(s) /\ Cardinality(s) \in Nat
      BY FS_Subset, FS_CardinalityType
    <2>2. s # {} => pick(s) \in s
      OBVIOUS
    <2>3. h[s] = IF s = {} THEN 0 ELSE F[pick(s)] + h[s \ {pick(s)}]
      BY DEF SumsUp
    <2>4. k[s] = IF s = {} THEN 0 ELSE G[pick(s)] + k[s \ {pick(s)}]
      BY DEF SumsUp
    <2> HIDE DEF pick
    <2> QED
      BY <2>1, <2>2, <2>3, <2>4, FS_RemoveElement
  <1> HIDE DEF pick
  <1>2. Sizes = {}
    <2> SUFFICES ASSUME Sizes # {} PROVE FALSE
      OBVIOUS
    <2>1. PICK n \in Sizes : \A m \in Sizes : n <= m
      <3>1. Sizes \in SUBSET Nat
        BY <1>1
      <3> HIDE DEF Sizes
      <3> QED
        BY <3>1, LeastOf
    <2>2. PICK s \in SUBSET S : ~fits(s) /\ n = Cardinality(s)
      BY <2>1
    <2>3. s # {}
      <3>1. s = {} => h[s] = 0 /\ k[s] = 0
        BY <1>1
      <3> QED
        BY <2>2, <3>1
    <2>4. fits(s \ {pick(s)})
      <3> DEFINE less == s \ {pick(s)}
      <3>1. less \in SUBSET S /\ Cardinality(less) = n - 1 /\ n \in Nat
        BY <1>1, <2>2, <2>3
      <3> HIDE DEF less
      <3>2. ~(n <= Cardinality(less))
        BY <3>1
      <3>3. Cardinality(less) \notin Sizes
        <4> HIDE DEF Sizes
        <4> QED
          BY <2>1, <3>2
      <3>4. fits(less)
        <4> HIDE DEF fits
        <4> QED
          BY <3>1, <3>3
      <3> QED
        BY <3>4 DEF less
    <2>5. F[pick(s)] \in Nat /\ G[pick(s)] \in Nat /\ F[pick(s)] <= G[pick(s)]
      BY <1>1, <2>3
    <2> QED
      BY <1>1, <2>2, <2>3, <2>4, <2>5
  <1> QED
    BY <1>2

\* What the results of some entries say, and what was stored of them.
FoundIn(S) == MapThenSumSet(LAMBDA e : result[e].found, S)
StoredIn(S) == MapThenSumSet(SeenTonight, S)

LEMMA FoundAddsUp ==
    ASSUME NEW S, IsFiniteSet(S), \A e \in S : result[e].found \in Nat
    PROVE  \E h : SumsUp(h, S, [e \in S |-> result[e].found]) /\ FoundIn(S) = h[S]
  <1> DEFINE F == [e \in S |-> result[e].found]
             adds(h) == h = [s \in SUBSET S |-> IF s = {} THEN 0
                                 ELSE result[CHOOSE x \in s : TRUE].found + h[s \ {CHOOSE x \in s : TRUE}]]
  <1>1. F \in [S -> Nat]
    OBVIOUS
  <1>2. \A h : adds(h) <=> SumsUp(h, S, F)
    BY DEF SumsUp
  <1>3. \E h : adds(h)
    <2> HIDE DEF adds, F
    <2> QED
      BY <1>1, <1>2, SumsExist
  <1>4. FoundIn(S) = (CHOOSE h : adds(h))[S]
    BY DEF FoundIn, MapThenSumSet, MapThenFoldSet
  <1> HIDE DEF adds
  <1> QED
    BY <1>2, <1>3, <1>4

LEMMA StoredAddsUp ==
    ASSUME NEW S, IsFiniteSet(S), \A e \in S : SeenTonight(e) \in Nat
    PROVE  \E h : SumsUp(h, S, [e \in S |-> SeenTonight(e)]) /\ StoredIn(S) = h[S]
  <1> DEFINE F == [e \in S |-> SeenTonight(e)]
             adds(h) == h = [s \in SUBSET S |-> IF s = {} THEN 0
                                 ELSE SeenTonight(CHOOSE x \in s : TRUE) + h[s \ {CHOOSE x \in s : TRUE}]]
  <1>1. F \in [S -> Nat]
    OBVIOUS
  <1>2. \A h : adds(h) <=> SumsUp(h, S, F)
    BY DEF SumsUp
  <1>3. \E h : adds(h)
    <2> HIDE DEF adds, F
    <2> QED
      BY <1>1, <1>2, SumsExist
  <1>4. StoredIn(S) = (CHOOSE h : adds(h))[S]
    BY DEF StoredIn, MapThenSumSet, MapThenFoldSet
  <1> HIDE DEF adds
  <1> QED
    BY <1>2, <1>3, <1>4

\* Where each result counts what was stored, their sum does.
LEMMA SumsAreStored ==
    ASSUME NEW S, IsFiniteSet(S),
           \A e \in S : result[e].found \in Nat /\ SeenTonight(e) \in Nat /\ SeenTonight(e) >= result[e].found
    PROVE  FoundIn(S) <= StoredIn(S)
  <1> DEFINE F == [e \in S |-> result[e].found]
             G == [e \in S |-> SeenTonight(e)]
  <1>1. F \in [S -> Nat] /\ G \in [S -> Nat] /\ \A e \in S : F[e] <= G[e]
    OBVIOUS
  <1>2. PICK h : SumsUp(h, S, F) /\ FoundIn(S) = h[S]
    BY FoundAddsUp
  <1>3. PICK k : SumsUp(k, S, G) /\ StoredIn(S) = k[S]
    BY StoredAddsUp
  <1> HIDE DEF F, G
  <1> QED
    BY <1>1, <1>2, <1>3, SumsCompare

LEMMA SumsAreNumbers ==
    ASSUME NEW S, IsFiniteSet(S), \A e \in S : result[e].found \in Nat
    PROVE  FoundIn(S) >= FoundIn(S)
  <1> DEFINE F == [e \in S |-> result[e].found]
  <1>1. F \in [S -> Nat] /\ \A e \in S : F[e] <= F[e]
    OBVIOUS
  <1>2. PICK h : SumsUp(h, S, F) /\ FoundIn(S) = h[S]
    BY FoundAddsUp
  <1> HIDE DEF F
  <1> QED
    BY <1>1, <1>2, SumsCompare

Ours(s) == {e \in Entries : e.slug = s}

\* A company whose sources all answered has the sum of what their results say for its count.
CountsAreOfTheCompany ==
    phase \in {"recorded", "idle"} /\ night > 0 =>
        \A s \in Slugs : (\A e \in Ours(s) : result[e].kind = "ok") => history[s] = FoundIn(Ours(s))

LEMMA CountsSteps ==
    ASSUME NightsInv, CountsAreOfTheCompany, [ScrapeNext]_scrapeVars
    PROVE  CountsAreOfTheCompany'
  <1>1. ASSUME UNCHANGED <<result, history>>, UNCHANGED night,
               phase' \in {"recorded", "idle"} => phase \in {"recorded", "idle"}
        PROVE  CountsAreOfTheCompany'
    <2>1. \A S : FoundIn(S)' = FoundIn(S)
      BY <1>1 DEF FoundIn, MapThenSumSet, MapThenFoldSet
    <2> QED
      BY <1>1, <2>1 DEF CountsAreOfTheCompany
  <1>2. CASE UNCHANGED scrapeVars
    BY <1>1, <1>2 DEF scrapeVars
  <1>3. CASE RecordRuns
    BY <1>1, <1>3 DEF RecordRuns
  <1>4. CASE RecordHistory
    <2>1. ASSUME NEW s \in Slugs, \A e \in Ours(s) : result[e].kind = "ok"
          PROVE  history'[s] = FoundIn(Ours(s))
      <3>1. Reported(s) = Ours(s) /\ Ours(s) # {}
        BY <2>1 DEF Reported, Ours, Slugs
      <3>2. SourceCounted(s) = FoundIn(Ours(s))
        BY <3>1 DEF SourceCounted, FoundIn
      <3> QED
        BY <1>4, <3>1, <3>2 DEF RecordHistory
    <2>2. \A S : FoundIn(S)' = FoundIn(S)
      BY <1>4 DEF RecordHistory, FoundIn, MapThenSumSet, MapThenFoldSet
    <2>3. result' = result
      BY <1>4 DEF RecordHistory
    <2> QED
      BY <2>1, <2>2, <2>3 DEF CountsAreOfTheCompany
  <1>5. ASSUME phase' \notin {"recorded", "idle"} PROVE CountsAreOfTheCompany'
    BY <1>5 DEF CountsAreOfTheCompany
  <1>6. ASSUME NEW e \in Entries, CompanyWork(e) PROVE phase' \notin {"recorded", "idle"}
    <2>1. phase \in {"scrape", "retry"} /\ (phase' = phase \/ phase' = "dead")
      <3>1. stage[e] # "resulted"
        BY <1>6 DEF CompanyWork, Fetch, Answer, RaiseInRun, TimeOut, LateEnd, Store, CloseUnseen, StoreFails
      <3>2. phase \in {"scrape", "retry"}
        BY <3>1 DEF NightsInv, WorkersEnd, AllResulted
      <3> QED
        BY <1>6, <3>2 DEF CompanyWork, Fetch, Answer, RaiseInRun, TimeOut, LateEnd, Store, CloseUnseen, StoreFails
    <2> QED
      BY <2>1
  <1>7. ASSUME StartRun \/ StartRetries \/ RetireAged \/ RebuildIndex \/ RunnerDies \/ \E e \in Entries : Retry(e)
        PROVE  phase' \notin {"recorded", "idle"}
    BY <1>7 DEF StartRun, StartRetries, RetireAged, RebuildIndex, RunnerDies, Retry
  <1> QED
    BY <1>2, <1>3, <1>4, <1>5, <1>6, <1>7 DEF ScrapeNext, FinishCompany

LEMMA CountsMean ==
    ASSUME NightsInv, CountsAreOfTheCompany, ReportsAreStored
    PROVE  HistoryIsOfTheCompany
  <1> SUFFICES ASSUME phase \in {"recorded", "idle"}, night > 0, NEW s \in Slugs,
                      \A e \in Ours(s) : result[e].kind = "ok"
               PROVE  history[s] <= StoredIn(Ours(s)) /\ history[s] >= FoundIn(Ours(s))
    BY DEF HistoryIsOfTheCompany, Ours, StoredIn, FoundIn
  <1>1. history[s] = FoundIn(Ours(s))
    BY DEF CountsAreOfTheCompany
  <1>2. IsFiniteSet(Ours(s))
    BY ScrapeAssumption, FS_Subset DEF Ours
  <1>3. \A e \in Ours(s) : /\ result[e].found \in Nat /\ SeenTonight(e) \in Nat
                           /\ SeenTonight(e) >= result[e].found
    BY SeenType DEF Ours, NightsInv, ScrapeTyped, Outcome, WorkersEnd, AllResulted, ReportsAreStored
  <1> QED
    BY <1>1, <1>2, <1>3, SumsAreStored, SumsAreNumbers

\* What a night tells of itself is what it did: when it has ended every source of every company
\* is told of, a success only of one that stored Listings; what a result counts is in the store;
\* a company's count is of all its sources; and search finds what the board shows.
THEOREM NightsAreTold == ScrapeSpec => []NightsAddUp
  <1>1. NightsInv => ReportsAreStored /\ EverySourceIsReported /\ SearchFindsTheBoard
    <2> SUFFICES ASSUME NightsInv PROVE ReportsAreStored /\ EverySourceIsReported
      BY DEF NightsInv
    <2>1. ASSUME NEW e \in Entries PROVE InOrder(e) /\ SeenTonight(e) \in Nat /\ result[e].found \in Nat
      BY SeenType DEF NightsInv, ScrapeTyped, Outcome
    <2>2. ReportsAreStored
      BY <2>1 DEF ReportsAreStored, InOrder, TellsOf
    <2>3. EverySourceIsReported
      BY <2>1 DEF EverySourceIsReported, InOrder, TellsOf, Pooled, Status
    <2> QED
      BY <2>2, <2>3
  <1>2. ScrapeInit => CountsAreOfTheCompany
    BY DEF ScrapeInit, CountsAreOfTheCompany
  <1>3. NightsInv /\ CountsAreOfTheCompany /\ [ScrapeNext]_scrapeVars => CountsAreOfTheCompany'
    BY CountsSteps
  <1>4. NightsInv /\ CountsAreOfTheCompany => NightsAddUp
    BY <1>1, CountsMean DEF NightsAddUp
  <1> QED
    BY <1>2, <1>3, <1>4, NightsInvInit, NightsSteps, PTL DEF ScrapeSpec

\* A store opens what it finds again and closes nothing.
LEMMA StoresCloseNothing ==
    ASSUME NightsInv, NEW e \in Entries, Store(e)
    PROVE  \A x \in Entries, n \in Nights : rows'[x][n].closed <= rows[x][n].closed
  <1>1. PICK again \in Some(e, LAMBDA r : r.open), back \in Some(e, LAMBDA r : r.closed),
             same \in 0..rows[e][night].open :
            rows' = [rows EXCEPT ![e] = [n \in Nights |-> LET r == rows[e][n] IN
                  IF n < night THEN [open |-> r.open - again[n], closed |-> r.closed - back[n]]
                  ELSE IF n = night THEN [r EXCEPT !.open = r.open + reply[e] - same] ELSE r]]
    BY DEF Store
  <1>2. /\ rows \in [Entries -> [Nights -> SeenOn]] /\ night \in Nat
        /\ \A n \in Nights : n \in Nat /\ (n < night => n \in Earlier)
    BY ScrapeAssumption DEF NightsInv, ScrapeTyped, Nights, Earlier
  <1> SUFFICES ASSUME NEW x \in Entries, NEW n \in Nights
               PROVE  rows'[x][n].closed <= rows[x][n].closed
    OBVIOUS
  <1>3. rows[x][n] \in SeenOn /\ rows[x][n].closed \in Nat
    BY <1>2 DEF SeenOn
  <1>4. CASE x # e
    BY <1>1, <1>2, <1>3, <1>4
  <1>5. CASE x = e
    <2>1. rows'[e][n] = IF n < night THEN [open |-> rows[e][n].open - again[n],
                                           closed |-> rows[e][n].closed - back[n]]
                        ELSE IF n = night
                        THEN [rows[e][n] EXCEPT !.open = rows[e][n].open + reply[e] - same]
                        ELSE rows[e][n]
      BY <1>1, <1>2
    <2>2. CASE n < night
      <3>1. back[n] \in Nat
        BY <1>2, <2>2 DEF Some
      <3>2. rows'[e][n].closed = rows[e][n].closed - back[n]
        BY <2>1, <2>2
      <3> QED
        BY <1>3, <1>5, <3>1, <3>2
    <2>3. CASE ~(n < night)
      <3>1. rows'[e][n].closed = rows[e][n].closed
        BY <1>3, <1>5, <2>1, <2>3 DEF SeenOn
      <3> QED
        BY <1>3, <1>5, <3>1
    <2> QED
      BY <2>2, <2>3
  <1> QED
    BY <1>4, <1>5

\* A Listing is closed as gone only by an answer of its own source that has Listings, and
\* only when it was last seen on an earlier night.
THEOREM SourcesCloseTheirOwn == ScrapeSpec => OnlyItsSourceClosesAListing
  <1>1. ASSUME NightsInv, [ScrapeNext]_scrapeVars, NEW e \in Entries, NEW n \in Nights,
               phase \in {"scrape", "retry"}, phase' # "aged",
               rows'[e][n].closed > rows[e][n].closed
        PROVE  stage[e] = "stored" /\ reply[e] > 0 /\ n < night
    <2>1. rows \in [Entries -> [Nights -> SeenOn]] /\ rows[e][n].closed \in Nat /\ reply[e] \in Nat
      BY <1>1 DEF NightsInv, ScrapeTyped, SeenOn
    <2>2. rows' # rows
      BY <1>1, <2>1
    <2>3. \A f \in Entries : ~Store(f)
      <3> SUFFICES ASSUME NEW f \in Entries, Store(f) PROVE FALSE
        OBVIOUS
      <3>1. rows'[e][n].closed <= rows[e][n].closed
        BY <1>1, StoresCloseNothing
      <3>2. rows'[e][n].closed \in Nat
        BY <1>1, StoredIsSeen DEF NightsInv, ScrapeTyped, SeenOn
      <3> QED
        BY <1>1, <2>1, <3>1, <3>2
    <2>4. PICK f \in Entries : CloseUnseen(f)
      <3>1. ~RetireAged
        BY <1>1 DEF RetireAged
      <3>2. ~(UNCHANGED scrapeVars)
        BY <2>2 DEF scrapeVars
      <3>3. ~(StartRun \/ StartRetries \/ FinishCompany \/ RunnerDies \/ \E f \in Entries : Retry(f))
        BY <2>2, <3>1 DEF StartRun, StartRetries, FinishCompany, RebuildIndex, RecordHistory,
                          RecordRuns, RunnerDies, Retry
      <3>4. PICK f \in Entries : CompanyWork(f)
        BY <1>1, <3>2, <3>3 DEF ScrapeNext
      <3> QED
        BY <2>2, <2>3, <3>4 DEF CompanyWork, Fetch, Answer, RaiseInRun, TimeOut, LateEnd, StoreFails
    <2>5. rows'[e] = IF e \in SeenNoMore(f)
                     THEN [m \in Nights |-> IF m < night
                               THEN [open |-> 0, closed |-> rows[e][m].open + rows[e][m].closed]
                               ELSE rows[e][m]]
                     ELSE rows[e]
      BY <2>4 DEF CloseUnseen
    <2>6. rows'[e][n] # rows[e][n]
      BY <1>1, <2>1
    <2>7. e \in SeenNoMore(f) /\ n < night
      BY <2>5, <2>6
    <2>8. e = f /\ reply[e] # 0 /\ stage[e] = "stored"
      BY <2>4, <2>7 DEF SeenNoMore, CloseUnseen
    <2> QED
      BY <2>1, <2>7, <2>8
  <1>2. NightsInv /\ [ScrapeNext]_scrapeVars
          => [\A e \in Entries, n \in Nights :
                  phase \in {"scrape", "retry"} /\ phase' # "aged" /\ rows'[e][n].closed > rows[e][n].closed
                      => stage[e] = "stored" /\ reply[e] > 0 /\ n < night]_scrapeVars
    BY <1>1
  <1> QED
    BY <1>2, NightsInvInit, NightsSteps, PTL DEF ScrapeSpec, OnlyItsSourceClosesAListing

----------------------------------------------------------------------------
(* The figures of a Role.  clamp_salary, stage by stage: what each stage   *)
(* makes of a band that is a month's pay.                                   *)

\* A band that the tables may hold, or none.
Paid(b) == b = NoBand \/ Figures(b)

\* What is found for a coordinate.
CoordinateTyped(c) ==
    /\ {c.known, c.front} \subseteq BOOLEAN /\ (c.ladder = None \/ Ceiling(c.ladder))
    /\ \A b \in {c.row, c.cell, c.envelope} : Paid(b) /\ Low(b) < GlobalMax

\* The ceilings hold that no title lifts.
Bounded(t, b) == High(b) <= GlobalMax /\ (t.intern => High(b) <= InternshipMax)

\* A stage keeps a band payable, keeps its low end and lets nothing over the ceilings.
Keeps(t, b, out) == Payable(out) /\ Bounded(t, out) /\ (Low(b) # None => Low(out) # None)

LEMMA TitlesAreTyped ==
    ASSUME NEW t \in Titles
    PROVE  /\ t.intern \in BOOLEAN /\ t.topGrade \in BOOLEAN
           /\ t.boutique \in BOOLEAN /\ t.smallBank \in BOOLEAN
           /\ t.gradeCap = None \/ Ceiling(t.gradeCap)
           /\ t.productFrom \in Nat
           /\ Paid(t.band) /\ Paid(t.function) /\ Paid(t.floor)
           /\ High(t.floor) <= GlobalMax
           /\ \A w \in t.rules : Figures(w.band)
  BY EstimatesAssumption DEF Paid, High

LEMMA UnderIs ==
    ASSUME NEW x \in Nat, NEW cap \in Nat
    PROVE  /\ Under(x, cap) \in Nat /\ Under(x, cap) <= x
           /\ cap # None => Under(x, cap) <= cap
           /\ x = None => Under(x, cap) = None
           /\ (x >= 6000 /\ (cap = None \/ cap >= 6000)) => Under(x, cap) >= 6000
           /\ (x = None \/ x >= 6000) /\ (cap = None \/ cap >= 6000) =>
                  Under(x, cap) = None \/ Under(x, cap) >= 6000
           /\ (x # None /\ cap # None => Under(x, cap) # None)
  BY DEF Under, MinOf, None

LEMMA CeilingIs ==
    ASSUME NEW cap, cap = None \/ Ceiling(cap)
    PROVE  cap \in Nat /\ (cap = None \/ cap >= 6000)
  BY DEF Ceiling, None

LEMMA Pairs ==
    ASSUME NEW x, NEW y
    PROVE  Low(<<x, y>>) = x /\ High(<<x, y>>) = y
  BY DEF Low, High

LEMMA PayableIs ==
    ASSUME NEW b
    PROVE  Payable(b) <=> /\ b = <<Low(b), High(b)>> /\ Low(b) \in Nat /\ High(b) \in Nat
                          /\ Low(b) = None \/ Low(b) >= 3000
                          /\ High(b) = None \/ High(b) >= 6000
  BY DEF Payable, Low, High

LEMMA PaidIs ==
    ASSUME NEW b, Paid(b)
    PROVE  /\ Payable(b) /\ b = <<Low(b), High(b)>> /\ Low(b) \in Nat /\ High(b) \in Nat
           /\ b # NoBand => Low(b) >= 3000 /\ High(b) >= 6000 /\ Low(b) < High(b)
           /\ b = NoBand <=> Low(b) = None
           /\ b = NoBand => High(b) = None
  BY DEF Paid, Figures, Payable, NoBand, None, Low, High

LEMMA GradeCapIs ==
    ASSUME NEW t \in Titles, NEW c, CoordinateTyped(c)
    PROVE  GradeCap(t, c) = None \/ Ceiling(GradeCap(t, c))
  BY TitlesAreTyped DEF GradeCap, CoordinateTyped

LEMMA CappedKeeps ==
    ASSUME NEW t \in Titles, NEW c, CoordinateTyped(c), NEW b, Payable(b)
    PROVE  Keeps(t, b, Capped(t, c, b))
  <1> DEFINE h1 == Under(High(b), c.ladder)
             h2 == Under(h1, High(c.row))
             h3 == Under(h2, GradeCap(t, c))
             h4 == Under(h3, GlobalMax)
             h5 == IF t.intern THEN Under(h4, InternshipMax) ELSE h4
             Sound(x) == x \in Nat /\ (x = None \/ x >= 6000)
  <1>1. Sound(High(b)) /\ Sound(c.ladder) /\ Sound(High(c.row)) /\ Sound(GradeCap(t, c))
        /\ Sound(GlobalMax) /\ Sound(InternshipMax) /\ GlobalMax # None /\ InternshipMax # None
    <2>1. Sound(High(b))
      BY PayableIs
    <2>2. Sound(c.ladder) /\ Sound(GradeCap(t, c))
      BY CeilingIs, GradeCapIs DEF CoordinateTyped
    <2>3. Sound(High(c.row))
      BY PaidIs DEF CoordinateTyped, None
    <2>4. Sound(GlobalMax) /\ Sound(InternshipMax) /\ GlobalMax # None /\ InternshipMax # None
      BY SalaryAssumption DEF Ceiling, None
    <2> QED
      BY <2>1, <2>2, <2>3, <2>4
  <1>2. ASSUME NEW x, NEW cap, Sound(x), Sound(cap)
        PROVE  Sound(Under(x, cap)) /\ Under(x, cap) <= x /\ (cap # None => Under(x, cap) <= cap)
    BY <1>2 DEF Under, MinOf, None
  <1> HIDE DEF Sound
  <1>3. Sound(h1) /\ Sound(h2) /\ Sound(h3) /\ Sound(h4) /\ h4 <= GlobalMax
    BY <1>1, <1>2
  <1>4. Sound(h5) /\ h5 <= GlobalMax /\ (t.intern => h5 <= InternshipMax)
    <2>1. Sound(Under(h4, InternshipMax)) /\ Under(h4, InternshipMax) <= h4 /\ Under(h4, InternshipMax) <= InternshipMax
      BY <1>1, <1>2, <1>3
    <2> HIDE DEF h4
    <2>2. h4 \in Nat /\ Under(h4, InternshipMax) \in Nat /\ GlobalMax \in Nat
      BY <1>3, <2>1, <1>1 DEF Sound
    <2> QED
      BY <1>3, <2>1, <2>2
  <1>5. Capped(t, c, b) = <<Low(b), h5>>
    BY DEF Capped
  <1> HIDE DEF h1, h2, h3, h4, h5
  <1>6. Payable(Capped(t, c, b))
    BY <1>4, <1>5, PayableIs, Pairs DEF Sound
  <1> QED
    BY <1>4, <1>5, <1>6, Pairs DEF Keeps, Bounded

\* The floor raise: the row's band or a lifted low end, under the ceilings of title and board.
LEMMA RaisedKeeps ==
    ASSUME NEW t \in Titles, NEW c, CoordinateTyped(c), NEW b, Payable(b), Bounded(t, b)
    PROVE  Keeps(t, b, Raised(t, c, b))
  <1>1. CASE t.intern \/ c.row = NoBand
    BY <1>1 DEF Raised, Keeps
  <1>2. CASE ~t.intern /\ c.row # NoBand
    <2> DEFINE lifted == IF High(b) # None /\ High(b) < Low(c.row) THEN c.row
                         ELSE IF Low(b) # None /\ Low(b) < Low(c.row) THEN <<Low(c.row), High(b)>>
                         ELSE b
               g == GradeCap(t, c)
               hi == Under(Under(High(lifted), g), GlobalMax)
    <2>1. Payable(c.row) /\ Low(c.row) >= 3000
      BY <1>2, PaidIs DEF CoordinateTyped
    <2>2. Payable(lifted) /\ (Low(b) # None => Low(lifted) # None)
      BY <2>1, PayableIs, Pairs DEF None
    <2> HIDE DEF lifted
    <2>3. High(lifted) \in Nat /\ (High(lifted) = None \/ High(lifted) >= 6000)
      BY <2>2, PayableIs
    <2>4. g \in Nat /\ (g = None \/ g >= 6000)
      BY GradeCapIs, CeilingIs
    <2>5. GlobalMax \in Nat /\ GlobalMax >= 6000
      BY SalaryAssumption DEF Ceiling
    <2> HIDE DEF g
    <2>6. hi \in Nat /\ (hi = None \/ hi >= 6000) /\ hi <= GlobalMax
      BY <2>3, <2>4, <2>5 DEF Under, MinOf, None
    <2>7. Raised(t, c, b) = <<Low(lifted), hi>>
      BY <1>2 DEF Raised, lifted, g
    <2> HIDE DEF hi
    <2> QED
      BY <1>2, <2>2, <2>6, <2>7, PayableIs, Pairs DEF Keeps, Bounded
  <1>3. t.intern \in BOOLEAN
    BY TitlesAreTyped
  <1> QED
    BY <1>1, <1>2, <1>3

LEMMA FromCoordinateKeeps ==
    ASSUME NEW t \in Titles, NEW c, CoordinateTyped(c), NEW b, Payable(b), Bounded(t, b)
    PROVE  Keeps(t, b, FromCoordinate(t, c, b))
  <1> DEFINE band == IF t.intern THEN NoBand ELSE IF c.cell # NoBand THEN c.cell
                     ELSE IF b = NoBand THEN Partial(c) ELSE NoBand
             g == GradeCap(t, c)
             hi == Under(Under(High(band), g), GlobalMax)
  <1>1. FromCoordinate(t, c, b) = IF band = NoBand THEN b ELSE <<MinOf(Low(band), hi), hi>>
    BY DEF FromCoordinate
  <1>2. Paid(band) /\ (t.intern => band = NoBand)
    BY DEF CoordinateTyped, Partial, Paid
  <1> HIDE DEF band
  <1>3. CASE band = NoBand
    BY <1>1, <1>3 DEF Keeps
  <1>4. CASE band # NoBand
    <2>1. Low(band) \in Nat /\ Low(band) >= 3000 /\ High(band) \in Nat /\ High(band) >= 6000
      BY <1>2, <1>4, PaidIs
    <2>2. g \in Nat /\ (g = None \/ g >= 6000)
      BY GradeCapIs, CeilingIs
    <2>3. GlobalMax \in Nat /\ GlobalMax >= 6000
      BY SalaryAssumption DEF Ceiling
    <2> HIDE DEF g
    <2>4. hi \in Nat /\ hi >= 6000 /\ hi <= GlobalMax /\ MinOf(Low(band), hi) \in Nat /\ MinOf(Low(band), hi) >= 3000
      BY <2>1, <2>2, <2>3 DEF Under, MinOf, None
    <2> HIDE DEF hi
    <2>5. Payable(<<MinOf(Low(band), hi), hi>>)
      BY <2>4, PayableIs, Pairs
    <2> QED
      BY <1>1, <1>2, <1>4, <2>4, <2>5, Pairs DEF Keeps, Bounded, None
  <1> QED
    BY <1>3, <1>4

\* The band of a title, under the ceiling of the board unless the grade may pass it.
LEMMA TitledIsPaid ==
    ASSUME NEW t \in Titles, NEW c, CoordinateTyped(c), NEW raw, TitleBand(t, c, raw) # NoBand
    PROVE  LET b == WithinGlobal(t, TitleBand(t, c, raw))
           IN /\ ~t.intern /\ Payable(b) /\ Low(b) # None /\ High(b) # None
              /\ ~t.topGrade => High(b) <= GlobalMax
  <1> DEFINE band == TitleBand(t, c, raw)
             hi == Under(High(band), GlobalMax)
  <1>1. ~t.intern /\ Paid(band)
    BY TitlesAreTyped DEF TitleBand
  <1>2. WithinGlobal(t, band) = IF t.topGrade THEN band ELSE <<Under(Low(band), hi), hi>>
    BY DEF WithinGlobal
  <1>3. band # NoBand
    OBVIOUS
  <1> HIDE DEF band
  <1>4. Payable(band) /\ Low(band) \in Nat /\ Low(band) >= 3000 /\ High(band) \in Nat /\ High(band) >= 6000
    BY <1>1, <1>3, PaidIs
  <1>5. GlobalMax \in Nat /\ GlobalMax >= 6000
    BY SalaryAssumption DEF Ceiling
  <1>6. /\ hi \in Nat /\ hi >= 6000 /\ hi <= GlobalMax
        /\ Under(Low(band), hi) \in Nat /\ Under(Low(band), hi) >= 3000
    BY <1>4, <1>5 DEF Under, MinOf, None
  <1> HIDE DEF hi
  <1>7. Payable(<<Under(Low(band), hi), hi>>)
    BY <1>6, PayableIs, Pairs
  <1>8. t.topGrade \in BOOLEAN
    BY TitlesAreTyped
  <1>9. /\ Payable(WithinGlobal(t, band)) /\ Low(WithinGlobal(t, band)) # None /\ High(WithinGlobal(t, band)) # None
        /\ ~t.topGrade => High(WithinGlobal(t, band)) <= GlobalMax
    BY <1>2, <1>4, <1>6, <1>7, <1>8, Pairs DEF None
  <1> QED
    BY <1>1, <1>9 DEF band

\* What the discounts leave: less, rounded, and never nothing.
LEMMA SizedIs ==
    ASSUME NEW t \in Titles, NEW b, Payable(b)
    PROVE  LET s == Sized(t, b)
           IN /\ s \in Nat \X Nat /\ (Low(b) # None => Low(s) # None) /\ (High(s) = None \/ High(s) >= 2)
              /\ \A cap \in Nat : cap % 5000 = 0 /\ High(b) <= cap => High(s) <= cap
  <1>1. ASSUME NEW x \in Nat
        PROVE  /\ Tenths(x, 7) \in Nat /\ Tenths(x, 7) <= x /\ (x >= 3000 => Tenths(x, 7) >= 2) /\ Tenths(None, 7) = None
               /\ RoundTo5000((x * 17) \div 20) \in Nat /\ (x >= 3000 => RoundTo5000((x * 17) \div 20) >= 2)
               /\ RoundTo5000((None * 17) \div 20) = None
    BY DEF Tenths, RoundTo5000, None
  <1>2. ASSUME NEW x \in Nat, NEW cap \in Nat, cap % 5000 = 0, x <= cap
        PROVE  RoundTo5000((x * 17) \div 20) <= cap
    BY <1>2 DEF RoundTo5000
  <1>3. /\ Low(b) \in Nat /\ High(b) \in Nat /\ b = <<Low(b), High(b)>>
        /\ Low(b) = None \/ Low(b) >= 3000
        /\ High(b) = None \/ High(b) >= 6000
    BY PayableIs
  <1>4. CASE t.smallBank
    <2> DEFINE lo == RoundTo5000((Low(b) * 17) \div 20)
               hi == RoundTo5000((High(b) * 17) \div 20)
    <2>1. Sized(t, b) = <<lo, hi>>
      BY <1>4 DEF Sized
    <2>2. lo \in Nat /\ (Low(b) # None => lo # None)
      BY <1>1, <1>3 DEF None
    <2>3. hi \in Nat /\ (hi = None \/ hi >= 2)
      BY <1>1, <1>3 DEF None
    <2>4. \A cap \in Nat : cap % 5000 = 0 /\ High(b) <= cap => hi <= cap
      BY <1>2, <1>3
    <2> HIDE DEF lo, hi
    <2> QED
      BY <2>1, <2>2, <2>3, <2>4, Pairs
  <1>5. CASE ~t.smallBank /\ t.boutique
    <2> DEFINE lo == Tenths(Low(b), 7)
               hi == Tenths(High(b), 7)
    <2>1. Sized(t, b) = <<lo, hi>>
      BY <1>5 DEF Sized
    <2>2. lo \in Nat /\ (Low(b) # None => lo # None)
      BY <1>1, <1>3 DEF None
    <2>3. hi \in Nat /\ (hi = None \/ hi >= 2) /\ hi <= High(b)
      BY <1>1, <1>3 DEF None
    <2> HIDE DEF lo, hi
    <2>4. \A cap \in Nat : High(b) <= cap => hi <= cap
      BY <1>3, <2>3
    <2> QED
      BY <2>1, <2>2, <2>3, <2>4, Pairs
  <1>6. CASE ~t.smallBank /\ ~t.boutique
    BY <1>3, <1>6 DEF Sized, None
  <1>7. t.smallBank \in BOOLEAN /\ t.boutique \in BOOLEAN
    BY TitlesAreTyped
  <1> QED
    BY <1>4, <1>5, <1>6, <1>7

\* A range, of two ends or fewer.
IsRange(b) == /\ b \in Nat \X Nat
              /\ Low(b) = None \/ High(b) = None \/ Low(b) < High(b)

LEMMA WidenedIs ==
    ASSUME NEW b \in Nat \X Nat, High(b) = None \/ High(b) >= 2
    PROVE  /\ IsRange(Widened(b)) /\ High(Widened(b)) = High(b)
           /\ Low(b) # None => Low(Widened(b)) # None
           /\ Low(b) < High(b) => Widened(b) = b
  <1>1. b = <<Low(b), High(b)>> /\ Low(b) \in Nat /\ High(b) \in Nat
    BY DEF Low, High
  <1>2. CASE Low(b) # None /\ High(b) # None /\ Low(b) >= High(b)
    <2> DEFINE half == High(b) \div 2
    <2>1. half \in Nat /\ half < High(b) /\ half # None
      BY <1>1, <1>2 DEF None
    <2>2. Widened(b) = <<half, High(b)>>
      BY <1>2 DEF Widened
    <2> HIDE DEF half
    <2> QED
      BY <1>1, <1>2, <2>1, <2>2, Pairs DEF IsRange
  <1>3. CASE ~(Low(b) # None /\ High(b) # None /\ Low(b) >= High(b))
    <2>1. Widened(b) = b
      BY <1>3 DEF Widened
    <2> QED
      BY <1>1, <1>3, <2>1 DEF IsRange
  <1> QED
    BY <1>2, <1>3

\* The rules of a title and the one that wins.
Ruling(t) == Winner(RulesFor(t)) # {}
Ruled(t) == LET w == CHOOSE r \in Winner(RulesFor(t)) : TRUE
                hi == Under(High(w.band), GlobalMax)
            IN Widened(<<Under(Low(w.band), hi), hi>>)

LEMMA RuledIs ==
    ASSUME NEW t \in Titles, Ruling(t)
    PROVE  IsRange(Ruled(t)) /\ Low(Ruled(t)) # None /\ High(Ruled(t)) <= GlobalMax
  <1> DEFINE w == CHOOSE r \in Winner(RulesFor(t)) : TRUE
             hi == Under(High(w.band), GlobalMax)
             lo == Under(Low(w.band), hi)
  <1>1. w \in t.rules
    BY DEF Ruling, Winner, RulesFor
  <1>2. Figures(w.band)
    BY <1>1, TitlesAreTyped
  <1>3. Ruled(t) = Widened(<<lo, hi>>)
    BY DEF Ruled
  <1> HIDE DEF w
  <1>4. Low(w.band) \in Nat /\ Low(w.band) >= 3000 /\ High(w.band) \in Nat /\ High(w.band) >= 6000
    BY <1>2 DEF Figures, Payable, Low, High, None
  <1>5. GlobalMax \in Nat /\ GlobalMax >= 6000
    BY SalaryAssumption DEF Ceiling
  <1>6. hi \in Nat /\ hi >= 6000 /\ hi <= GlobalMax /\ lo \in Nat /\ lo >= 3000
    BY <1>4, <1>5 DEF Under, MinOf, None
  <1> HIDE DEF hi, lo
  <1>7. <<lo, hi>> \in Nat \X Nat /\ hi >= 2
    BY <1>6
  <1> QED
    BY <1>3, <1>6, <1>7, Pairs, WidenedIs DEF None

LEMMA ClampOfARule ==
    ASSUME NEW t \in Titles, NEW c, NEW raw, Ruling(t)
    PROVE  Clamp(t, c, raw) = Ruled(t)
  BY DEF Clamp, Ruling, Ruled

\* What clamp_salary gives without a rule.
Flooring(t, c, raw) ==
    IF TitleBand(t, c, raw) # NoBand \/ t.intern THEN NoBand ELSE IF c.known THEN t.floor ELSE NoBand

Calibrated(t, c, raw) ==
    Sized(t, IF TitleBand(t, c, raw) = NoBand THEN FromCoordinate(t, c, Raised(t, c, Capped(t, c, raw)))
             ELSE WithinGlobal(t, TitleBand(t, c, raw)))

LEMMA ClampOfNoRule ==
    ASSUME NEW t \in Titles, NEW c, NEW raw, ~Ruling(t)
    PROVE  Clamp(t, c, raw) = Widened(WithFloor(Flooring(t, c, raw), Calibrated(t, c, raw)))
  BY DEF Clamp, Ruling, Flooring, Calibrated

LEMMA FlooredIs ==
    ASSUME NEW floor, Paid(floor), High(floor) <= GlobalMax,
           NEW b \in Nat \X Nat, High(b) = None \/ High(b) >= 2
    PROVE  LET f == WithFloor(floor, b)
           IN /\ f \in Nat \X Nat /\ (High(f) = None \/ High(f) >= 2)
              /\ (Low(b) # None => Low(f) # None)
              /\ (High(b) <= GlobalMax => High(f) <= GlobalMax)
              /\ (floor = NoBand => f = b)
  <1>1. b = <<Low(b), High(b)>> /\ Low(b) \in Nat /\ High(b) \in Nat
    BY DEF Low, High
  <1>2. CASE floor = NoBand
    BY <1>2 DEF WithFloor
  <1>3. CASE floor # NoBand
    <2>1. /\ floor = <<Low(floor), High(floor)>> /\ Low(floor) \in Nat /\ High(floor) \in Nat
          /\ Low(floor) >= 3000 /\ High(floor) >= 6000
      BY <1>3, PaidIs
    <2>2. CASE High(b) < Low(floor)
      BY <1>3, <2>1, <2>2 DEF WithFloor, None
    <2>3. CASE ~(High(b) < Low(floor))
      <3> DEFINE lo == IF Low(b) < Low(floor) THEN Low(floor) ELSE Low(b)
      <3>1. WithFloor(floor, b) = <<lo, High(b)>>
        BY <1>3, <2>3 DEF WithFloor
      <3>2. lo \in Nat /\ lo # None
        BY <1>1, <2>1 DEF None
      <3> HIDE DEF lo
      <3> QED
        BY <1>1, <1>3, <3>1, <3>2, Pairs
    <2> QED
      BY <2>2, <2>3
  <1> QED
    BY <1>2, <1>3

\* clamp_salary: a range under the ceilings, and nothing is lost of a band that has a low end.
LEMMA ClampIs ==
    ASSUME NEW t \in Titles, NEW c, CoordinateTyped(c), NEW raw, Payable(raw)
    PROVE  /\ IsRange(Clamp(t, c, raw))
           /\ ~t.topGrade => High(Clamp(t, c, raw)) <= GlobalMax
           /\ t.intern /\ ~Ruling(t) => High(Clamp(t, c, raw)) <= InternshipMax
           /\ Low(raw) # None => Low(Clamp(t, c, raw)) # None
  <1>1. CASE Ruling(t)
    BY <1>1, RuledIs, ClampOfARule
  <1>2. CASE ~Ruling(t)
    <2> DEFINE capped == Capped(t, c, raw)
               raised == Raised(t, c, capped)
               table == FromCoordinate(t, c, raised)
               titled == TitleBand(t, c, raw)
               before == IF titled = NoBand THEN table ELSE WithinGlobal(t, titled)
               floor == Flooring(t, c, raw)
               sized == Calibrated(t, c, raw)
               floored == WithFloor(floor, sized)
    <2>1. Payable(capped) /\ Bounded(t, capped) /\ (Low(raw) # None => Low(capped) # None)
      BY CappedKeeps DEF Keeps
    <2>2. Payable(raised) /\ Bounded(t, raised) /\ (Low(capped) # None => Low(raised) # None)
      <3> HIDE DEF capped
      <3> QED
        BY <2>1, RaisedKeeps DEF Keeps
    <2>3. Payable(table) /\ Bounded(t, table) /\ (Low(raised) # None => Low(table) # None)
      <3> HIDE DEF raised
      <3> QED
        BY <2>2, FromCoordinateKeeps DEF Keeps
    <2>4. /\ Payable(before) /\ (Low(raw) # None => Low(before) # None)
          /\ ~t.topGrade => High(before) <= GlobalMax
          /\ t.intern => High(before) <= InternshipMax
      <3>1. titled # NoBand => /\ ~t.intern /\ Payable(WithinGlobal(t, titled))
                               /\ Low(WithinGlobal(t, titled)) # None
                               /\ ~t.topGrade => High(WithinGlobal(t, titled)) <= GlobalMax
        BY TitledIsPaid
      <3> HIDE DEF table, titled, raised, capped
      <3> QED
        BY <2>1, <2>2, <2>3, <3>1 DEF Bounded
    <2>5. sized = Sized(t, before)
      BY DEF Calibrated
    <2> HIDE DEF before, sized
    <2>6. /\ sized \in Nat \X Nat /\ (Low(raw) # None => Low(sized) # None) /\ (High(sized) = None \/ High(sized) >= 2)
          /\ ~t.topGrade => High(sized) <= GlobalMax
          /\ t.intern => High(sized) <= InternshipMax
      BY <2>4, <2>5, SizedIs, SalaryAssumption DEF Ceiling
    <2>7. Paid(floor) /\ High(floor) <= GlobalMax /\ (t.intern => floor = NoBand)
      <3>1. NoBand = <<0, 0>> /\ High(NoBand) <= GlobalMax /\ Paid(NoBand)
        BY SalaryAssumption DEF NoBand, None, High, Ceiling, Paid
      <3> QED
        BY <3>1, TitlesAreTyped DEF Flooring
    <2> HIDE DEF floor
    <2>8. /\ floored \in Nat \X Nat /\ (Low(raw) # None => Low(floored) # None) /\ (High(floored) = None \/ High(floored) >= 2)
          /\ ~t.topGrade => High(floored) <= GlobalMax
          /\ t.intern => High(floored) <= InternshipMax
      BY <2>6, <2>7, FlooredIs
    <2> HIDE DEF floored
    <2>9. Clamp(t, c, raw) = Widened(floored)
      BY <1>2, ClampOfNoRule DEF floored, floor, sized
    <2> QED
      BY <1>2, <2>8, <2>9, WidenedIs
  <1> QED
    BY <1>1, <1>2

\* The order of a ladder by pay, and a band's place in it.
PaysLess(o, b) == Low(o) < Low(b) \/ (Low(o) = Low(b) /\ High(o) < High(b))
Rank(B, b) == Cardinality({o \in B : PaysLess(o, b)})

LEMMA LastOf ==
    ASSUME NEW B \in SUBSET (Nat \X Nat), IsFiniteSet(B), B # {}
    PROVE  \E x \in B : \A y \in B \ {x} : PaysLess(y, x)
  <1> DEFINE over(x) == {y \in B : PaysLess(x, y)}
  <1>1. \A x \in B : IsFiniteSet(over(x)) /\ Cardinality(over(x)) \in Nat
    BY FS_Subset, FS_CardinalityType
  <1>2. {Cardinality(over(x)) : x \in B} \in SUBSET Nat /\ {Cardinality(over(x)) : x \in B} # {}
    BY <1>1
  <1>3. PICK k \in {Cardinality(over(x)) : x \in B} : \A j \in {Cardinality(over(x)) : x \in B} : k <= j
    <2> HIDE DEF over
    <2> QED
      BY <1>2, LeastOf
  <1>4. PICK x \in B : k = Cardinality(over(x))
    BY <1>3
  <1>5. ASSUME NEW y \in over(x) PROVE FALSE
    <2>1. over(y) \in SUBSET over(x) /\ y \notin over(y) /\ y \in B
      BY <1>5 DEF PaysLess, Low, High
    <2>2. Cardinality(over(y)) <= Cardinality(over(x)) /\ Cardinality(over(y)) # Cardinality(over(x))
      <3>1. over(x) # over(y) /\ IsFiniteSet(over(x))
        BY <1>1, <1>5, <2>1
      <3> HIDE DEF over
      <3> QED
        BY <2>1, <3>1, FS_Subset
    <2>3. Cardinality(over(x)) <= Cardinality(over(y))
      BY <1>3, <1>4, <2>1
    <2> HIDE DEF over
    <2> QED
      BY <1>1, <2>1, <2>2, <2>3
  <1>6. ASSUME NEW y \in B \ {x} PROVE PaysLess(y, x)
    <2>1. ~PaysLess(x, y)
      BY <1>5
    <2>2. x \in Nat \X Nat /\ y \in Nat \X Nat /\ x # y
      OBVIOUS
    <2> QED
      BY <2>1, <2>2 DEF PaysLess, Low, High
  <1> QED
    BY <1>6

\* Every place in the order of a ladder is some band's.
LEMMA RanksAreTaken ==
    ASSUME NEW B \in SUBSET (Nat \X Nat), IsFiniteSet(B), NEW k \in Nat, k < Cardinality(B)
    PROVE  \E b \in B : Rank(B, b) = k
  <1> DEFINE under(b) == {o \in B : PaysLess(o, b)}
             down(D) == D \in SUBSET B /\ \A b \in D : under(b) \in SUBSET D
             Sizes == {Cardinality(D) : D \in {X \in SUBSET B : down(X) /\ Cardinality(X) >= k /\ (X = B \/ \E b \in B : X = under(b))}}
  <1>1. ASSUME NEW D \in SUBSET B PROVE IsFiniteSet(D) /\ Cardinality(D) \in Nat
    BY FS_Subset, FS_CardinalityType
  <1>2. Sizes \in SUBSET Nat /\ Sizes # {}
    <2>1. down(B) /\ Cardinality(B) \in Nat
      BY <1>1
    <2>2. Cardinality(B) \in Sizes
      BY <2>1
    <2> QED
      BY <1>1, <2>2
  <1>3. PICK m \in Sizes : \A j \in Sizes : m <= j
    <2> HIDE DEF Sizes
    <2> QED
      BY <1>2, LeastOf
  <1>4. PICK D \in SUBSET B : /\ down(D) /\ Cardinality(D) >= k /\ m = Cardinality(D)
                              /\ D = B \/ \E b \in B : D = under(b)
    BY <1>3
  <1>5. ASSUME m > k PROVE FALSE
    <2>1. D # {} /\ IsFiniteSet(D) /\ D \in SUBSET (Nat \X Nat)
      BY <1>1, <1>4, <1>5, FS_EmptySet
    <2>2. PICK x \in D : \A y \in D \ {x} : PaysLess(y, x)
      <3> HIDE DEF down, under
      <3> QED
        BY <2>1, LastOf
    <2>3. under(x) = D \ {x}
      <3>1. under(x) \in SUBSET D /\ x \notin under(x)
        BY <1>4, <2>1 DEF PaysLess, Low, High
      <3> QED
        BY <2>2, <3>1
    <2>4. Cardinality(under(x)) = m - 1
      <3>1. Cardinality(D \ {x}) = Cardinality(D) - 1
        BY <2>1, FS_RemoveElement
      <3> QED
        BY <1>4, <2>3, <3>1
    <2>5. down(under(x))
      BY DEF PaysLess, Low, High
    <2>6. m \in Nat
      BY <1>1, <1>4
    <2>7. Cardinality(under(x)) \in Sizes
      <3>1. under(x) \in SUBSET B /\ x \in B
        OBVIOUS
      <3>2. Cardinality(under(x)) >= k
        BY <1>5, <2>4, <2>6
      <3> HIDE DEF under, down
      <3> QED
        BY <2>5, <3>1, <3>2
    <2> HIDE DEF Sizes, under, down
    <2> QED
      BY <1>3, <2>4, <2>6, <2>7
  <1>6. m = k
    <2>1. Cardinality(D) \in Nat
      BY <1>1
    <2> HIDE DEF down, under, Sizes
    <2> QED
      BY <1>4, <1>5, <2>1
  <1>7. D # B
    <2>1. m = Cardinality(D)
      BY <1>4
    <2> QED
      BY <1>6, <2>1
  <1>8. PICK b \in B : D = under(b)
    BY <1>4, <1>7
  <1> QED
    BY <1>4, <1>6, <1>8 DEF Rank

LEMMA LaddersAreTyped ==
    ASSUME NEW role
    PROVE  /\ IsFiniteSet(Ladder(role)) /\ Ladder(role) \in SUBSET (Nat \X Nat)
           /\ \A b \in Ladder(role) : Figures(b) /\ Low(b) < GlobalMax
  <1>1. CASE role \notin DOMAIN Table
    BY <1>1, FS_EmptySet DEF Ladder
  <1>2. CASE role \in DOMAIN Table
    <2>1. Ladder(role) = {Table[role][g] : g \in DOMAIN Table[role]}
      BY <1>2 DEF Ladder
    <2>2. IsFiniteSet(DOMAIN Table[role])
      BY <1>2, SalaryAssumption
    <2>3. IsFiniteSet({Table[role][g] : g \in DOMAIN Table[role]})
      <3> DEFINE f == [g \in DOMAIN Table[role] |-> Table[role][g]]
      <3>1. f \in Surjection(DOMAIN Table[role], {Table[role][g] : g \in DOMAIN Table[role]})
        BY DEF Surjection
      <3> QED
        BY <2>2, <3>1, FS_Surjection
    <2>4. \A b \in Ladder(role) : Figures(b) /\ Low(b) < GlobalMax
      BY <1>2, <2>1, SalaryAssumption DEF Low
    <2> QED
      BY <2>1, <2>3, <2>4 DEF Figures, Payable
  <1> QED
    BY <1>1, <1>2

LEMMA StartsInTheLadder ==
    ASSUME NEW w \in 0..99, NEW n \in Nat, n > 0
    PROVE  (w * n) \div 100 \in Nat /\ (w * n) \div 100 < n
  <1>1. w * n \in Nat /\ w * n <= 99 * n
    BY Z3
  <1> QED
    BY <1>1

\* The most of some numbers.
LEMMA MostOf ==
    ASSUME NEW S \in SUBSET Nat, IsFiniteSet(S), S # {}
    PROVE  \E x \in S : \A y \in S : x >= y
  <1> DEFINE over(x) == {y \in S : y > x}
  <1>1. \A x \in S : IsFiniteSet(over(x)) /\ Cardinality(over(x)) \in Nat
    BY FS_Subset, FS_CardinalityType
  <1>2. {Cardinality(over(x)) : x \in S} \in SUBSET Nat /\ {Cardinality(over(x)) : x \in S} # {}
    BY <1>1
  <1>3. PICK k \in {Cardinality(over(x)) : x \in S} : \A j \in {Cardinality(over(x)) : x \in S} : k <= j
    <2> HIDE DEF over
    <2> QED
      BY <1>2, LeastOf
  <1>4. PICK x \in S : k = Cardinality(over(x))
    BY <1>3
  <1>5. ASSUME NEW y \in over(x) PROVE FALSE
    <2>1. over(y) \in SUBSET over(x) /\ y \notin over(y) /\ y \in S
      <3>1. y \in S /\ y > x
        BY <1>5
      <3>2. \A z \in S : (z > y => z > x) /\ ~(y > y)
        BY <3>1
      <3> QED
        BY <3>1, <3>2, Zenon
    <2>2. Cardinality(over(y)) <= Cardinality(over(x)) /\ Cardinality(over(y)) # Cardinality(over(x))
      <3>1. over(x) # over(y) /\ IsFiniteSet(over(x))
        BY <1>1, <1>5, <2>1
      <3> HIDE DEF over
      <3> QED
        BY <2>1, <3>1, FS_Subset
    <2>3. Cardinality(over(x)) <= Cardinality(over(y))
      BY <1>3, <1>4, <2>1
    <2> HIDE DEF over
    <2> QED
      BY <1>1, <2>1, <2>2, <2>3
  <1>6. \A y \in S : x >= y
    BY <1>5
  <1> QED
    BY <1>6

\* price_from_role_envelope: the part of a ladder a seniority sits in is never empty, so
\* what it gives is a band of figures.
LEMMA EnvelopeIsPaid ==
    ASSUME NEW role, NEW seniority
    PROVE  Paid(Envelope(role, seniority)) /\ Low(Envelope(role, seniority)) < GlobalMax
  <1> DEFINE bands == Ladder(role)
             n == Cardinality(bands)
             before(b) == Cardinality({o \in bands : Low(o) < Low(b) \/ (Low(o) = Low(b) /\ High(o) < High(b))})
             windowed == seniority \in DOMAIN Window /\ n > 1
             start == IF windowed THEN (Window[seniority][1] * n) \div 100 ELSE 0
             upTo == IF windowed THEN (Window[seniority][2] * n + 99) \div 100 ELSE n
             slice == {b \in bands : before(b) >= start /\ (before(b) < upTo \/ before(b) = start)}
             lo == CHOOSE x \in {Low(b) : b \in slice} : \A b \in slice : x <= Low(b)
             hi == CHOOSE x \in {High(b) : b \in slice} : \A b \in slice : x >= High(b)
  <1>1. Envelope(role, seniority) = IF bands = {} THEN NoBand ELSE IF hi > 3 * lo THEN NoBand ELSE <<lo, hi>>
    BY DEF Envelope
  <1>2. Paid(NoBand) /\ Low(NoBand) < GlobalMax
    BY SalaryAssumption DEF Paid, NoBand, Low, None, Ceiling
  <1>3. ASSUME bands # {} PROVE Paid(<<lo, hi>>) /\ lo < GlobalMax
    <2>1. /\ IsFiniteSet(bands) /\ bands \in SUBSET (Nat \X Nat)
          /\ \A b \in bands : Figures(b) /\ Low(b) < GlobalMax
      BY LaddersAreTyped
    <2> HIDE DEF bands
    <2>2. n \in Nat /\ n > 0
      BY <1>3, <2>1, FS_CardinalityType, FS_EmptySet
    <2>3. start \in Nat /\ start < n
      BY <2>2, StartsInTheLadder, SalaryAssumption
    <2>4. \A b : before(b) = Rank(bands, b)
      BY DEF Rank, PaysLess
    <2>5. PICK b \in bands : before(b) = start
      <3> HIDE DEF start, before
      <3> QED
        BY <2>1, <2>3, <2>4, RanksAreTaken
    <2>6. slice # {} /\ slice \in SUBSET bands
      <3>1. before(b) >= start
        BY <2>3, <2>5
      <3> HIDE DEF before, start, upTo
      <3> QED
        BY <2>5, <3>1
    <2> HIDE DEF slice
    <2>7. \A x \in slice : /\ Low(x) \in Nat /\ High(x) \in Nat /\ Low(x) >= 3000 /\ High(x) >= 6000
                           /\ Low(x) < High(x) /\ Low(x) < GlobalMax
      BY <2>1, <2>6 DEF Figures, Payable, Low, High, None
    <2>8. lo \in {Low(x) : x \in slice} /\ \A x \in slice : lo <= Low(x)
      <3> DEFINE ends == {Low(x) : x \in slice}
      <3>1. ends \in SUBSET Nat /\ ends # {}
        BY <2>6, <2>7
      <3>2. \E y \in ends : \A z \in ends : y <= z
        <4> HIDE DEF ends
        <4> QED
          BY <3>1, LeastOf
      <3>3. \E y \in ends : \A x \in slice : y <= Low(x)
        BY <3>2
      <3> QED
        BY <3>3
    <2>9. hi \in {High(x) : x \in slice} /\ \A x \in slice : hi >= High(x)
      <3> DEFINE ends == {High(x) : x \in slice}
      <3>1. ends \in SUBSET Nat /\ ends # {}
        BY <2>6, <2>7
      <3>2. IsFiniteSet(ends)
        <4> DEFINE f == [x \in slice |-> High(x)]
        <4>1. IsFiniteSet(slice)
          BY <2>1, <2>6, FS_Subset
        <4>2. f \in Surjection(slice, ends)
          BY DEF Surjection
        <4> QED
          BY <4>1, <4>2, FS_Surjection
      <3>3. \E y \in ends : \A z \in ends : y >= z
        <4> HIDE DEF ends
        <4> QED
          BY <3>1, <3>2, MostOf
      <3>4. \E y \in ends : \A x \in slice : y >= High(x)
        BY <3>3
      <3> QED
        BY <3>4
    <2> HIDE DEF lo, hi
    <2>10. /\ lo \in Nat /\ hi \in Nat /\ lo >= 3000 /\ hi >= 6000 /\ lo < hi /\ lo < GlobalMax
      <3>1. PICK x \in slice : lo = Low(x)
        BY <2>8
      <3>2. PICK y \in slice : hi = High(y)
        BY <2>9
      <3>3. High(x) <= hi
        BY <2>9
      <3> QED
        BY <2>7, <3>1, <3>2, <3>3
    <2> QED
      BY <2>10 DEF Paid, Figures, Payable
  <1> HIDE DEF bands, lo, hi
  <1> QED
    BY <1>1, <1>2, <1>3, Pairs

LEMMA CellsArePaid ==
    ASSUME NEW role, NEW grade
    PROVE  Paid(CellOf(role, grade)) /\ Low(CellOf(role, grade)) < GlobalMax
  <1>1. Paid(NoBand) /\ Low(NoBand) < GlobalMax
    BY SalaryAssumption DEF Paid, NoBand, Low, None, Ceiling
  <1> QED
    BY <1>1, SalaryAssumption DEF CellOf, Paid, Low

\* What a coordinate finds is figures of the tables, whatever the model answered.
LEMMA FoundIsTyped ==
    ASSUME NEW a
    PROVE  CoordinateTyped(Found(a))
  <1>1. Paid(MappedRow(a.role, a.seniority)) /\ Low(MappedRow(a.role, a.seniority)) < GlobalMax
    <2>1. Paid(NoBand) /\ Low(NoBand) < GlobalMax
      BY SalaryAssumption DEF Paid, NoBand, Low, None, Ceiling
    <2> QED
      BY <2>1, CellsArePaid DEF MappedRow
  <1>2. Paid(CellOf(a.role, a.grade)) /\ Low(CellOf(a.role, a.grade)) < GlobalMax
    BY CellsArePaid
  <1>3. Paid(Envelope(a.role, a.seniority)) /\ Low(Envelope(a.role, a.seniority)) < GlobalMax
    BY EnvelopeIsPaid
  <1>4. Found(a).ladder = None \/ Ceiling(Found(a).ladder)
    BY SalaryAssumption DEF Found
  <1>5. /\ Found(a).known \in BOOLEAN /\ Found(a).front \in BOOLEAN
        /\ Found(a).row = MappedRow(a.role, a.seniority) /\ Found(a).cell = CellOf(a.role, a.grade)
        /\ Found(a).envelope = Envelope(a.role, a.seniority)
    BY DEF Found
  <1> QED
    BY <1>1, <1>2, <1>3, <1>4, <1>5 DEF CoordinateTyped

----------------------------------------------------------------------------
(* The rows and their writers.                                             *)

Words == {a.role : a \in ModelAnswers} \cup {a.grade : a \in ModelAnswers} \cup {a.seniority : a \in ModelAnswers}
         \cup DOMAIN Table \cup {"none"}

Coordinates == [role: Words, grade: Words, seniority: Words]
SalaryRows == [there: BOOLEAN, band: Nat \X Nat, at: Coordinates, sure: BOOLEAN, stated: BOOLEAN,
               byHand: BOOLEAN, own: Nat \X Nat]

\* What a row's figure is, under the title of its Role.
RowSound(t, x) ==
    /\ x \in SalaryRows
    /\ ~x.there => x.band = NoBand
    /\ x.byHand \/ IsRange(x.band)
    /\ t.intern /\ RulesFor(t) = {} /\ ~x.byHand => High(x.band) <= InternshipMax
    /\ High(x.band) > GlobalMax => t.topGrade \/ x.byHand
    /\ x.own # NoBand => /\ Found(x.at).cell = x.own
                         /\ t = Unremarkable => x.band = <<Low(x.own), Under(High(x.own), GlobalMax)>>

EstimatesInv ==
    /\ title \in [Priced -> Titles] /\ row \in [Priced -> SalaryRows]
    /\ last \in [by: {"nobody", "enrichment", "audit", "internships", "ceilings", "replay", "admin"}, roles: SUBSET Priced]
    /\ \A r \in Priced : RowSound(title[r], row[r])
    /\ RepairedOnceIsRepaired

LEMMA NoRulesNoRuling ==
    ASSUME NEW t, RulesFor(t) = {}
    PROVE  ~Ruling(t)
  BY DEF Ruling, Winner

LEMMA AnswersAreNormalised ==
    ASSUME NEW answer \in ModelAnswers
    PROVE  Normalise(answer) \in Coordinates
  <1>1. answer = [role |-> answer.role, grade |-> answer.grade, seniority |-> answer.seniority]
    BY EstimatesAssumption
  <1>2. answer.role \in Words /\ answer.grade \in Words /\ answer.seniority \in Words /\ "none" \in Words
    BY DEF Words
  <1>3. answer \in Coordinates
    BY <1>1, <1>2 DEF Coordinates
  <1> DEFINE owners == {r \in DOMAIN Table : answer.role \in DOMAIN Table[r]}
  <1>4. owners # {} => (CHOOSE r \in owners : TRUE) \in Words
    BY DEF Words
  <1>5. \A x \in Words : [answer EXCEPT !.role = x, !.grade = answer.role] \in Coordinates
    BY <1>2, <1>3 DEF Coordinates
  <1>6. [answer EXCEPT !.role = answer.grade, !.grade = "none"] \in Coordinates
    BY <1>2, <1>3 DEF Coordinates
  <1> QED
    BY <1>3, <1>4, <1>5, <1>6 DEF Normalise

\* A figure is repaired before it is clamped, and so is half of it.
LEMMA RawsArePayable ==
    ASSUME NEW b \in Raws
    PROVE  /\ Payable(FixMagnitude(b))
           /\ High(FixMagnitude(b)) # None => Payable(<<High(FixMagnitude(b)) \div 2, High(FixMagnitude(b))>>)
  <1>1. Payable(FixMagnitude(b))
    BY EstimatesAssumption
  <1>2. High(FixMagnitude(b)) \in Nat /\ (High(FixMagnitude(b)) = None \/ High(FixMagnitude(b)) >= 6000)
    BY <1>1, PayableIs
  <1> DEFINE h == High(FixMagnitude(b))
  <1> HIDE DEF h
  <1>3. h \in Nat /\ (h = None \/ h >= 6000) /\ (h # None => h \div 2 \in Nat /\ h \div 2 >= 3000)
    BY <1>2 DEF h
  <1>4. h # None => Payable(<<h \div 2, h>>)
    BY <1>3, PayableIs, Pairs
  <1> QED
    BY <1>1, <1>4 DEF h

\* An exact cell is what is stored where nothing else matches.
LEMMA CellsAreStored ==
    ASSUME NEW a, NEW raw, Found(a).cell # NoBand, Unremarkable \in Titles
    PROVE  LET cell == Found(a).cell
           IN Clamp(Unremarkable, Found(a), raw) = <<Low(cell), Under(High(cell), GlobalMax)>>
  <1> DEFINE t == Unremarkable
             c == Found(a)
             hi == Under(High(c.cell), GlobalMax)
             b == Raised(t, c, Capped(t, c, raw))
  <1>1. /\ t.intern = FALSE /\ t.gradeCap = None /\ t.band = NoBand /\ t.productFrom = None
        /\ t.function = NoBand /\ t.boutique = FALSE /\ t.smallBank = FALSE /\ t.rules = {} /\ t.floor = NoBand
    BY DEF Unremarkable
  <1> HIDE DEF t
  <1>2. /\ Low(c.cell) \in Nat /\ Low(c.cell) >= 3000 /\ High(c.cell) \in Nat /\ Low(c.cell) < High(c.cell)
        /\ Low(c.cell) < GlobalMax /\ GlobalMax \in Nat
    BY FoundIsTyped, PaidIs, SalaryAssumption DEF CoordinateTyped, Ceiling
  <1> HIDE DEF c
  <1>3. hi \in Nat /\ Low(c.cell) < hi /\ hi >= 2 /\ MinOf(Low(c.cell), hi) = Low(c.cell)
    BY <1>2 DEF Under, MinOf, None
  <1>4. FromCoordinate(t, c, b) = <<MinOf(Low(c.cell), hi), hi>>
    <2>1. c.cell # NoBand
      BY DEF c
    <2>2. GradeCap(t, c) = None
      BY <1>1 DEF GradeCap
    <2>3. Under(High(c.cell), None) = High(c.cell)
      BY DEF Under
    <2> HIDE DEF b
    <2> QED
      BY <1>1, <2>1, <2>2, <2>3 DEF FromCoordinate
  <1>5. TitleBand(t, c, raw) = NoBand
    BY <1>1 DEF TitleBand
  <1>6. ~Ruling(t) /\ Flooring(t, c, raw) = NoBand
    BY <1>1, <1>5, NoRulesNoRuling DEF RulesFor, Flooring
  <1>7. Calibrated(t, c, raw) = <<Low(c.cell), hi>>
    BY <1>1, <1>3, <1>4, <1>5 DEF Calibrated, Sized
  <1>8. WithFloor(NoBand, <<Low(c.cell), hi>>) = <<Low(c.cell), hi>>
    BY DEF WithFloor
  <1>9. Widened(<<Low(c.cell), hi>>) = <<Low(c.cell), hi>>
    <2>1. Low(<<Low(c.cell), hi>>) < High(<<Low(c.cell), hi>>) /\ High(<<Low(c.cell), hi>>) >= 2
      BY <1>3, Pairs
    <2>2. <<Low(c.cell), hi>> \in Nat \X Nat
      BY <1>2, <1>3
    <2> HIDE DEF hi
    <2> QED
      BY <2>1, <2>2, WidenedIs
  <1>10. Clamp(t, c, raw) = <<Low(c.cell), hi>>
    <2>1. t \in Titles
      BY DEF t
    <2> HIDE DEF hi
    <2> QED
      BY <1>6, <1>7, <1>8, <1>9, <2>1, ClampOfNoRule
  <1> QED
    BY <1>10 DEF t, c

\* An enrichment's upsert.
LEMMA UpsertIsSound ==
    ASSUME NEW t \in Titles, NEW old, RowSound(t, old), ~old.byHand,
           NEW answer \in ModelAnswers, NEW raw \in Raws, NEW sure \in BOOLEAN, NEW stated \in BOOLEAN
    PROVE  LET a == Normalise(answer)
               new == Upserted(old, Finalise(t, Found(a), raw), a, sure, stated)
           IN RowSound(t, new) /\ (Low(old.band) # None => Low(new.band) # None)
  <1> DEFINE a == Normalise(answer)
             band == Finalise(t, Found(a), raw)
             new == Upserted(old, band, a, sure, stated)
             kept == old.there /\ Low(band) = None
  <1>1. a \in Coordinates
    BY AnswersAreNormalised
  <1> HIDE DEF a
  <1>2. CoordinateTyped(Found(a))
    BY FoundIsTyped
  <1>3. /\ IsRange(band) /\ (~t.topGrade => High(band) <= GlobalMax)
        /\ t.intern /\ RulesFor(t) = {} => High(band) <= InternshipMax
    <2>1. IsRange(NoBand) /\ High(NoBand) <= GlobalMax /\ High(NoBand) <= InternshipMax
      BY SalaryAssumption DEF IsRange, NoBand, None, High, Low, Ceiling
    <2>2. Payable(FixMagnitude(raw))
      BY RawsArePayable
    <2>3. /\ IsRange(Clamp(t, Found(a), FixMagnitude(raw)))
          /\ ~t.topGrade => High(Clamp(t, Found(a), FixMagnitude(raw))) <= GlobalMax
          /\ t.intern /\ RulesFor(t) = {} => High(Clamp(t, Found(a), FixMagnitude(raw))) <= InternshipMax
      BY <1>2, <2>2, ClampIs, NoRulesNoRuling
    <2> QED
      BY <2>1, <2>3 DEF Finalise
  <1>4. Found(a).cell \in Nat \X Nat
    BY <1>2 DEF CoordinateTyped, Paid, Figures, Payable, NoBand, None
  <1>5. t = Unremarkable /\ Found(a).cell # NoBand =>
            band = <<Low(Found(a).cell), Under(High(Found(a).cell), GlobalMax)>>
    BY CellsAreStored DEF Finalise
  <1>6. old \in SalaryRows /\ band \in Nat \X Nat
    BY <1>3 DEF RowSound, IsRange
  <1> HIDE DEF band
  <1>7. CASE kept
    <2> DEFINE at == [old.at EXCEPT !.seniority = a.seniority]
    <2>1. new = [there |-> TRUE, stated |-> stated, byHand |-> FALSE, own |-> old.own, band |-> old.band,
                 at |-> at, sure |-> old.sure]
      BY <1>7 DEF Upserted
    <2>2. at \in Coordinates /\ Found(at).cell = Found(old.at).cell
      <3>1. old.at \in Coordinates
        BY <1>6 DEF SalaryRows
      <3>2. at \in Coordinates /\ at.role = old.at.role /\ at.grade = old.at.grade
        BY <1>1, <3>1 DEF Coordinates
      <3> HIDE DEF at
      <3> QED
        BY <3>2 DEF Found
    <2> HIDE DEF at
    <2>3. new \in SalaryRows
      BY <1>6, <2>1, <2>2 DEF SalaryRows
    <2> QED
      BY <1>6, <2>1, <2>2, <2>3 DEF RowSound, a, band
  <1>8. CASE ~kept
    <2>1. new = [there |-> TRUE, stated |-> stated, byHand |-> FALSE, own |-> Found(a).cell, band |-> band,
                 at |-> a, sure |-> sure]
      BY <1>8 DEF Upserted
    <2>2. new \in SalaryRows
      BY <1>1, <1>4, <1>6, <2>1 DEF SalaryRows
    <2>3. Low(old.band) # None => Low(band) # None
      BY <1>8 DEF RowSound, NoBand, Low
    <2>4. High(band) \in Nat /\ GlobalMax \in Nat /\ t.topGrade \in BOOLEAN
      BY <1>6, SalaryAssumption, TitlesAreTyped DEF High, Ceiling
    <2>5. High(band) > GlobalMax => t.topGrade
      BY <1>3, <2>4
    <2> QED
      BY <1>3, <1>5, <2>1, <2>2, <2>3, <2>5 DEF RowSound, a, band
  <1> QED
    BY <1>7, <1>8

\* The audit's lower figure.
LEMMA AuditIsSound ==
    ASSUME NEW t \in Titles, NEW old, RowSound(t, old), ~old.byHand, NEW proposed \in Raws,
           NEW band, band = Lowered(t, Found(old.at), proposed, old.band), band # NoBand
    PROVE  /\ RowSound(t, [old EXCEPT !.band = band, !.own = NoBand])
           /\ Low(band) # None
  <1> DEFINE fixed == FixMagnitude(proposed)
             whole == IF Low(fixed) = None THEN <<High(fixed) \div 2, High(fixed)>> ELSE fixed
             new == [old EXCEPT !.band = band, !.own = NoBand]
  <1>1. band = Clamp(t, Found(old.at), whole) /\ High(fixed) # None /\ ~(High(fixed) >= High(old.band))
    BY DEF Lowered
  <1>2. Payable(whole) /\ Low(whole) # None /\ High(fixed) \in Nat
    <2>1. Payable(fixed) /\ (High(fixed) # None => Payable(<<High(fixed) \div 2, High(fixed)>>))
      BY RawsArePayable
    <2>2. High(fixed) \div 2 # None
      BY <1>1, <2>1, PayableIs DEF None
    <2> HIDE DEF fixed
    <2>3. High(fixed) \in Nat
      BY <2>1, PayableIs
    <2> QED
      BY <1>1, <2>1, <2>2, <2>3, Pairs
  <1> HIDE DEF whole, fixed
  <1>3. /\ IsRange(band) /\ (~t.topGrade => High(band) <= GlobalMax)
        /\ t.intern /\ RulesFor(t) = {} => High(band) <= InternshipMax
        /\ Low(band) # None
    BY <1>1, <1>2, ClampIs, NoRulesNoRuling, FoundIsTyped
  <1>4. old \in SalaryRows /\ band \in Nat \X Nat /\ NoBand \in Nat \X Nat
    BY <1>3 DEF RowSound, IsRange, NoBand, None
  <1>5. High(band) \in Nat /\ GlobalMax \in Nat /\ t.topGrade \in BOOLEAN
    BY <1>4, SalaryAssumption, TitlesAreTyped DEF High, Ceiling
  <1>6. /\ new \in SalaryRows /\ new.band = band /\ new.own = NoBand /\ new.there = old.there
        /\ new.byHand = old.byHand
    BY <1>4 DEF SalaryRows
  <1>7. old.there \/ old.band = NoBand
    BY DEF RowSound
  <1>8. old.band # NoBand
    \* No proposal is below a figure that is not there.
    <2>1. High(NoBand) = 0
      BY DEF NoBand, High, None
    <2> QED
      BY <1>1, <1>2, <2>1
  <1> HIDE DEF new
  <1>9. RowSound(t, new)
    BY <1>3, <1>5, <1>6, <1>7, <1>8 DEF RowSound
  <1> QED
    BY <1>3, <1>9 DEF new

\* An admin's figure: the row is the admin's from then on.
LEMMA HandEditIsSound ==
    ASSUME NEW t \in Titles, NEW old, RowSound(t, old), old.there, NEW b \in Raws
    PROVE  RowSound(t, [old EXCEPT !.band = b, !.byHand = TRUE, !.own = NoBand])
  <1> DEFINE new == [old EXCEPT !.band = b, !.byHand = TRUE, !.own = NoBand]
  <1>1. old \in SalaryRows /\ b \in Nat \X Nat /\ NoBand \in Nat \X Nat
    BY EstimatesAssumption DEF RowSound, NoBand, None
  <1>2. /\ new \in SalaryRows /\ new.own = NoBand /\ new.there /\ new.byHand
    BY <1>1 DEF SalaryRows
  <1> HIDE DEF new
  <1>3. RowSound(t, new)
    BY <1>2 DEF RowSound
  <1> QED
    BY <1>3 DEF new

\* A repair lowers what is over its ceiling and leaves a range.
LEMMA CutIs ==
    ASSUME NEW b \in Nat \X Nat, NEW cap, Ceiling(cap), CutTo(b, cap) # b
    PROVE  /\ IsRange(CutTo(b, cap)) /\ High(CutTo(b, cap)) = cap /\ cap < High(b)
           /\ Low(b) # None => Low(CutTo(b, cap)) <= Low(b) /\ Low(CutTo(b, cap)) # None
  <1> DEFINE lo == IF Low(b) = None \/ Low(b) >= cap THEN cap \div 2 ELSE Low(b)
  <1>1. CutTo(b, cap) = <<lo, cap>> /\ ~(High(b) <= cap)
    BY DEF CutTo
  <1>2. Low(b) \in Nat /\ High(b) \in Nat /\ cap \in Nat /\ cap >= 6000
    BY DEF Low, High, Ceiling
  <1>3. lo \in Nat /\ lo < cap /\ lo # None /\ (Low(b) # None => lo <= Low(b))
    BY <1>2 DEF None
  <1> HIDE DEF lo
  <1> QED
    BY <1>1, <1>2, <1>3, Pairs DEF IsRange

LEMMA CutIsSound ==
    ASSUME NEW t \in Titles, NEW old, RowSound(t, old), NEW cap, Ceiling(cap), CutTo(old.band, cap) # old.band
    PROVE  RowSound(t, [old EXCEPT !.band = CutTo(old.band, cap), !.own = NoBand])
  <1> DEFINE band == CutTo(old.band, cap)
             new == [old EXCEPT !.band = band, !.own = NoBand]
  <1>1. old \in SalaryRows /\ old.band \in Nat \X Nat /\ NoBand \in Nat \X Nat
    BY DEF RowSound, SalaryRows, NoBand, None
  <1>2. IsRange(band) /\ High(band) = cap /\ cap < High(old.band)
    BY <1>1, CutIs
  <1> HIDE DEF band
  <1>3. /\ new \in SalaryRows /\ new.band = band /\ new.own = NoBand /\ new.there = old.there
        /\ new.byHand = old.byHand
    BY <1>1, <1>2 DEF SalaryRows, IsRange
  <1>4. old.there
    BY <1>2 DEF RowSound, NoBand, High, None, Ceiling
  <1>5. /\ High(old.band) \in Nat /\ High(band) \in Nat /\ GlobalMax \in Nat /\ InternshipMax \in Nat
        /\ High(band) < High(old.band)
    BY <1>1, <1>2, SalaryAssumption DEF High, Ceiling
  <1> HIDE DEF new
  <1>6. RowSound(t, new)
    BY <1>2, <1>3, <1>4, <1>5 DEF RowSound
  <1> QED
    BY <1>6 DEF new, band

\* A replay's figure is the rule's, whatever was stored.
LEMMA ReplayIsSound ==
    ASSUME NEW t \in Titles, NEW old, RowSound(t, old), old.there, Ruling(t)
    PROVE  RowSound(t, [old EXCEPT !.band = Ruled(t), !.own = NoBand])
  <1> DEFINE new == [old EXCEPT !.band = Ruled(t), !.own = NoBand]
  <1>1. old \in SalaryRows /\ NoBand \in Nat \X Nat
    BY DEF RowSound, NoBand, None
  <1>2. IsRange(Ruled(t)) /\ High(Ruled(t)) <= GlobalMax
    BY RuledIs
  <1>3. /\ new \in SalaryRows /\ new.band = Ruled(t) /\ new.own = NoBand /\ new.there
    BY <1>1, <1>2 DEF SalaryRows, IsRange
  <1>4. High(Ruled(t)) \in Nat /\ GlobalMax \in Nat
    BY <1>2, SalaryAssumption DEF IsRange, High, Ceiling
  <1>5. RulesFor(t) # {}
    BY NoRulesNoRuling
  <1> HIDE DEF new
  <1>6. RowSound(t, new)
    BY <1>2, <1>3, <1>4, <1>5 DEF RowSound
  <1> QED
    BY <1>6 DEF new

\* What a step may do to a stored figure, whoever takes it.
FigureKept(old, new) == Low(old.band) # None => new.byHand \/ Low(new.band) # None
RowLowered(by, old, new) ==
    /\ by \in {"internships", "ceilings", "replay"} => ~old.byHand /\ ~old.stated /\ ~old.sure
    /\ by \in {"internships", "ceilings"} =>
           /\ High(new.band) < High(old.band)
           /\ Low(old.band) # None => Low(new.band) <= Low(old.band)

FiguresStep ==
    /\ \A r \in Priced : FigureKept(row[r], row'[r])
    /\ \A r \in last'.roles : RowLowered(last'.by, row[r], row'[r])

\* A writer of one row.
LEMMA OneRowIsWritten ==
    ASSUME EstimatesInv, NEW r \in Priced, NEW new, RowSound(title[r], new), FigureKept(row[r], new),
           NEW who \in {"enrichment", "audit", "admin"},
           row' = [row EXCEPT ![r] = new], Wrote(who, {r}), title' = title
    PROVE  EstimatesInv' /\ FiguresStep
  <1>1. last' = [by |-> who, roles |-> {r}] /\ row \in [Priced -> SalaryRows] /\ new \in SalaryRows
    BY DEF Wrote, EstimatesInv, RowSound
  <1>2. row' \in [Priced -> SalaryRows] /\ row'[r] = new /\ \A q \in Priced \ {r} : row'[q] = row[q]
    BY <1>1
  <1>3. \A q \in Priced : RowSound(title[q], row'[q]) /\ FigureKept(row[q], row'[q])
    BY <1>2 DEF EstimatesInv, FigureKept
  <1>4. RepairedOnceIsRepaired' /\ \A q \in last'.roles : RowLowered(last'.by, row[q], row'[q])
    BY <1>1 DEF RepairedOnceIsRepaired, RowLowered
  <1>5. last' \in [by: {"nobody", "enrichment", "audit", "internships", "ceilings", "replay", "admin"}, roles: SUBSET Priced]
    BY <1>1
  <1>6. \A q \in Priced : RowSound(title[q], row[q])'
    BY <1>3 DEF RowSound
  <1> QED
    BY <1>2, <1>3, <1>4, <1>5, <1>6 DEF EstimatesInv, FiguresStep

\* What a repair or a replay may write over the figure of a Role.
MayRewrite(who, r, band) ==
    LET new == [row[r] EXCEPT !.band = band, !.own = NoBand]
    IN /\ RowSound(title[r], new) /\ FigureKept(row[r], new) /\ RowLowered(who, row[r], new)
       /\ who = "internships" => High(band) <= InternshipMax
       /\ who = "ceilings" => High(band) <= title[r].gradeCap
       /\ who = "replay" => Ruling(title[r]) /\ band = Ruled(title[r])

\* A writer of many rows: `bands` is what it writes.
LEMMA ManyRowsAreWritten ==
    ASSUME EstimatesInv, NEW roles \in SUBSET Priced, NEW who \in {"internships", "ceilings", "replay"}, NEW bands,
           row' = [q \in Priced |-> IF q \in roles THEN [row[q] EXCEPT !.band = bands[q], !.own = NoBand]
                                    ELSE row[q]],
           Wrote(who, roles), title' = title,
           \A q \in roles : MayRewrite(who, q, bands[q])
    PROVE  EstimatesInv' /\ FiguresStep
  <1> DEFINE new(q) == [row[q] EXCEPT !.band = bands[q], !.own = NoBand]
  <1>1. last' = [by |-> who, roles |-> roles] /\ row \in [Priced -> SalaryRows]
    BY DEF Wrote, EstimatesInv
  <1>2. \A q \in Priced : row'[q] = IF q \in roles THEN new(q) ELSE row[q]
    OBVIOUS
  <1>3. \A q \in roles : /\ RowSound(title[q], new(q)) /\ FigureKept(row[q], new(q)) /\ RowLowered(who, row[q], new(q))
                         /\ new(q) \in SalaryRows /\ new(q).band = bands[q]
    <2>1. \A q \in roles : RowSound(title[q], new(q)) /\ FigureKept(row[q], new(q)) /\ RowLowered(who, row[q], new(q))
      BY DEF MayRewrite
    <2>2. \A q \in roles : new(q) \in SalaryRows /\ new(q).band = bands[q]
      BY <1>1, <2>1 DEF RowSound, SalaryRows
    <2> QED
      BY <2>1, <2>2
  <1>4. \A q \in Priced : RowSound(title[q], row'[q]) /\ FigureKept(row[q], row'[q])
    BY <1>2, <1>3 DEF EstimatesInv, FigureKept
  <1>5. row' \in [Priced -> SalaryRows]
    BY <1>1, <1>2, <1>3
  <1>6. \A q \in roles : row'[q].band = bands[q]
    BY <1>2, <1>3
  <1> HIDE DEF new
  <1>7. RepairedOnceIsRepaired'
    <2>1. ASSUME NEW q \in roles, who = "replay"
          PROVE  Clamp(title[q], Found(row'[q].at), row'[q].band) = row'[q].band
      <3>1. title[q] \in Titles /\ Ruling(title[q]) /\ row'[q].band = Ruled(title[q])
        BY <1>6, <2>1 DEF EstimatesInv, MayRewrite
      <3> QED
        BY <3>1, ClampOfARule
    <2> QED
      BY <1>1, <1>6, <2>1 DEF RepairedOnceIsRepaired, Replayed, MayRewrite
  <1>8. \A q \in last'.roles : RowLowered(last'.by, row[q], row'[q])
    BY <1>1, <1>2, <1>3
  <1>9. last' \in [by: {"nobody", "enrichment", "audit", "internships", "ceilings", "replay", "admin"}, roles: SUBSET Priced]
    BY <1>1
  <1>10. \A q \in Priced : RowSound(title[q], row[q])'
    BY <1>4 DEF RowSound
  <1> QED
    BY <1>4, <1>5, <1>7, <1>8, <1>9, <1>10 DEF EstimatesInv, FiguresStep

LEMMA EnrichKeeps ==
    ASSUME EstimatesInv, NEW r \in Priced, Enrich(r)
    PROVE  EstimatesInv' /\ FiguresStep
  <1>1. title[r] \in Titles /\ RowSound(title[r], row[r]) /\ ~row[r].byHand
    BY DEF EstimatesInv, Enrich
  <1>2. PICK answer \in ModelAnswers, raw \in Raws, sure \in BOOLEAN :
            row' = [row EXCEPT ![r] =
                Upserted(@, Finalise(title[r], Found(Normalise(answer)), raw), Normalise(answer), sure,
                         sure /\ raw # NoBand)]
    BY DEF Enrich
  <1> DEFINE new == Upserted(row[r], Finalise(title[r], Found(Normalise(answer)), raw), Normalise(answer), sure,
                             sure /\ raw # NoBand)
  <1>3. RowSound(title[r], new) /\ FigureKept(row[r], new)
    BY <1>1, UpsertIsSound DEF FigureKept
  <1>4. row' = [row EXCEPT ![r] = new]
    BY <1>2
  <1> HIDE DEF new
  <1> QED
    BY <1>3, <1>4, OneRowIsWritten DEF Enrich

LEMMA AuditKeeps ==
    ASSUME EstimatesInv, NEW r \in Priced, AuditEstimate(r)
    PROVE  EstimatesInv' /\ FiguresStep
  <1>1. title[r] \in Titles /\ RowSound(title[r], row[r]) /\ ~row[r].byHand
    BY DEF EstimatesInv, AuditEstimate
  <1>2. PICK proposed \in Raws :
            LET band == Lowered(title[r], Found(row[r].at), proposed, row[r].band)
            IN band # NoBand /\ row' = [row EXCEPT ![r].band = band, ![r].own = NoBand]
    BY DEF AuditEstimate
  <1> DEFINE band == Lowered(title[r], Found(row[r].at), proposed, row[r].band)
             new == [row[r] EXCEPT !.band = band, !.own = NoBand]
  <1>3. RowSound(title[r], new) /\ Low(band) # None
    BY <1>1, <1>2, AuditIsSound
  <1>4. row' = [row EXCEPT ![r] = new] /\ new.band = band
    BY <1>1, <1>2 DEF RowSound, SalaryRows, EstimatesInv
  <1> HIDE DEF new, band
  <1>5. FigureKept(row[r], new)
    BY <1>3, <1>4 DEF FigureKept
  <1> QED
    BY <1>3, <1>4, <1>5, OneRowIsWritten DEF AuditEstimate

LEMMA HandEditKeeps ==
    ASSUME EstimatesInv, NEW r \in Priced, HandEdit(r)
    PROVE  EstimatesInv' /\ FiguresStep
  <1>1. title[r] \in Titles /\ RowSound(title[r], row[r]) /\ row[r].there
    BY DEF EstimatesInv, HandEdit
  <1>2. PICK b \in Raws : row' = [row EXCEPT ![r].band = b, ![r].byHand = TRUE, ![r].own = NoBand]
    BY DEF HandEdit
  <1> DEFINE new == [row[r] EXCEPT !.band = b, !.byHand = TRUE, !.own = NoBand]
  <1>3. RowSound(title[r], new)
    BY <1>1, HandEditIsSound
  <1>4. row' = [row EXCEPT ![r] = new] /\ new.byHand
    BY <1>1, <1>2 DEF RowSound, SalaryRows, EstimatesInv
  <1> HIDE DEF new
  <1>5. FigureKept(row[r], new)
    BY <1>4 DEF FigureKept
  <1> QED
    BY <1>3, <1>4, <1>5, OneRowIsWritten DEF HandEdit

\* What either nightly repair does to the rows it changes.
LEMMA CutsKeep ==
    ASSUME NEW t \in Titles, NEW old, RowSound(t, old), NEW cap, Ceiling(cap), CutTo(old.band, cap) # old.band,
           ~old.byHand, ~old.stated, ~old.sure, NEW who \in {"internships", "ceilings"}
    PROVE  LET new == [old EXCEPT !.band = CutTo(old.band, cap), !.own = NoBand]
           IN /\ RowSound(t, new) /\ FigureKept(old, new) /\ RowLowered(who, old, new)
              /\ High(CutTo(old.band, cap)) = cap
  <1> DEFINE band == CutTo(old.band, cap)
             new == [old EXCEPT !.band = band, !.own = NoBand]
  <1>1. RowSound(t, new)
    BY CutIsSound
  <1>2. old.band \in Nat \X Nat /\ old \in SalaryRows
    BY DEF RowSound, SalaryRows
  <1>3. /\ High(band) = cap /\ cap < High(old.band)
        /\ Low(old.band) # None => Low(band) <= Low(old.band) /\ Low(band) # None
    BY <1>2, CutIs
  <1> HIDE DEF band
  <1>4. new.band = band
    BY <1>2 DEF SalaryRows
  <1> HIDE DEF new
  <1>5. FigureKept(old, new) /\ RowLowered(who, old, new)
    BY <1>3, <1>4 DEF FigureKept, RowLowered
  <1> QED
    BY <1>1, <1>3, <1>5 DEF new, band

LEMMA RepairInternshipsKeeps ==
    ASSUME EstimatesInv, RepairInternships
    PROVE  EstimatesInv' /\ FiguresStep
  <1> DEFINE cut(r) == CutTo(row[r].band, InternshipMax)
             roles == {r \in Priced : /\ title[r].intern /\ row[r].at.seniority \in {"none", "junior"}
                                      /\ ~Protected(r) /\ cut(r) # row[r].band}
             bands == [r \in Priced |-> cut(r)]
  <1>1. /\ row' = [r \in Priced |-> IF r \in roles THEN [row[r] EXCEPT !.band = cut(r), !.own = NoBand] ELSE row[r]]
        /\ Wrote("internships", roles) /\ title' = title
    BY DEF RepairInternships, Rewrite
  <1>2. ASSUME NEW q \in roles
        PROVE  LET new == [row[q] EXCEPT !.band = cut(q), !.own = NoBand]
               IN /\ RowSound(title[q], new) /\ FigureKept(row[q], new) /\ RowLowered("internships", row[q], new)
                  /\ High(cut(q)) = InternshipMax
    <2>1. /\ q \in Priced /\ title[q] \in Titles /\ RowSound(title[q], row[q])
          /\ ~row[q].byHand /\ ~row[q].stated /\ ~row[q].sure /\ cut(q) # row[q].band
      BY DEF EstimatesInv, Protected
    <2>2. Ceiling(InternshipMax)
      BY SalaryAssumption
    <2> QED
      BY <2>1, <2>2, CutsKeep
  <1>3. InternshipMax <= InternshipMax /\ roles \in SUBSET Priced
    BY SalaryAssumption DEF Ceiling
  <1>4. \A q \in roles : bands[q] = cut(q)
    OBVIOUS
  <1>5. row' = [r \in Priced |-> IF r \in roles THEN [row[r] EXCEPT !.band = bands[r], !.own = NoBand] ELSE row[r]]
    BY <1>1
  <1> HIDE DEF bands, cut, roles
  <1>6. \A q \in roles : MayRewrite("internships", q, bands[q])
    BY <1>2, <1>3, <1>4 DEF MayRewrite
  <1> QED
    BY <1>1, <1>3, <1>5, <1>6, ManyRowsAreWritten

LEMMA RepairCeilingsKeeps ==
    ASSUME EstimatesInv, RepairCeilings
    PROVE  EstimatesInv' /\ FiguresStep
  <1> DEFINE cut(r) == CutTo(row[r].band, title[r].gradeCap)
             front(r) == Found(row[r].at).front
             roles == {r \in Priced : /\ ~front(r) /\ title[r].gradeCap # None
                                      /\ ~Protected(r) /\ cut(r) # row[r].band}
             bands == [r \in Priced |-> cut(r)]
  <1>1. /\ row' = [r \in Priced |-> IF r \in roles THEN [row[r] EXCEPT !.band = cut(r), !.own = NoBand] ELSE row[r]]
        /\ Wrote("ceilings", roles) /\ title' = title
    BY DEF RepairCeilings, Rewrite
  <1>2. ASSUME NEW q \in roles
        PROVE  LET new == [row[q] EXCEPT !.band = cut(q), !.own = NoBand]
               IN /\ RowSound(title[q], new) /\ FigureKept(row[q], new) /\ RowLowered("ceilings", row[q], new)
                  /\ High(cut(q)) = title[q].gradeCap /\ title[q].gradeCap <= title[q].gradeCap
    <2>1. /\ q \in Priced /\ title[q] \in Titles /\ RowSound(title[q], row[q])
          /\ ~row[q].byHand /\ ~row[q].stated /\ ~row[q].sure /\ cut(q) # row[q].band /\ title[q].gradeCap # None
      BY DEF EstimatesInv, Protected
    <2>2. Ceiling(title[q].gradeCap) /\ title[q].gradeCap <= title[q].gradeCap
      BY <2>1, TitlesAreTyped DEF Ceiling
    <2> QED
      BY <2>1, <2>2, CutsKeep
  <1>3. roles \in SUBSET Priced
    OBVIOUS
  <1>4. \A q \in roles : bands[q] = cut(q)
    OBVIOUS
  <1>5. row' = [r \in Priced |-> IF r \in roles THEN [row[r] EXCEPT !.band = bands[r], !.own = NoBand] ELSE row[r]]
    BY <1>1
  <1> HIDE DEF bands, cut, roles
  <1>6. \A q \in roles : MayRewrite("ceilings", q, bands[q])
    BY <1>2, <1>3, <1>4 DEF MayRewrite
  <1> QED
    BY <1>1, <1>3, <1>5, <1>6, ManyRowsAreWritten

LEMMA ReplayKeeps ==
    ASSUME EstimatesInv, Replay
    PROVE  EstimatesInv' /\ FiguresStep
  <1> DEFINE roles == {r \in Priced : Replayable(r) /\ Replayed(r) # row[r].band}
             bands == [r \in Priced |-> Replayed(r)]
  <1>1. /\ row' = [r \in Priced |-> IF r \in roles THEN [row[r] EXCEPT !.band = Replayed(r), !.own = NoBand] ELSE row[r]]
        /\ Wrote("replay", roles) /\ title' = title
    BY DEF Replay, Rewrite
  <1>2. ASSUME NEW q \in roles
        PROVE  LET new == [row[q] EXCEPT !.band = Replayed(q), !.own = NoBand]
               IN /\ RowSound(title[q], new) /\ FigureKept(row[q], new) /\ RowLowered("replay", row[q], new)
                  /\ Ruling(title[q]) /\ Replayed(q) = Ruled(title[q])
    <2>1. /\ q \in Priced /\ title[q] \in Titles /\ RowSound(title[q], row[q]) /\ row[q].there
          /\ ~row[q].byHand /\ ~row[q].stated /\ ~row[q].sure /\ Ruling(title[q])
      BY DEF EstimatesInv, Protected, Replayable, Ruling
    <2>2. Replayed(q) = Ruled(title[q])
      BY <2>1, ClampOfARule DEF Replayed
    <2> DEFINE new == [row[q] EXCEPT !.band = Ruled(title[q]), !.own = NoBand]
    <2>3. RowSound(title[q], new)
      BY <2>1, ReplayIsSound
    <2>4. new.band = Ruled(title[q]) /\ Low(new.band) # None
      BY <2>1, RuledIs DEF RowSound, SalaryRows
    <2> HIDE DEF new
    <2>5. FigureKept(row[q], new) /\ RowLowered("replay", row[q], new)
      BY <2>1, <2>4 DEF FigureKept, RowLowered
    <2> QED
      BY <2>1, <2>2, <2>3, <2>5 DEF new
  <1>3. roles \in SUBSET Priced
    OBVIOUS
  <1>4. \A q \in roles : bands[q] = Replayed(q)
    OBVIOUS
  <1>5. row' = [r \in Priced |-> IF r \in roles THEN [row[r] EXCEPT !.band = bands[r], !.own = NoBand] ELSE row[r]]
    BY <1>1
  <1> HIDE DEF bands, roles
  <1>6. \A q \in roles : MayRewrite("replay", q, bands[q])
    BY <1>2, <1>3, <1>4 DEF MayRewrite
  <1>7. Wrote("replay", roles) /\ title' = title
    BY <1>1
  <1> QED
    BY <1>3, <1>5, <1>6, <1>7, ManyRowsAreWritten

LEMMA EstimatesStart ==
    ASSUME EstimatesInit
    PROVE  EstimatesInv
  <1>1. Blank \in SalaryRows
    BY DEF Blank, SalaryRows, NoBand, None, NoAnswer, Coordinates, Words
  <1>2. ASSUME NEW t PROVE RowSound(t, Blank)
    <2>1. Blank.band = NoBand /\ Blank.own = NoBand /\ ~Blank.there
      BY DEF Blank
    <2>2. IsRange(NoBand) /\ High(NoBand) = 0 /\ GlobalMax \in Nat /\ InternshipMax \in Nat
      BY SalaryAssumption DEF IsRange, NoBand, None, High, Low, Ceiling
    <2> QED
      BY <1>1, <2>1, <2>2 DEF RowSound
  <1> QED
    BY <1>1, <1>2 DEF EstimatesInit, EstimatesInv, RepairedOnceIsRepaired

LEMMA EstimatesStep ==
    ASSUME EstimatesInv, [EstimatesNext]_estimateVars
    PROVE  EstimatesInv' /\ (FiguresStep \/ UNCHANGED estimateVars)
  <1>1. CASE UNCHANGED estimateVars
    BY <1>1 DEF EstimatesInv, estimateVars, RepairedOnceIsRepaired, Replayed, RowSound
  <1>2. CASE EstimatesNext
    BY <1>2, EnrichKeeps, AuditKeeps, HandEditKeeps, RepairInternshipsKeeps, RepairCeilingsKeeps, ReplayKeeps
       DEF EstimatesNext
  <1> QED
    BY <1>1, <1>2

LEMMA EstimatesInvMeans ==
    ASSUME EstimatesInv
    PROVE  /\ FiguresAreRanges /\ InternshipsStayUnderTheCeiling /\ OnlyTopGradesPassTheCeiling
           /\ FiguresMatchTheirCoordinates /\ RepairedOnceIsRepaired
  BY DEF EstimatesInv, RowSound, IsRange, FiguresAreRanges, InternshipsStayUnderTheCeiling,
         OnlyTopGradesPassTheCeiling, FiguresMatchTheirCoordinates

\* What the board may show: a stored figure is a range, under the ceilings, it describes its
\* coordinate, a repair is done once and only lowers, and no estimate is lost, for any tables,
\* titles and answers (clamp_salary, the upsert of enrichment.py and salary_repair.py).
THEOREM FiguresHold == EstimatesSpec => FiguresAreSound
  <1>1. EstimatesInit => EstimatesInv
    BY EstimatesStart
  <1>2. EstimatesInv /\ [EstimatesNext]_estimateVars => EstimatesInv'
    BY EstimatesStep
  <1>3. EstimatesInv => /\ FiguresAreRanges /\ InternshipsStayUnderTheCeiling /\ OnlyTopGradesPassTheCeiling
                        /\ FiguresMatchTheirCoordinates /\ RepairedOnceIsRepaired
    BY EstimatesInvMeans
  <1>4. EstimatesInv /\ [EstimatesNext]_estimateVars =>
            [\A r \in Priced : Low(row[r].band) # None =>
                 row'[r].byHand \/ Low(row'[r].band) # None]_estimateVars
    BY EstimatesStep DEF FiguresStep, FigureKept
  <1>5. EstimatesInv /\ [EstimatesNext]_estimateVars =>
            [\A r \in last'.roles :
                /\ last'.by \in {"internships", "ceilings", "replay"} =>
                       ~row[r].byHand /\ ~row[r].stated /\ ~row[r].sure
                /\ last'.by \in {"internships", "ceilings"} =>
                       /\ High(row'[r].band) < High(row[r].band)
                       /\ Low(row[r].band) # None => Low(row'[r].band) <= Low(row[r].band)]_estimateVars
    BY EstimatesStep DEF FiguresStep, RowLowered
  <1> QED
    BY <1>1, <1>2, <1>3, <1>4, <1>5, PTL
       DEF EstimatesSpec, FiguresAreSound, EstimatesAreNeverLost, RepairsOnlyLower

----------------------------------------------------------------------------
(* The pages of a career site.                                             *)

Reading == progress \in {"listing", "listed"}

PagesTypes ==
    /\ adapter \in Adapters /\ stuck \in BOOLEAN
    /\ site \in Seq(Openings) /\ OnceEach(site) /\ pageRows \in Seq(Openings)
    /\ progress \in {"listing", "listed", "answered", "raised"}
    /\ page \in Nat /\ got \in Nat /\ total \in Nat \cup {-1} /\ changes \in Nat
    /\ steady \in SUBSET Range(site)

\* Before its first page a fetch has nothing, and the site is what it was.
BeginsUnread ==
    progress = "listing" /\ page = 0 =>
        /\ pageRows = <<>> /\ got = 0 /\ total = -1
        /\ changes = 0 /\ trouble = {} /\ steady = Range(site)

FeedsAreOnePage == progress = "listing" /\ adapter.feed # "pages" => page = 0

\* A total is told with the first page, and the last one told is that of the site.
TotalsAreTold ==
    /\ Reading /\ total = -1 => page = 0
    /\ progress = "listed" /\ adapter.check = "equal" =>
           total # -1 /\ (adapter.total = "last" => total = Len(site))

\* While nothing vanished, what was there the whole time stands behind what was gained, and a
\* first total is the number of it.
GainedInFront ==
    "vanished" \notin trouble =>
        /\ \A i \in DOMAIN site : site[i] \in steady <=> i > Len(site) - Cardinality(steady)
        /\ Len(site) - Cardinality(steady) \in 0..changes
        /\ Reading /\ adapter.total # "last" /\ total # -1 => total = Cardinality(steady)

\* A fetch that cannot be misled by what was gained.
Unmisled ==
    /\ "vanished" \notin trouble /\ adapter.total # "last"
    /\ adapter.total = "first" => changes <= (IF stuck THEN 0 ELSE PageSize)

RowsAreOfTheSite ==
    Reading => /\ "vanished" \notin trouble => Range(pageRows) \subseteq Range(site)
               /\ Unmisled => Range(pageRows) \subseteq steady

\* While nothing was gained, all that was seen is of as many postings as the first total tells.
LostFromTheFirst ==
    Reading /\ "appeared" \notin trouble /\ adapter.total # "last" /\ total # -1 =>
        \E first \in SUBSET Openings :
            /\ IsFiniteSet(first) /\ Cardinality(first) = total
            /\ Range(site) \subseteq first /\ Range(pageRows) \subseteq first

RememberedOnce == Reading /\ adapter.fresh => OnceEach(pageRows)

\* A quiet site is read from its front, page by page.
ReadFromTheFront ==
    Reading /\ trouble = {} /\ ~stuck =>
        /\ got <= Len(site) /\ Len(pageRows) = got
        /\ \A k \in 1..got : pageRows[k] = site[k]
        /\ total \in {-1, Len(site)}
        /\ adapter.feed = "pages" =>
               got = IF page * PageSize < Len(site) THEN page * PageSize ELSE Len(site)
        /\ progress = "listed" =>
               /\ total = Len(site)
               /\ \/ got = Len(site)
                  \/ adapter.feed = "pages" /\ page = MaxPages /\ Len(site) > MaxPages * PageSize

PagesInv ==
    /\ PagesTypes /\ BeginsUnread /\ FeedsAreOnePage /\ TotalsAreTold /\ GainedInFront
    /\ RowsAreOfTheSite /\ LostFromTheFirst /\ RememberedOnce /\ ReadFromTheFront
    /\ PagesMissNothing

----------------------------------------------------------------------------
\* What every adapter keeps to.
IsAdapter(a) ==
    /\ a.total \in {"first", "last", "same"} /\ a.feed \in {"pages", "whole", "capped"}
    /\ a.fresh \in BOOLEAN
    /\ a.check = "equal" => a.fresh /\ a.refused = "raise" /\ a.broken = "raise" /\ a.detail # "skip"
    /\ a.total = "first" => a.enough # "received"

LEMMA AdaptersAre == \A a \in Adapters : IsAdapter(a)
  <1>1. IsAdapter(Workday)
    BY DEF IsAdapter, Site, Workday
  <1>2. IsAdapter(Eightfold)
    BY DEF IsAdapter, Site, Eightfold
  <1>3. IsAdapter(EFC)
    BY DEF IsAdapter, Site, EFC
  <1>4. IsAdapter(JobsDB)
    BY DEF IsAdapter, Site, JobsDB
  <1>5. IsAdapter(LinkedIn)
    BY DEF IsAdapter, Site, LinkedIn
  <1>6. IsAdapter(SuccessFactors)
    BY DEF IsAdapter, Site, SuccessFactors
  <1>7. IsAdapter(OracleHCM)
    BY DEF IsAdapter, Site, OracleHCM
  <1>8. IsAdapter(Minsheng)
    BY DEF IsAdapter, Site, Minsheng
  <1>9. IsAdapter(KPMG)
    BY DEF IsAdapter, Site, KPMG
  <1>10. IsAdapter(ZABank)
    BY DEF IsAdapter, Site, ZABank
  <1>11. IsAdapter(Macquarie)
    BY DEF IsAdapter, Site, Macquarie
  <1>12. IsAdapter(WingLung)
    BY DEF IsAdapter, Site, WingLung
  <1>13. IsAdapter(PingAn)
    BY DEF IsAdapter, Site, PingAn
  <1>14. IsAdapter(BankOfAmerica)
    BY DEF IsAdapter, Site, BankOfAmerica
  <1>15. IsAdapter(HashKey)
    BY DEF IsAdapter, Site, HashKey
  <1>16. IsAdapter(TwoSigma)
    BY DEF IsAdapter, Site, TwoSigma
  <1>17. IsAdapter(Towngas)
    BY DEF IsAdapter, Site, Towngas
  <1>18. IsAdapter(Indeed)
    BY DEF IsAdapter, Site, LinkedIn, Indeed
  <1>19. IsAdapter(Greenhouse)
    BY DEF IsAdapter, Site, Feed, Greenhouse
  <1>20. IsAdapter(Longtail)
    BY DEF IsAdapter, Site, Feed, Longtail
  <1>21. IsAdapter(WeLab)
    BY DEF IsAdapter, Site, Feed, WeLab
  <1>22. IsAdapter(UBS)
    BY DEF IsAdapter, Site, Feed, UBS
  <1>23. IsAdapter(Amundi)
    BY DEF IsAdapter, Site, Feed, Amundi
  <1>24. IsAdapter(Mox)
    BY DEF IsAdapter, Site, Feed, Mox
  <1>25. IsAdapter(BankOfCommunications)
    BY DEF IsAdapter, Site, Feed, BankOfCommunications
  <1>26. IsAdapter(ICBC)
    BY DEF IsAdapter, Site, Feed, ICBC
  <1>27. IsAdapter(CCB)
    BY DEF IsAdapter, Site, Feed, CCB
  <1>28. IsAdapter(HKLife)
    BY DEF IsAdapter, Site, Feed, HKLife
  <1>29. IsAdapter(BOCHK)
    BY DEF IsAdapter, Site, Feed, BOCHK
  <1>30. IsAdapter(HKMA)
    BY DEF IsAdapter, Site, Feed, HKMA
  <1>31. IsAdapter(HKMC)
    BY DEF IsAdapter, Site, Feed, HKMC
  <1>32. IsAdapter(HKMCA)
    BY DEF IsAdapter, Site, Feed, HKMCA
  <1>33. IsAdapter(JaneStreet)
    BY DEF IsAdapter, Site, Feed, JaneStreet
  <1>34. IsAdapter(AXA)
    BY DEF IsAdapter, Site, Counted, AXA
  <1>35. IsAdapter(MorganStanley)
    BY DEF IsAdapter, Site, Counted, MorganStanley
  <1>36. IsAdapter(GoldmanSachs)
    BY DEF IsAdapter, Site, Counted, GoldmanSachs
  <1>37. IsAdapter(Optiver)
    BY DEF IsAdapter, Site, Counted, Optiver
  <1>38. IsAdapter(Phenom)
    BY DEF IsAdapter, Site, Counted, Phenom
  <1>39. IsAdapter(CICC)
    BY DEF IsAdapter, Site, Counted, CICC
  <1>40. IsAdapter(SfRmk)
    BY DEF IsAdapter, Site, Counted, SfRmk
  <1>41. IsAdapter(Deloitte)
    BY DEF IsAdapter, Site, Counted, Deloitte
  <1>42. IsAdapter(Barclays)
    BY DEF IsAdapter, Site, Counted, Barclays
  <1>43. IsAdapter(Wizpresso)
    BY DEF IsAdapter, Site, Counted, Wizpresso
  <1>44. IsAdapter(MTR)
    BY DEF IsAdapter, Site, Counted, MTR
  <1>45. IsAdapter(Airport)
    BY DEF IsAdapter, Site, Counted, MTR, Airport
  <1> QED
    BY <1>1, <1>2, <1>3, <1>4, <1>5, <1>6, <1>7, <1>8, <1>9, <1>10, <1>11, <1>12, <1>13, <1>14,
       <1>15, <1>16, <1>17, <1>18, <1>19, <1>20, <1>21, <1>22, <1>23, <1>24, <1>25, <1>26,
       <1>27, <1>28, <1>29, <1>30, <1>31, <1>32, <1>33, <1>34, <1>35, <1>36, <1>37, <1>38,
       <1>39, <1>40, <1>41, <1>42, <1>43, <1>44, <1>45 DEF Adapters

LEMMA OnceEachCounts ==
    ASSUME NEW S, NEW s \in Seq(S), OnceEach(s)
    PROVE  IsFiniteSet(Range(s)) /\ Cardinality(Range(s)) = Len(s)
  <1>1. Len(s) \in Nat /\ DOMAIN s = 1..Len(s)
    BY LenProperties
  <1>2. s \in Bijection(1..Len(s), Range(s))
    BY <1>1 DEF OnceEach, Range, Bijection, Injection, Surjection, IsInjective
  <1>3. ExistsBijection(1..Len(s), Range(s))
    BY <1>2 DEF ExistsBijection
  <1>4. IsFiniteSet(1..Len(s)) /\ Cardinality(1..Len(s)) = Len(s)
    BY <1>1, FS_Interval
  <1> QED
    BY <1>3, <1>4, FS_Bijection

LEMMA RangesAreFinite ==
    ASSUME NEW S, NEW s \in Seq(S)
    PROVE  /\ IsFiniteSet(Range(s)) /\ Cardinality(Range(s)) \in Nat /\ Range(s) \in SUBSET S
           /\ Range(s) = {} <=> s = <<>>
  <1>1. Len(s) \in Nat /\ DOMAIN s = 1..Len(s) /\ \A i \in DOMAIN s : s[i] \in S
    BY LenProperties, ElementOfSeq
  <1>2. IsFiniteSet(DOMAIN s)
    BY <1>1, FS_Interval
  <1>3. s \in Surjection(DOMAIN s, Range(s))
    BY DEF Surjection, Range
  <1>4. IsFiniteSet(Range(s))
    BY <1>2, <1>3, FS_Surjection
  <1>5. Range(s) = {} <=> s = <<>>
    <2>1. Range(s) = {} <=> 1..Len(s) = {}
      BY <1>1 DEF Range
    <2>2. 1..Len(s) = {} <=> Len(s) = 0
      <3>1. Len(s) # 0 => 1 \in 1..Len(s)
        BY <1>1
      <3>2. Len(s) = 0 => 1..Len(s) = {}
        BY <1>1
      <3> QED
        BY <3>1, <3>2
    <2>3. Len(s) = 0 <=> s = <<>>
      BY EmptySeq
    <2> QED
      BY <2>1, <2>2, <2>3
  <1> QED
    BY <1>1, <1>4, <1>5, FS_CardinalityType DEF Range

\* Where a page begins.
From == IF stuck THEN 0 ELSE Offset

LEMMA FromIs ==
    ASSUME PagesTypes
    PROVE  From \in Nat /\ Width \in Nat
  <1>1. PageSize \in Nat \ {0} /\ FeedCap \in Nat \ {0}
    BY BoardAssumption
  <1>2. page * PageSize \in Nat
    BY <1>1 DEF PagesTypes
  <1>3. Len(site) \in Nat
    BY LenProperties DEF PagesTypes
  <1> QED
    BY <1>1, <1>2, <1>3 DEF From, Offset, Width, PagesTypes

LEMMA PageRowsAre ==
    ASSUME PagesTypes
    PROVE  LET n == IF From >= Len(site) THEN 0
                    ELSE IF From + Width > Len(site) THEN Len(site) - From ELSE Width
           IN /\ ThePage \in Seq(Openings) /\ Len(ThePage) = n /\ n \in Nat /\ DOMAIN ThePage = 1..n
              /\ \A k \in 1..n : From + k \in DOMAIN site /\ ThePage[k] = site[From + k]
  <1> DEFINE to == IF From + Width > Len(site) THEN Len(site) ELSE From + Width
             n == IF From >= Len(site) THEN 0
                  ELSE IF From + Width > Len(site) THEN Len(site) - From ELSE Width
  <1>1. From \in Nat /\ Width \in Nat
    BY FromIs
  <1>2. Len(site) \in Nat /\ DOMAIN site = 1..Len(site) /\ \A i \in DOMAIN site : site[i] \in Openings
    BY LenProperties, ElementOfSeq DEF PagesTypes
  <1>3. ThePage = SubSeq(site, From + 1, to)
    BY DEF ThePage, From
  <1> HIDE DEF From
  <1>4. n \in Nat /\ to \in Nat
    BY <1>1, <1>2
  <1>5. 1..(to - (From + 1) + 1) = 1..n
    BY <1>1, <1>2
  <1>6. \A k \in 1..n : From + k \in DOMAIN site
    BY <1>1, <1>2
  <1>7. ThePage = [k \in 1..n |-> site[From + k]]
    <2>1. SubSeq(site, From + 1, to) = [k \in 1..(to - (From + 1) + 1) |-> site[k + (From + 1) - 1]]
      BY <1>1, <1>2, <1>4
    <2>2. \A k \in 1..n : k + (From + 1) - 1 = From + k
      BY <1>1, <1>4
    <2> HIDE DEF n, to
    <2> QED
      BY <1>3, <1>5, <2>1, <2>2
  <1> HIDE DEF n, to
  <1>8. ThePage \in [1..n -> Openings]
    BY <1>2, <1>6, <1>7
  <1>9. ThePage \in Seq(Openings)
    BY <1>4, <1>8, SeqDef
  <1>10. Len(ThePage) = n
    BY <1>4, <1>8, <1>9, LenProperties
  <1> QED
    BY <1>4, <1>6, <1>7, <1>9, <1>10 DEF n

LEMMA NewRowsAre ==
    ASSUME PagesTypes
    PROVE  /\ ThePage \in Seq(Openings) /\ OnceEach(ThePage) /\ Range(ThePage) \subseteq Range(site)
           /\ New \in Seq(Openings) /\ OnceEach(New)
           /\ Range(New) = Range(ThePage) \ Range(pageRows)
           /\ Range(ThePage) \cap Range(pageRows) = {} => New = ThePage
  <1> DEFINE n == Len(ThePage)
  <1>1. /\ ThePage \in Seq(Openings) /\ DOMAIN ThePage = 1..n /\ n \in Nat
        /\ \A k \in 1..n : From + k \in DOMAIN site /\ ThePage[k] = site[From + k]
    BY PageRowsAre
  <1>2. From \in Nat
    BY FromIs
  <1>3. Range(ThePage) \subseteq Range(site)
    BY <1>1 DEF Range
  <1> HIDE DEF n
  <1>4. OnceEach(ThePage)
    <2> SUFFICES ASSUME NEW j \in 1..n, NEW k \in 1..n, ThePage[j] = ThePage[k] PROVE j = k
      BY <1>1 DEF OnceEach
    <2>1. From + j = From + k
      BY <1>1 DEF PagesTypes, OnceEach
    <2> QED
      BY <1>1, <1>2, <2>1
  <1>5. Range(ThePage) \subseteq Openings
    BY <1>1, RangesAreFinite
  <1>6. /\ New \in Seq(Openings) /\ Range(New) = Range(ThePage) \cap (Openings \ Range(pageRows))
        /\ OnceEach(New)
        /\ Range(ThePage) \subseteq Openings \ Range(pageRows) => New = ThePage
    BY <1>1, <1>4, ThoseIs DEF New
  <1> QED
    BY <1>1, <1>3, <1>4, <1>5, <1>6

LEMMA Joined ==
    ASSUME NEW S, NEW s \in Seq(S), NEW t \in Seq(S)
    PROVE  /\ s \o t \in Seq(S) /\ Len(s \o t) = Len(s) + Len(t)
           /\ Range(s \o t) = Range(s) \cup Range(t)
           /\ \A k \in 1..Len(s) : (s \o t)[k] = s[k]
           /\ \A k \in 1..Len(t) : (s \o t)[Len(s) + k] = t[k]
           /\ OnceEach(s) /\ OnceEach(t) /\ Range(s) \cap Range(t) = {} => OnceEach(s \o t)
  <1> DEFINE u == s \o t  m == Len(s)  n == Len(t)
  <1>1. m \in Nat /\ n \in Nat /\ DOMAIN s = 1..m /\ DOMAIN t = 1..n
    BY LenProperties
  <1>2. u \in Seq(S) /\ Len(u) = m + n /\ DOMAIN u = 1..(m + n)
    BY ConcatProperties, LenProperties
  <1>3. \A k \in 1..(m + n) : u[k] = IF k <= m THEN s[k] ELSE t[k - m]
    BY <1>1, ConcatProperties
  <1> HIDE DEF u, m, n
  <1>4. \A k \in 1..m : u[k] = s[k]
    BY <1>1, <1>3
  <1>5. \A k \in 1..n : u[m + k] = t[k]
    <2> SUFFICES ASSUME NEW k \in 1..n PROVE u[m + k] = t[k]
      OBVIOUS
    <2>1. m + k \in 1..(m + n) /\ ~(m + k <= m) /\ m + k - m = k
      BY <1>1
    <2>2. u[m + k] = t[m + k - m]
      BY <1>1, <1>3, <2>1
    <2> QED
      BY <2>1, <2>2
  <1>6. Range(u) = Range(s) \cup Range(t)
    <2>1. ASSUME NEW x \in Range(u) PROVE x \in Range(s) \cup Range(t)
      <3>1. PICK k \in 1..(m + n) : x = u[k]
        BY <1>2 DEF Range
      <3>2. CASE k <= m
        <4>1. k \in 1..m
          BY <1>1, <3>2
        <4> QED
          BY <1>1, <1>4, <3>1, <4>1 DEF Range
      <3>3. CASE ~(k <= m)
        <4>1. k - m \in 1..n
          BY <1>1, <3>3
        <4> QED
          BY <1>1, <1>3, <3>1, <3>3, <4>1 DEF Range
      <3> QED
        BY <3>2, <3>3
    <2>2. ASSUME NEW x \in Range(s) PROVE x \in Range(u)
      <3>1. PICK k \in 1..m : x = s[k]
        BY <1>1 DEF Range
      <3>2. k \in 1..(m + n)
        BY <1>1
      <3> QED
        BY <1>2, <1>4, <3>1, <3>2 DEF Range
    <2>3. ASSUME NEW x \in Range(t) PROVE x \in Range(u)
      <3>1. PICK k \in 1..n : x = t[k]
        BY <1>1 DEF Range
      <3>2. m + k \in 1..(m + n)
        BY <1>1
      <3> QED
        BY <1>2, <1>5, <3>1, <3>2 DEF Range
    <2> QED
      BY <2>1, <2>2, <2>3
  <1>7. ASSUME OnceEach(s), OnceEach(t), Range(s) \cap Range(t) = {} PROVE OnceEach(u)
    <2> SUFFICES ASSUME NEW j \in 1..(m + n), NEW k \in 1..(m + n), u[j] = u[k] PROVE j = k
      BY <1>2 DEF OnceEach
    <2>1. \A i \in 1..m : s[i] \in Range(s)
      BY <1>1 DEF Range
    <2>2. \A i \in 1..n : t[i] \in Range(t)
      BY <1>1 DEF Range
    <2>3. j <= m => j \in 1..m /\ u[j] = s[j]
      BY <1>1, <1>3
    <2>4. k <= m => k \in 1..m /\ u[k] = s[k]
      BY <1>1, <1>3
    <2>5. ~(j <= m) => j - m \in 1..n /\ u[j] = t[j - m]
      BY <1>1, <1>3
    <2>6. ~(k <= m) => k - m \in 1..n /\ u[k] = t[k - m]
      BY <1>1, <1>3
    <2>7. CASE j <= m /\ k <= m
      BY <1>1, <1>7, <2>3, <2>4, <2>7 DEF OnceEach
    <2>8. CASE ~(j <= m) /\ ~(k <= m)
      <3>1. j - m = k - m
        BY <1>1, <1>7, <2>5, <2>6, <2>8 DEF OnceEach
      <3> QED
        BY <1>1, <3>1
    <2>9. CASE j <= m /\ ~(k <= m)
      BY <1>7, <2>1, <2>2, <2>3, <2>6, <2>9
    <2>10. CASE ~(j <= m) /\ k <= m
      BY <1>7, <2>1, <2>2, <2>4, <2>5, <2>10
    <2> QED
      BY <2>7, <2>8, <2>9, <2>10
  <1> QED
    BY <1>2, <1>4, <1>5, <1>6, <1>7 DEF u, m, n

LEMMA ToldIs ==
    ASSUME PagesInv, progress = "listing"
    PROVE  /\ Told \in Nat
           /\ adapter.total = "last" => Told = Len(site)
           /\ adapter.total # "last" /\ "vanished" \notin trouble => Told = Cardinality(steady)
           /\ adapter.total # "last" /\ "appeared" \notin trouble =>
                  \E first \in SUBSET Openings :
                      /\ IsFiniteSet(first) /\ Cardinality(first) = Told
                      /\ Range(site) \subseteq first /\ Range(pageRows) \subseteq first
           /\ trouble = {} /\ ~stuck => Told = Len(site)
  <1>1. site \in Seq(Openings) /\ OnceEach(site) /\ total \in Nat \cup {-1} /\ Len(site) \in Nat
    BY LenProperties DEF PagesInv, PagesTypes
  <1>2. IsFiniteSet(Range(site)) /\ Cardinality(Range(site)) = Len(site) /\ Range(site) \in SUBSET Openings
    BY <1>1, OnceEachCounts, RangesAreFinite
  <1>3. adapter.total \in {"first", "last", "same"}
    BY AdaptersAre DEF PagesInv, PagesTypes, IsAdapter
  <1>4. Told = IF adapter.total # "last" /\ total # -1 THEN total ELSE Len(site)
    BY <1>3 DEF Told
  <1>5. total = -1 => steady = Range(site) /\ Range(pageRows) = {}
    <2>1. ASSUME total = -1 PROVE pageRows = <<>> /\ steady = Range(site)
      BY <2>1 DEF PagesInv, TotalsAreTold, BeginsUnread, Reading
    <2>2. Range(<<>>) = {}
      BY DEF Range
    <2> QED
      BY <2>1, <2>2
  <1>6. Told \in Nat
    BY <1>1, <1>4
  <1>7. ASSUME adapter.total # "last", "vanished" \notin trouble PROVE Told = Cardinality(steady)
    BY <1>2, <1>4, <1>5, <1>7 DEF PagesInv, GainedInFront, Reading
  <1>8. ASSUME adapter.total # "last", "appeared" \notin trouble
        PROVE  \E first \in SUBSET Openings :
                   /\ IsFiniteSet(first) /\ Cardinality(first) = Told
                   /\ Range(site) \subseteq first /\ Range(pageRows) \subseteq first
    <2>1. CASE total = -1
      BY <1>2, <1>4, <1>5, <2>1
    <2>2. CASE total # -1
      BY <1>4, <1>8, <2>2 DEF PagesInv, LostFromTheFirst, Reading
    <2> QED
      BY <2>1, <2>2
  <1>9. ASSUME trouble = {}, ~stuck PROVE Told = Len(site)
    BY <1>4, <1>9 DEF PagesInv, ReadFromTheFront, Reading
  <1> QED
    BY <1>4, <1>6, <1>7, <1>8, <1>9

\* Where a fetch cannot be misled, what it reads was there the whole time.
LEMMA PageIsSteady ==
    ASSUME PagesInv, progress = "listing", ~Contradicted, Unmisled
    PROVE  Range(ThePage) \subseteq steady
  <1> DEFINE new == Len(site) - Cardinality(steady)
             n == Len(ThePage)
  <1>1. PagesTypes
    BY DEF PagesInv
  <1>2. /\ DOMAIN ThePage = 1..n /\ n \in Nat /\ ThePage \in Seq(Openings)
        /\ \A k \in 1..n : From + k \in DOMAIN site /\ ThePage[k] = site[From + k]
    BY <1>1, PageRowsAre
  <1>3. From \in Nat /\ Len(site) \in Nat /\ DOMAIN site = 1..Len(site)
    BY <1>1, FromIs, LenProperties DEF PagesTypes
  <1>4. /\ \A i \in DOMAIN site : site[i] \in steady <=> i > new
        /\ new \in 0..changes /\ changes \in Nat
        /\ adapter.total # "last" /\ total # -1 => total = Cardinality(steady)
    BY DEF PagesInv, PagesTypes, GainedInFront, Unmisled, Reading
  <1>5. page = 0 => steady = Range(site)
    BY DEF PagesInv, BeginsUnread
  <1>6. steady = Range(site) \/ new <= From
    <2>1. adapter.total \in {"first", "same"}
      BY <1>1, AdaptersAre DEF PagesTypes, IsAdapter, Unmisled
    <2>2. CASE adapter.total = "same"
      <3>1. total \in {-1, Len(site)}
        BY <2>2 DEF Contradicted
      <3>2. CASE total = -1
        BY <1>5, <3>2 DEF PagesInv, TotalsAreTold, Reading
      <3>3. CASE total # -1
        <4>1. new = 0
          BY <1>3, <1>4, <2>2, <3>1, <3>3
        <4> HIDE DEF new
        <4> QED
          BY <1>3, <4>1
      <3> QED
        BY <3>2, <3>3
    <2>3. CASE adapter.total = "first"
      <3>1. CASE stuck
        <4>1. new = 0
          BY <1>4, <2>3, <3>1 DEF Unmisled
        <4> HIDE DEF new
        <4> QED
          BY <1>3, <4>1
      <3>2. CASE ~stuck /\ page # 0
        <4>1. From = page * PageSize
          BY <1>1, <2>3, <3>2, AdaptersAre DEF From, Offset, PagesTypes, IsAdapter
        <4>2. page \in Nat /\ PageSize \in Nat \ {0}
          BY <1>1, BoardAssumption DEF PagesTypes
        <4>3. page * PageSize >= PageSize
          BY <3>2, <4>2
        <4>4. changes <= PageSize
          BY <2>3, <3>2 DEF Unmisled
        <4> HIDE DEF new
        <4> QED
          BY <1>3, <1>4, <4>1, <4>2, <4>3, <4>4
      <3> QED
        BY <1>5, <3>1, <3>2
    <2> QED
      BY <2>1, <2>2, <2>3
  <1> HIDE DEF new, n
  <1>7. CASE steady = Range(site)
    BY <1>1, <1>7, NewRowsAre
  <1>8. CASE new <= From
    <2>1. \A k \in 1..n : From + k > new
      BY <1>2, <1>3, <1>4, <1>8
    <2>2. \A k \in 1..n : ThePage[k] \in steady
      BY <1>2, <1>4, <2>1
    <2> QED
      BY <1>2, <2>2 DEF Range
  <1> QED
    BY <1>6, <1>7, <1>8

\* A quiet site goes on where the last page ended.
LEMMA QuietPage ==
    ASSUME PagesInv, progress = "listing", ~Contradicted, trouble = {}, ~stuck
    PROVE  LET n == Len(ThePage)
           IN /\ n \in Nat /\ got + n <= Len(site) /\ got \in Nat /\ Len(site) \in Nat
              /\ \A k \in 1..n : ThePage[k] = site[got + k]
              /\ New = ThePage
              /\ ThePage = <<>> => got = Len(site)
              /\ adapter.feed = "pages" =>
                     /\ got + n = IF (page + 1) * PageSize < Len(site) THEN (page + 1) * PageSize ELSE Len(site)
                     /\ n < PageSize => got + n = Len(site)
              /\ adapter.feed # "pages" => got + n = Len(site)
  <1> DEFINE n == Len(ThePage)
             L == Len(site)
  <1>1. PagesTypes
    BY DEF PagesInv
  <1>2. /\ From \in Nat /\ Width \in Nat /\ L \in Nat /\ DOMAIN site = 1..L /\ got \in Nat
        /\ page \in Nat /\ PageSize \in Nat \ {0} /\ FeedCap \in Nat \ {0}
    BY <1>1, FromIs, LenProperties, BoardAssumption DEF PagesTypes
  <1>3. /\ n = IF From >= L THEN 0 ELSE IF From + Width > L THEN L - From ELSE Width
        /\ n \in Nat /\ DOMAIN ThePage = 1..n /\ ThePage \in Seq(Openings)
        /\ \A k \in 1..n : From + k \in DOMAIN site /\ ThePage[k] = site[From + k]
    BY <1>1, PageRowsAre
  <1>4. /\ got <= L /\ Len(pageRows) = got /\ \A k \in 1..got : pageRows[k] = site[k]
        /\ adapter.feed = "pages" => got = IF page * PageSize < L THEN page * PageSize ELSE L
    BY DEF PagesInv, ReadFromTheFront, Reading
  <1>5. page * PageSize \in Nat /\ (page + 1) * PageSize = page * PageSize + PageSize
    BY <1>2
  <1>6. From = got \/ From = page * PageSize
    BY DEF From, Offset
  <1>7. adapter.feed \in {"pages", "whole", "capped"}
    BY <1>1, AdaptersAre DEF PagesTypes, IsAdapter
  <1> HIDE DEF n, L
  <1>8. ASSUME adapter.feed = "pages"
        PROVE  /\ got + n <= L /\ (n = 0 => got = L) /\ (n < PageSize => got + n = L)
               /\ n # 0 => From = got
               /\ got + n = IF (page + 1) * PageSize < L THEN (page + 1) * PageSize ELSE L
    <2>1. Width = PageSize
      BY <1>8 DEF Width
    <2>2. (got < L => From = got) /\ (got = L => From >= L)
      BY <1>2, <1>4, <1>5, <1>6, <1>8
    <2>3. n = IF got + PageSize > L THEN L - got ELSE PageSize
      BY <1>2, <1>3, <1>4, <2>1, <2>2
    <2>4. n # 0 => From = got
      BY <1>2, <1>3, <1>4, <2>2, <2>3
    <2>5. /\ got + n <= L /\ (n = 0 => got = L) /\ (n < PageSize => got + n = L)
      BY <1>2, <1>3, <1>4, <2>3
    <2>6. got + n = IF (page + 1) * PageSize < L THEN (page + 1) * PageSize ELSE L
      <3> DEFINE sofar == page * PageSize
                 after == (page + 1) * PageSize
      <3>1. sofar \in Nat /\ after = sofar + PageSize /\ got = IF sofar < L THEN sofar ELSE L
        BY <1>4, <1>5, <1>8
      <3> HIDE DEF sofar, after
      <3>2. got + n = IF after < L THEN after ELSE L
        BY <1>2, <2>3, <3>1
      <3> QED
        BY <3>2 DEF after
    <2> QED
      BY <1>8, <2>4, <2>5, <2>6
  <1>9. ASSUME adapter.feed # "pages"
        PROVE  n = L /\ got = 0 /\ From = 0
    <2>1. page = 0
      BY <1>9 DEF PagesInv, FeedsAreOnePage
    <2>2. got = 0 /\ From = 0
      <3>1. got = 0
        BY <2>1 DEF PagesInv, BeginsUnread
      <3>2. page * PageSize = 0
        BY <1>2, <2>1
      <3> QED
        BY <1>6, <3>1, <3>2
    <2>3. Width = L \/ (Width = FeedCap /\ n < FeedCap)
      <3>1. CASE adapter.feed = "whole"
        BY <3>1 DEF Width, L
      <3>2. CASE adapter.feed = "capped"
        BY <1>2, <1>3, <3>2 DEF Width, Contradicted, n
      <3> QED
        BY <1>7, <1>9, <3>1, <3>2
    <2>4. n = L
      BY <1>2, <1>3, <2>2, <2>3
    <2> QED
      BY <2>2, <2>4
  <1>10. /\ got + n <= L /\ (n = 0 => got = L)
         /\ \A k \in 1..n : ThePage[k] = site[got + k] /\ got + k \in DOMAIN site
    <2>1. got + n <= L /\ (n = 0 => got = L) /\ (n # 0 => From = got)
      BY <1>2, <1>3, <1>8, <1>9
    <2>2. ASSUME NEW k \in 1..n PROVE ThePage[k] = site[got + k] /\ got + k \in DOMAIN site
      BY <1>3, <2>1
    <2> QED
      BY <2>1, <2>2
  <1>11. New = ThePage
    <2>1. Range(ThePage) \cap Range(pageRows) = {}
      <3> SUFFICES ASSUME NEW x \in Range(ThePage), x \in Range(pageRows) PROVE FALSE
        OBVIOUS
      <3>1. PICK k \in 1..n : x = site[got + k] /\ got + k \in DOMAIN site
        BY <1>3, <1>10 DEF Range
      <3>2. PICK j \in 1..got : x = site[j] /\ j \in DOMAIN site
        <4>1. DOMAIN pageRows = 1..got
          BY <1>1, <1>4, LenProperties DEF PagesTypes
        <4>2. \A j \in 1..got : j \in DOMAIN site
          BY <1>2, <1>4
        <4> QED
          BY <1>4, <4>1, <4>2 DEF Range
      <3>3. j = got + k
        BY <1>1, <3>1, <3>2 DEF PagesTypes, OnceEach
      <3> QED
        BY <1>2, <3>3
    <2> QED
      BY <1>1, <2>1, NewRowsAre
  <1>12. ThePage = <<>> => n = 0
    BY <1>3, EmptySeq DEF n
  <1>13. adapter.feed # "pages" => got + n = L
    BY <1>2, <1>9
  <1> QED
    BY <1>2, <1>3, <1>8, <1>10, <1>11, <1>12, <1>13 DEF n, L

----------------------------------------------------------------------------
LEMMA PagesInit == BoardInit => PagesInv
  <1> SUFFICES ASSUME BoardInit PROVE PagesInv
    OBVIOUS
  <1>1. PICK s \in SUBSET Openings : site = SetToSeq(s)
    BY DEF BoardInit
  <1>2. IsFiniteSet(s) /\ Cardinality(s) \in Nat
    BY <1>1, BoardAssumption, FS_Subset, FS_CardinalityType
  <1>3. site \in [1..Cardinality(s) -> s] /\ IsInjective(site)
    <2>1. IsFiniteSet(1..Cardinality(s)) /\ Cardinality(1..Cardinality(s)) = Cardinality(s)
      BY <1>2, FS_Interval
    <2>2. ExistsBijection(1..Cardinality(s), s)
      BY <1>2, <2>1, FS_SameCardinalityBij
    <2>3. \E f \in [1..Cardinality(s) -> s] : IsInjective(f)
      BY <2>2 DEF ExistsBijection, Bijection, Injection
    <2> QED
      BY <1>1, <2>3 DEF SetToSeq
  <1>4. site \in Seq(Openings) /\ OnceEach(site)
    <2>1. site \in [1..Cardinality(s) -> Openings]
      BY <1>1, <1>3
    <2> QED
      BY <1>2, <1>3, <2>1, SeqDef DEF OnceEach, IsInjective
  <1>5. /\ adapter \in Adapters /\ stuck \in BOOLEAN /\ progress = "listing" /\ page = 0 /\ pageRows = <<>>
        /\ got = 0 /\ total = -1 /\ steady = Range(site) /\ trouble = {} /\ changes = 0
    BY DEF BoardInit
  <1>6. PagesTypes
    <2>1. pageRows \in Seq(Openings)
      BY <1>5, EmptySeq
    <2> QED
      BY <1>4, <1>5, <2>1 DEF PagesTypes
  <1>7. Len(site) \in Nat /\ Cardinality(steady) = Len(site) /\ DOMAIN site = 1..Len(site)
    BY <1>4, <1>5, OnceEachCounts, LenProperties
  <1>8. Len(pageRows) = 0 /\ Range(pageRows) = {} /\ OnceEach(pageRows)
    BY <1>5 DEF Range, OnceEach
  <1>9. BeginsUnread /\ FeedsAreOnePage /\ TotalsAreTold /\ RowsAreOfTheSite /\ RememberedOnce
    BY <1>5, <1>8 DEF BeginsUnread, FeedsAreOnePage, TotalsAreTold, RowsAreOfTheSite, RememberedOnce
  <1>10. GainedInFront
    <2>1. \A i \in DOMAIN site : site[i] \in steady
      BY <1>5 DEF Range
    <2>2. \A i \in DOMAIN site : i > 0
      BY <1>7
    <2>3. Len(site) - Cardinality(steady) = 0
      BY <1>7
    <2> QED
      BY <1>5, <2>1, <2>2, <2>3 DEF GainedInFront
  <1>11. LostFromTheFirst
    BY <1>5 DEF LostFromTheFirst
  <1>12. ReadFromTheFront
    <2>1. 0 * PageSize = 0 /\ \A k \in 1..0 : FALSE
      BY BoardAssumption
    <2> QED
      BY <1>5, <1>7, <1>8, <2>1 DEF ReadFromTheFront
  <1>13. PagesMissNothing
    BY <1>5 DEF PagesMissNothing, QuietSitesAreReadWhole, AnnouncedPostingsAreAnswered,
                FirstTotalsMissNothing, NothingIsAnsweredTwice
  <1> QED
    BY <1>6, <1>9, <1>10, <1>11, <1>12, <1>13 DEF PagesInv

\* A fetch that has not answered owes nothing.
LEMMA NotAnsweredNext == ASSUME progress' # "answered" PROVE PagesMissNothing'
  BY DEF PagesMissNothing, QuietSitesAreReadWhole, AnnouncedPostingsAreAnswered,
         FirstTotalsMissNothing, NothingIsAnsweredTwice

LEMMA ListingEnds == ASSUME PagesInv, EndOfListing PROVE PagesInv'
  <1>1. /\ progress = "listing" /\ progress' = "listed" /\ total' = Told /\ ~Contradicted /\ Over
        /\ UNCHANGED <<adapter, site, stuck, page, pageRows, got, steady, trouble, changes>>
    BY DEF EndOfListing
  <1>2. /\ Told \in Nat
        /\ adapter.total = "last" => Told = Len(site)
        /\ adapter.total # "last" /\ "vanished" \notin trouble => Told = Cardinality(steady)
        /\ adapter.total # "last" /\ "appeared" \notin trouble =>
               \E first \in SUBSET Openings :
                   /\ IsFiniteSet(first) /\ Cardinality(first) = Told
                   /\ Range(site) \subseteq first /\ Range(pageRows) \subseteq first
        /\ trouble = {} /\ ~stuck => Told = Len(site)
    BY <1>1, ToldIs
  <1>3. PagesTypes'
    BY <1>1, <1>2 DEF PagesInv, PagesTypes
  <1>4. BeginsUnread' /\ FeedsAreOnePage'
    BY <1>1 DEF BeginsUnread, FeedsAreOnePage
  <1>5. TotalsAreTold'
    BY <1>1, <1>2 DEF TotalsAreTold
  <1>6. GainedInFront'
    BY <1>1, <1>2 DEF PagesInv, GainedInFront
  <1>7. RowsAreOfTheSite' /\ RememberedOnce'
    BY <1>1 DEF PagesInv, RowsAreOfTheSite, RememberedOnce, Reading, Unmisled
  <1>8. LostFromTheFirst'
    BY <1>1, <1>2 DEF LostFromTheFirst
  <1>9. ReadFromTheFront'
    <2> SUFFICES ASSUME trouble = {}, ~stuck PROVE ReadFromTheFront'
      BY <1>1 DEF ReadFromTheFront
    <2>1. got = Len(site)
      <3>1. New = ThePage /\ (ThePage = <<>> => got = Len(site))
        BY <1>1, QuietPage
      <3> QED
        BY <1>1, <3>1 DEF Over
    <2> QED
      BY <1>1, <1>2, <2>1 DEF PagesInv, ReadFromTheFront, Reading
  <1>10. PagesMissNothing'
    BY <1>1, NotAnsweredNext
  <1> QED
    BY <1>3, <1>4, <1>5, <1>6, <1>7, <1>8, <1>9, <1>10 DEF PagesInv

\* A fetch that raises, or that keeps what it has when a page is refused.
LEMMA ListingStops ==
    ASSUME PagesInv, progress \in {"listing", "listed"},
           progress' = "raised"
           \/ (progress = "listing" /\ progress' = "listed" /\ adapter.check # "equal" /\ trouble' # {}),
           UNCHANGED <<adapter, site, stuck, page, pageRows, got, total, steady, changes>>,
           "vanished" \in trouble <=> "vanished" \in trouble', "appeared" \in trouble <=> "appeared" \in trouble'
    PROVE  PagesInv'
  <1>1. PagesTypes'
    BY DEF PagesInv, PagesTypes
  <1>2. BeginsUnread' /\ FeedsAreOnePage'
    BY DEF BeginsUnread, FeedsAreOnePage
  <1>3. TotalsAreTold'
    BY DEF PagesInv, TotalsAreTold, Reading
  <1>4. GainedInFront'
    BY DEF PagesInv, GainedInFront, Reading
  <1>5. RowsAreOfTheSite' /\ RememberedOnce'
    BY DEF PagesInv, RowsAreOfTheSite, RememberedOnce, Reading, Unmisled
  <1>6. LostFromTheFirst'
    BY DEF PagesInv, LostFromTheFirst, Reading
  <1>7. ReadFromTheFront'
    BY DEF ReadFromTheFront, Reading
  <1>8. PagesMissNothing'
    BY NotAnsweredNext
  <1> QED
    BY <1>1, <1>2, <1>3, <1>4, <1>5, <1>6, <1>7, <1>8 DEF PagesInv

LEMMA PageRefused == ASSUME PagesInv, Refused \/ Broken PROVE PagesInv'
  <1>1. /\ progress = "listing"
        /\ UNCHANGED <<adapter, site, stuck, page, pageRows, got, total, steady, changes>>
        /\ trouble' = trouble \cup {"refused"} \/ trouble' = trouble \cup {"broken"}
        /\ progress' = "raised"
           \/ (progress' = "listed" /\ (adapter.refused = "keep" \/ adapter.broken = "keep"))
    BY DEF Refused, Broken
  <1>2. adapter.refused = "keep" \/ adapter.broken = "keep" => adapter.check # "equal"
    BY AdaptersAre DEF IsAdapter, PagesInv, PagesTypes
  <1> QED
    BY <1>1, <1>2, ListingStops

LEMMA SiteGains == ASSUME PagesInv, NEW o \in Openings, Appear(o) PROVE PagesInv'
  <1>1. /\ progress = "listing" /\ page > 0 /\ o \notin Range(site)
        /\ site' = <<o>> \o site /\ trouble' = trouble \cup {"appeared"} /\ changes' = changes + 1
        /\ UNCHANGED <<adapter, stuck, progress, page, pageRows, got, total, steady>>
    BY DEF Appear
  <1>2. /\ site \in Seq(Openings) /\ OnceEach(site) /\ Len(site) \in Nat /\ DOMAIN site = 1..Len(site)
        /\ changes \in Nat /\ steady \in SUBSET Range(site)
    BY LenProperties DEF PagesInv, PagesTypes
  <1>3. <<o>> \in Seq(Openings) /\ Len(<<o>>) = 1 /\ Range(<<o>>) = {o} /\ OnceEach(<<o>>)
    BY DEF Range, OnceEach
  <1>4. /\ site' \in Seq(Openings) /\ Len(site') = Len(site) + 1 /\ Range(site') = {o} \cup Range(site)
        /\ \A k \in 1..1 : site'[k] = <<o>>[k]
        /\ \A k \in 1..Len(site) : site'[1 + k] = site[k]
        /\ OnceEach(site')
    <2> DEFINE one == <<o>>
    <2>1. one \in Seq(Openings) /\ OnceEach(one) /\ Range(one) \cap Range(site) = {} /\ site' = one \o site
      BY <1>1, <1>3
    <2>2. Len(one) = 1 /\ Range(one) = {o}
      BY <1>3
    <2> HIDE DEF one
    <2>3. /\ one \o site \in Seq(Openings) /\ Len(one \o site) = Len(one) + Len(site)
          /\ Range(one \o site) = Range(one) \cup Range(site)
          /\ \A k \in 1..Len(one) : (one \o site)[k] = one[k]
          /\ \A k \in 1..Len(site) : (one \o site)[Len(one) + k] = site[k]
          /\ OnceEach(one \o site)
      BY <1>2, <2>1, Joined
    <2> QED
      BY <1>2, <2>1, <2>2, <2>3 DEF one
  <1>5. PagesTypes'
    BY <1>1, <1>2, <1>4 DEF PagesInv, PagesTypes
  <1>6. BeginsUnread' /\ FeedsAreOnePage' /\ TotalsAreTold'
    BY <1>1 DEF PagesInv, BeginsUnread, FeedsAreOnePage, TotalsAreTold, Reading
  <1>7. GainedInFront'
    <2> SUFFICES ASSUME "vanished" \notin trouble PROVE GainedInFront'
      BY <1>1 DEF GainedInFront
    <2> DEFINE new == Len(site) - Cardinality(steady)
    <2>1. /\ \A i \in DOMAIN site : site[i] \in steady <=> i > new
          /\ new \in 0..changes
          /\ Reading /\ adapter.total # "last" /\ total # -1 => total = Cardinality(steady)
      BY DEF PagesInv, GainedInFront
    <2>2. Len(site') - Cardinality(steady) = new + 1
      <3>1. Cardinality(steady) \in Nat
        BY <1>2, FS_Subset, FS_CardinalityType, RangesAreFinite
      <3> QED
        BY <1>2, <1>4, <3>1
    <2> HIDE DEF new
    <2>3. ASSUME NEW i \in DOMAIN site' PROVE site'[i] \in steady <=> i > new + 1
      <3>1. i \in 1..(Len(site) + 1)
        BY <1>2, <1>4, LenProperties
      <3>2. CASE i = 1
        <4>1. site'[i] = o
          BY <1>4, <3>2
        <4>2. ~(1 > new + 1)
          BY <1>2, <2>1
        <4> QED
          BY <1>1, <1>2, <3>2, <4>1, <4>2
      <3>3. CASE i # 1
        <4>1. i - 1 \in 1..Len(site) /\ 1 + (i - 1) = i
          BY <1>2, <3>1, <3>3
        <4>2. site'[i] = site[i - 1]
          BY <1>4, <4>1
        <4>3. i - 1 > new <=> i > new + 1
          BY <1>2, <2>1, <3>1
        <4> QED
          BY <1>2, <2>1, <4>1, <4>2, <4>3
      <3> QED
        BY <3>2, <3>3
    <2>4. new + 1 \in 0..(changes + 1)
      BY <1>2, <2>1
    <2> QED
      BY <1>1, <2>1, <2>2, <2>3, <2>4 DEF GainedInFront, Reading
  <1>8. RowsAreOfTheSite'
    <2>1. Unmisled' => Unmisled
      BY <1>1, <1>2, BoardAssumption DEF Unmisled
    <2> QED
      BY <1>1, <1>4, <2>1 DEF PagesInv, RowsAreOfTheSite, Reading
  <1>9. LostFromTheFirst' /\ ReadFromTheFront'
    BY <1>1 DEF LostFromTheFirst, ReadFromTheFront
  <1>10. RememberedOnce'
    BY <1>1 DEF PagesInv, RememberedOnce, Reading
  <1>11. PagesMissNothing'
    BY <1>1, NotAnsweredNext
  <1> QED
    BY <1>5, <1>6, <1>7, <1>8, <1>9, <1>10, <1>11 DEF PagesInv

LEMMA SiteLoses == ASSUME PagesInv, NEW o \in Openings, Vanish(o) PROVE PagesInv'
  <1>1. /\ progress = "listing" /\ page > 0
        /\ site' = Those(site, Openings \ {o}) /\ steady' = steady \ {o}
        /\ trouble' = trouble \cup {"vanished"} /\ changes' = changes + 1
        /\ UNCHANGED <<adapter, stuck, progress, page, pageRows, got, total>>
    BY DEF Vanish
  <1>2. site \in Seq(Openings) /\ OnceEach(site) /\ changes \in Nat /\ steady \in SUBSET Range(site)
    BY DEF PagesInv, PagesTypes
  <1>3. site' \in Seq(Openings) /\ OnceEach(site') /\ Range(site') = Range(site) \cap (Openings \ {o})
    BY <1>1, <1>2, ThoseIs
  <1>4. steady' \in SUBSET Range(site')
    BY <1>1, <1>2, <1>3, RangesAreFinite
  <1>5. PagesTypes'
    <2>1. /\ adapter' \in Adapters /\ stuck' \in BOOLEAN /\ pageRows' \in Seq(Openings) /\ page' \in Nat
          /\ progress' \in {"listing", "listed", "answered", "raised"}
          /\ got' \in Nat /\ total' \in Nat \cup {-1} /\ changes' \in Nat
      BY <1>1, <1>2 DEF PagesInv, PagesTypes
    <2> QED
      BY <1>3, <1>4, <2>1 DEF PagesTypes
  <1>6. BeginsUnread' /\ FeedsAreOnePage' /\ TotalsAreTold'
    BY <1>1 DEF PagesInv, BeginsUnread, FeedsAreOnePage, TotalsAreTold, Reading
  <1>7. GainedInFront' /\ RowsAreOfTheSite' /\ ReadFromTheFront'
    BY <1>1 DEF GainedInFront, RowsAreOfTheSite, ReadFromTheFront, Unmisled
  <1>8. LostFromTheFirst'
    BY <1>1, <1>3 DEF PagesInv, LostFromTheFirst, Reading
  <1>9. RememberedOnce'
    BY <1>1 DEF PagesInv, RememberedOnce, Reading
  <1>10. PagesMissNothing'
    BY <1>1, NotAnsweredNext
  <1> QED
    BY <1>5, <1>6, <1>7, <1>8, <1>9, <1>10 DEF PagesInv

\* What a page adds to the rows.
Added == IF adapter.fresh \/ adapter.enough = "rows" THEN New ELSE ThePage

LEMMA AddedRowsAre ==
    ASSUME PagesInv
    PROVE  /\ Added \in Seq(Openings) /\ pageRows \o Added \in Seq(Openings)
           /\ Range(Added) \subseteq Range(ThePage) /\ Range(ThePage) \subseteq Range(site)
           /\ Range(pageRows \o Added) = Range(pageRows) \cup Range(Added)
           /\ Len(pageRows \o Added) = Len(pageRows) + Len(Added)
           /\ \A k \in 1..Len(pageRows) : (pageRows \o Added)[k] = pageRows[k]
           /\ \A k \in 1..Len(Added) : (pageRows \o Added)[Len(pageRows) + k] = Added[k]
           /\ adapter.fresh /\ OnceEach(pageRows) => OnceEach(pageRows \o Added)
  <1>1. PagesTypes /\ pageRows \in Seq(Openings)
    BY DEF PagesInv, PagesTypes
  <1>2. /\ ThePage \in Seq(Openings) /\ Range(ThePage) \subseteq Range(site)
        /\ New \in Seq(Openings) /\ OnceEach(New) /\ Range(New) = Range(ThePage) \ Range(pageRows)
    BY <1>1, NewRowsAre
  <1>3. Added \in Seq(Openings) /\ Range(Added) \subseteq Range(ThePage)
    BY <1>2 DEF Added
  <1>4. adapter.fresh => OnceEach(Added) /\ Range(pageRows) \cap Range(Added) = {}
    BY <1>2 DEF Added
  <1>5. /\ pageRows \o Added \in Seq(Openings)
        /\ Range(pageRows \o Added) = Range(pageRows) \cup Range(Added)
        /\ Len(pageRows \o Added) = Len(pageRows) + Len(Added)
        /\ \A k \in 1..Len(pageRows) : (pageRows \o Added)[k] = pageRows[k]
        /\ \A k \in 1..Len(Added) : (pageRows \o Added)[Len(pageRows) + k] = Added[k]
    BY <1>1, <1>3, Joined
  <1>6. adapter.fresh /\ OnceEach(pageRows) => OnceEach(pageRows \o Added)
    BY <1>1, <1>3, <1>4, Joined
  <1> QED
    BY <1>2, <1>3, <1>5, <1>6

\* A quiet site, after one more page.
LEMMA QuietPageRead ==
    ASSUME PagesInv, ReadPage, trouble = {}, ~stuck
    PROVE  ReadFromTheFront'
  <1> DEFINE n == Len(ThePage)
             L == Len(site)
             g == got + n
  <1>1. /\ progress = "listing" /\ ~Contradicted
        /\ pageRows' = pageRows \o Added /\ got' = g /\ page' = page + 1 /\ total' = Told
        /\ progress' = IF Enough \/ (adapter.short = "end" /\ n < PageSize) THEN "listed"
                       ELSE IF page' = MaxPages THEN (IF adapter.cap = "raise" THEN "raised" ELSE "listed")
                       ELSE "listing"
        /\ UNCHANGED <<adapter, site, stuck, steady, trouble, changes>>
    BY DEF ReadPage, Added
  <1>2. /\ n \in Nat /\ g <= L /\ got \in Nat /\ L \in Nat
        /\ \A k \in 1..n : ThePage[k] = site[got + k]
        /\ New = ThePage
        /\ adapter.feed = "pages" =>
               /\ g = IF (page + 1) * PageSize < L THEN (page + 1) * PageSize ELSE L
               /\ n < PageSize => g = L
        /\ adapter.feed # "pages" => g = L
    BY <1>1, QuietPage
  <1>3. Added = ThePage
    BY <1>2 DEF Added
  <1>4. Told = L
    BY <1>1, ToldIs
  <1>5. PagesTypes /\ page \in Nat /\ PageSize \in Nat \ {0} /\ MaxPages \in Nat \ {0}
    BY BoardAssumption DEF PagesInv, PagesTypes
  <1>6. Len(pageRows) = got /\ \A k \in 1..got : pageRows[k] = site[k]
    BY <1>1 DEF PagesInv, ReadFromTheFront, Reading
  <1>7. /\ pageRows' \in Seq(Openings) /\ Len(pageRows') = g
        /\ \A k \in 1..got : pageRows'[k] = pageRows[k]
        /\ \A k \in 1..n : pageRows'[got + k] = ThePage[k]
    BY <1>1, <1>3, <1>6, AddedRowsAre
  <1> HIDE DEF n, L
  <1>8. \A k \in 1..g : pageRows'[k] = site[k]
    <2> SUFFICES ASSUME NEW k \in 1..g PROVE pageRows'[k] = site[k]
      OBVIOUS
    <2>1. CASE k <= got
      <3>1. k \in 1..got
        BY <1>2, <2>1
      <3> QED
        BY <1>6, <1>7, <3>1
    <2>2. CASE ~(k <= got)
      <3>1. k - got \in 1..n /\ got + (k - got) = k
        BY <1>2, <2>2
      <3> QED
        BY <1>2, <1>7, <3>1
    <2> QED
      BY <2>1, <2>2
  <1> HIDE DEF g
  <1>9. g \in Nat
    BY <1>2 DEF g
  <1>10. Cardinality(Range(pageRows')) = g
    <2>1. DOMAIN pageRows' = 1..g /\ DOMAIN site = 1..L
      BY <1>5, <1>7, LenProperties DEF PagesTypes, L
    <2>2. \A k \in 1..g : k \in DOMAIN site
      BY <1>2, <1>9, <2>1
    <2>3. OnceEach(pageRows')
      BY <1>5, <1>8, <2>1, <2>2 DEF PagesTypes, OnceEach
    <2> QED
      BY <1>7, <2>3, OnceEachCounts
  <1>11. ASSUME Enough PROVE g = L
    <2>1. CASE adapter.feed # "pages"
      BY <1>2, <2>1
    <2>2. CASE adapter.feed = "pages"
      <3>1. (page + 1) * PageSize \in Nat
        BY <1>5
      <3>2. g >= L \/ (page + 1) * PageSize >= L
        BY <1>1, <1>4, <1>10, <1>11, <2>2 DEF Enough, L
      <3> QED
        BY <1>2, <1>9, <2>2, <3>1, <3>2
    <2> QED
      BY <2>1, <2>2
  <1>12. adapter.short = "end" /\ n < PageSize => g = L
    BY <1>2
  <1>13. progress' = "listed" =>
            g = L \/ (adapter.feed = "pages" /\ page' = MaxPages /\ L > MaxPages * PageSize)
    <2> SUFFICES ASSUME page' = MaxPages, g # L PROVE adapter.feed = "pages" /\ L > MaxPages * PageSize
      BY <1>1, <1>11, <1>12
    <2>1. adapter.feed = "pages" /\ g = (page + 1) * PageSize /\ (page + 1) * PageSize < L
      BY <1>2
    <2>2. MaxPages * PageSize \in Nat /\ MaxPages = page + 1
      BY <1>1, <1>5
    <2> QED
      BY <1>2, <2>1, <2>2
  <1> QED
    BY <1>1, <1>2, <1>4, <1>7, <1>8, <1>13 DEF ReadFromTheFront, L

LEMMA PageIsRead == ASSUME PagesInv, ReadPage PROVE PagesInv'
  <1>1. /\ progress = "listing" /\ ~Contradicted
        /\ pageRows' = pageRows \o Added
        /\ got' = got + Len(ThePage) /\ page' = page + 1 /\ total' = Told
        /\ progress' \in {"listing", "listed", "raised"}
        /\ progress' = "listing" => ~Enough
        /\ UNCHANGED <<adapter, site, stuck, steady, trouble, changes>>
    BY DEF ReadPage, Added
  <1>2. /\ Told \in Nat
        /\ adapter.total = "last" => Told = Len(site)
        /\ adapter.total # "last" /\ "vanished" \notin trouble => Told = Cardinality(steady)
    BY <1>1, ToldIs
  <1>3. /\ pageRows' \in Seq(Openings) /\ Range(pageRows') = Range(pageRows) \cup Range(Added)
        /\ Range(Added) \subseteq Range(ThePage) /\ Range(ThePage) \subseteq Range(site)
        /\ adapter.fresh /\ OnceEach(pageRows) => OnceEach(pageRows')
    BY <1>1, AddedRowsAre
  <1>4. PagesTypes'
    <2>1. Len(ThePage) \in Nat
      BY PageRowsAre DEF PagesInv
    <2> QED
      BY <1>1, <1>2, <1>3, <2>1 DEF PagesInv, PagesTypes
  <1>5. BeginsUnread'
    <2>1. page + 1 # 0
      BY DEF PagesInv, PagesTypes
    <2> QED
      BY <1>1, <2>1 DEF BeginsUnread
  <1>6. FeedsAreOnePage'
    BY <1>1 DEF FeedsAreOnePage, Enough
  <1>7. TotalsAreTold'
    BY <1>1, <1>2 DEF TotalsAreTold
  <1>8. GainedInFront'
    BY <1>1, <1>2 DEF PagesInv, GainedInFront
  <1>9. RowsAreOfTheSite'
    <2>1. Unmisled => Range(ThePage) \subseteq steady
      BY <1>1, PageIsSteady
    <2> QED
      BY <1>1, <1>3, <2>1 DEF PagesInv, RowsAreOfTheSite, Reading, Unmisled
  <1>10. LostFromTheFirst'
    <2> SUFFICES ASSUME adapter.total # "last", "appeared" \notin trouble PROVE LostFromTheFirst'
      BY <1>1 DEF LostFromTheFirst
    <2>1. PICK first \in SUBSET Openings :
              /\ IsFiniteSet(first) /\ Cardinality(first) = Told
              /\ Range(site) \subseteq first /\ Range(pageRows) \subseteq first
      BY <1>1, ToldIs
    <2>2. Range(pageRows') \subseteq first
      BY <1>3, <2>1
    <2> QED
      BY <1>1, <2>1, <2>2 DEF LostFromTheFirst
  <1>11. RememberedOnce'
    BY <1>1, <1>3 DEF PagesInv, RememberedOnce, Reading
  <1>12. ReadFromTheFront'
    <2>1. CASE trouble = {} /\ ~stuck
      BY <2>1, QuietPageRead
    <2>2. CASE ~(trouble = {} /\ ~stuck)
      BY <1>1, <2>2 DEF ReadFromTheFront
    <2> QED
      BY <2>1, <2>2
  <1>13. PagesMissNothing'
    BY <1>1, NotAnsweredNext
  <1> QED
    BY <1>4, <1>5, <1>6, <1>7, <1>8, <1>9, <1>10, <1>11, <1>12, <1>13 DEF PagesInv

----------------------------------------------------------------------------
\* Whoever must account for the rows and does has the postings that were there the whole time.
LEMMA AccountedIsWhole ==
    ASSUME PagesInv, progress = "listed", Accounted, adapter.check = "equal"
    PROVE  /\ "vanished" \notin trouble /\ (adapter.total = "first" => changes <= (IF stuck THEN 0 ELSE PageSize))
                 => steady \subseteq Range(pageRows)
           /\ adapter.total # "last" /\ "appeared" \notin trouble => steady \subseteq Range(pageRows)
  <1>1. Cardinality(Range(pageRows)) = total
    BY DEF Accounted
  <1>2. /\ total # -1 /\ (adapter.total = "last" => total = Len(site))
        /\ adapter.total \in {"first", "last", "same"}
    BY AdaptersAre DEF PagesInv, PagesTypes, TotalsAreTold, Reading, IsAdapter
  <1>3. /\ IsFiniteSet(Range(site)) /\ Cardinality(Range(site)) = Len(site)
        /\ steady \in SUBSET Range(site)
    BY OnceEachCounts DEF PagesInv, PagesTypes
  <1>4. IsFiniteSet(steady)
    BY <1>3, FS_Subset
  <1>5. ASSUME "vanished" \notin trouble, adapter.total = "first" => changes <= (IF stuck THEN 0 ELSE PageSize)
        PROVE  steady \subseteq Range(pageRows)
    <2>1. CASE adapter.total = "last"
      <3>1. Range(pageRows) \in SUBSET Range(site)
        BY <1>5 DEF PagesInv, RowsAreOfTheSite, Reading
      <3>2. Range(site) = Range(pageRows)
        BY <1>1, <1>2, <1>3, <2>1, <3>1, FS_Subset
      <3> QED
        BY <1>3, <3>2
    <2>2. CASE adapter.total # "last"
      <3>1. Range(pageRows) \in SUBSET steady
        BY <1>5, <2>2 DEF PagesInv, RowsAreOfTheSite, Reading, Unmisled
      <3>2. total = Cardinality(steady)
        BY <1>2, <1>5, <2>2 DEF PagesInv, GainedInFront, Reading
      <3> QED
        BY <1>1, <1>4, <3>1, <3>2, FS_Subset
    <2> QED
      BY <2>1, <2>2
  <1>6. ASSUME adapter.total # "last", "appeared" \notin trouble PROVE steady \subseteq Range(pageRows)
    <2>1. PICK first \in SUBSET Openings :
              /\ IsFiniteSet(first) /\ Cardinality(first) = total
              /\ Range(site) \subseteq first /\ Range(pageRows) \subseteq first
      BY <1>2, <1>6 DEF PagesInv, LostFromTheFirst, Reading
    <2>2. first = Range(pageRows)
      BY <1>1, <2>1, FS_Subset
    <2> QED
      BY <1>3, <2>1, <2>2
  <1> QED
    BY <1>5, <1>6

\* The rows of what is left after the check of where they are.
Kept == IF adapter.hk THEN Those(pageRows, Openings \ Elsewhere) ELSE pageRows

LEMMA AnswerIs ==
    ASSUME PagesInv, Answered
    PROVE  /\ progress = "listed" /\ Accounted /\ progress' \in {"answered", "raised"}
           /\ UNCHANGED <<adapter, site, stuck, page, got, total, steady, changes>>
           /\ trouble' = trouble \/ trouble' = trouble \cup {"detail"}
           /\ pageRows' \in Seq(Openings)
           /\ progress' = "answered" =>
                  /\ OnceEach(pageRows) => OnceEach(pageRows')
                  /\ adapter.check = "equal" \/ trouble' = {} => Range(pageRows') = Here(Range(pageRows))
  <1>1. /\ progress = "listed" /\ Accounted
        /\ UNCHANGED <<adapter, site, stuck, page, got, total, steady, changes>>
        /\ trouble' = trouble \/ trouble' = trouble \cup {"detail"}
        /\ progress' \in {"answered", "raised"}
        /\ \/ progress' = "answered" /\ pageRows' = Kept
           \/ progress' = "raised" /\ pageRows' = pageRows
           \/ /\ progress' = "answered" /\ adapter.detail = "skip" /\ trouble' = trouble \cup {"detail"}
              /\ \E o \in Range(Kept) : pageRows' = Those(Kept, Openings \ {o})
    BY DEF Answered, Kept
  <1>2. adapter.check = "equal" => adapter.detail # "skip"
    BY AdaptersAre DEF PagesInv, PagesTypes, IsAdapter
  <1>3. pageRows \in Seq(Openings) /\ Range(pageRows) \subseteq Openings
    BY RangesAreFinite DEF PagesInv, PagesTypes
  <1>4. Kept \in Seq(Openings) /\ (OnceEach(pageRows) => OnceEach(Kept)) /\ Range(Kept) = Here(Range(pageRows))
    <2>1. /\ Those(pageRows, Openings \ Elsewhere) \in Seq(Openings)
          /\ OnceEach(pageRows) => OnceEach(Those(pageRows, Openings \ Elsewhere))
          /\ Range(Those(pageRows, Openings \ Elsewhere)) = Range(pageRows) \cap (Openings \ Elsewhere)
      BY <1>3, ThoseIs
    <2> QED
      BY <1>3, <2>1 DEF Kept, Here
  <1>5. CASE pageRows' = Kept
    BY <1>1, <1>4, <1>5
  <1>6. CASE progress' = "raised" /\ pageRows' = pageRows
    BY <1>1, <1>3, <1>6
  <1>7. CASE /\ progress' = "answered" /\ adapter.detail = "skip" /\ trouble' = trouble \cup {"detail"}
             /\ \E o \in Range(Kept) : pageRows' = Those(Kept, Openings \ {o})
    <2>1. PICK o \in Range(Kept) : pageRows' = Those(Kept, Openings \ {o})
      BY <1>7
    <2>2. pageRows' \in Seq(Openings) /\ (OnceEach(Kept) => OnceEach(pageRows'))
      BY <1>4, <2>1, ThoseIs
    <2> QED
      BY <1>1, <1>2, <1>4, <1>7, <2>2
  <1> QED
    BY <1>1, <1>5, <1>6, <1>7

LEMMA AnswerKeeps == ASSUME PagesInv, Answered PROVE PagesInv'
  <1>1. /\ progress = "listed" /\ Accounted /\ progress' \in {"answered", "raised"}
        /\ UNCHANGED <<adapter, site, stuck, page, got, total, steady, changes>>
        /\ trouble' = trouble \/ trouble' = trouble \cup {"detail"}
        /\ pageRows' \in Seq(Openings)
        /\ progress' = "answered" =>
               /\ OnceEach(pageRows) => OnceEach(pageRows')
               /\ adapter.check = "equal" \/ trouble' = {} => Range(pageRows') = Here(Range(pageRows))
    BY AnswerIs
  <1>2. PagesTypes'
    BY <1>1 DEF PagesInv, PagesTypes
  <1>3. BeginsUnread' /\ FeedsAreOnePage' /\ TotalsAreTold' /\ RowsAreOfTheSite' /\ LostFromTheFirst'
        /\ RememberedOnce' /\ ReadFromTheFront'
    BY <1>1 DEF BeginsUnread, FeedsAreOnePage, TotalsAreTold, RowsAreOfTheSite, LostFromTheFirst,
                RememberedOnce, ReadFromTheFront, Reading
  <1>4. GainedInFront'
    BY <1>1 DEF PagesInv, GainedInFront, Reading
  <1>5. PagesMissNothing'
    <2> SUFFICES ASSUME progress' = "answered" PROVE PagesMissNothing'
      BY NotAnsweredNext
    <2>1. trouble = {} /\ ~stuck =>
              /\ OnceEach(pageRows)
              /\ \/ Range(pageRows) = Range(site)
                 \/ adapter.feed = "pages" /\ Len(site) > MaxPages * PageSize /\ adapter.check # "equal"
      <3> SUFFICES ASSUME trouble = {}, ~stuck
                   PROVE  /\ OnceEach(pageRows)
                          /\ \/ Range(pageRows) = Range(site)
                             \/ adapter.feed = "pages" /\ Len(site) > MaxPages * PageSize /\ adapter.check # "equal"
        OBVIOUS
      <3> DEFINE L == Len(site)
      <3>1. /\ site \in Seq(Openings) /\ pageRows \in Seq(Openings) /\ OnceEach(site) /\ got \in Nat /\ L \in Nat
            /\ DOMAIN site = 1..L /\ DOMAIN pageRows = 1..Len(pageRows)
        BY LenProperties DEF PagesInv, PagesTypes
      <3>2. /\ got <= L /\ Len(pageRows) = got /\ \A k \in 1..got : pageRows[k] = site[k]
            /\ total = L
            /\ got = L \/ (adapter.feed = "pages" /\ L > MaxPages * PageSize)
        BY <1>1 DEF PagesInv, ReadFromTheFront, Reading
      <3> HIDE DEF L
      <3>3. \A k \in 1..got : k \in DOMAIN site
        BY <3>1, <3>2
      <3>4. OnceEach(pageRows)
        BY <3>1, <3>2, <3>3 DEF OnceEach
      <3>5. Cardinality(Range(pageRows)) = got
        BY <3>1, <3>2, <3>4, OnceEachCounts
      <3>6. got = L => Range(pageRows) = Range(site)
        BY <3>1, <3>2 DEF Range
      <3>7. adapter.check = "equal" => got = L
        BY <1>1, <3>2, <3>5 DEF Accounted
      <3> QED
        BY <3>2, <3>4, <3>6, <3>7 DEF L
    <2>2. QuietSitesAreReadWhole'
      BY <1>1, <2>1 DEF QuietSitesAreReadWhole, Here
    <2>3. AnnouncedPostingsAreAnswered' /\ FirstTotalsMissNothing'
      <3>1. ASSUME steady \subseteq Range(pageRows), adapter.check = "equal" PROVE Here(steady) \subseteq Range(pageRows')
        BY <1>1, <3>1 DEF Here
      <3>2. Here(steady)' = Here(steady)
        BY <1>1 DEF Here
      <3> QED
        BY <1>1, <3>1, <3>2, AccountedIsWhole DEF AnnouncedPostingsAreAnswered, FirstTotalsMissNothing
    <2>4. NothingIsAnsweredTwice'
      <3>1. adapter.fresh \/ (~stuck /\ trouble = {}) => OnceEach(pageRows')
        BY <1>1, <2>1 DEF PagesInv, RememberedOnce, Reading
      <3>2. OnceEach(pageRows') => Len(pageRows') = Cardinality(Range(pageRows'))
        BY <1>1, OnceEachCounts
      <3> QED
        BY <1>1, <3>1, <3>2 DEF NothingIsAnsweredTwice
    <2> QED
      BY <2>2, <2>3, <2>4 DEF PagesMissNothing
  <1> QED
    BY <1>2, <1>3, <1>4, <1>5 DEF PagesInv

LEMMA PagesNext == PagesInv /\ [BoardNext]_boardVars => PagesInv'
  <1> SUFFICES ASSUME PagesInv, [BoardNext]_boardVars PROVE PagesInv'
    OBVIOUS
  <1>1. CASE EndOfListing
    BY <1>1, ListingEnds
  <1>2. CASE Contradiction
    BY <1>2, ListingStops DEF Contradiction
  <1>3. CASE ReadPage
    BY <1>3, PageIsRead
  <1>4. CASE Refused \/ Broken
    BY <1>4, PageRefused
  <1>5. CASE Answered
    BY <1>5, AnswerKeeps
  <1>6. CASE Unaccounted
    BY <1>6, ListingStops DEF Unaccounted
  <1>7. CASE \E o \in Openings : Appear(o) \/ Vanish(o)
    BY <1>7, SiteGains, SiteLoses
  <1>8. CASE UNCHANGED boardVars
    <2>1. UNCHANGED <<adapter, site, stuck, progress, page, pageRows, got, total, steady, trouble, changes>>
      BY <1>8 DEF boardVars
    <2> QED
      BY <2>1 DEF PagesInv, PagesTypes, BeginsUnread, FeedsAreOnePage, TotalsAreTold, GainedInFront,
                  RowsAreOfTheSite, LostFromTheFirst, RememberedOnce, ReadFromTheFront, Reading, Unmisled,
                  PagesMissNothing, QuietSitesAreReadWhole, AnnouncedPostingsAreAnswered,
                  FirstTotalsMissNothing, NothingIsAnsweredTwice, Here
  <1> QED
    BY <1>1, <1>2, <1>3, <1>4, <1>5, <1>6, <1>7, <1>8 DEF BoardNext, Loop

\* What a fetch answers is the listing, for every adapter, any postings and any size of a page
\* (the loops of hk_jobs/adapters): a quiet site is read whole, no adapter that must account for
\* the announced rows answers without a posting that was there the whole time, and none that
\* remembers what it has seen answers one twice.
THEOREM PagesAreWhole == BoardSpec => []PagesMissNothing
  <1>1. PagesInv => PagesMissNothing
    BY DEF PagesInv
  <1> QED
    BY <1>1, PagesInit, PagesNext, PTL DEF BoardSpec
================================================================================
