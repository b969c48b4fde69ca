------------------------------ MODULE ModelCalls ------------------------------
(***************************************************************************)
(* One enrichment run's calls to the model.  Roles are taken in batches, a  *)
(* batch's Roles are asked about side by side, each in two passes (DESCRIBE *)
(* buys the text, CLASSIFY the reasoning), each pass tried again when its   *)
(* answer is lost or garbled.  All of them spend one allowance, looked at   *)
(* before a request and charged after its answer.                          *)
(***************************************************************************)
EXTENDS Integers, FiniteSets

CONSTANTS
    Asked,          \* Roles selected for the run
    BatchSize,      \* Roles of a batch, and workers of its pool
    MaxTries,       \* _enrich_with_retry's max_retries
    Allowance,      \* RunBudget.limit_usd; 0 disables it
    DescribeCost, ClassifyCost

ASSUME CallsAssumption ==
    /\ IsFiniteSet(Asked)
    /\ BatchSize \in Nat \ {0} /\ MaxTries \in Nat \ {0} /\ Allowance \in Nat
    /\ DescribeCost \in Nat \ {0} /\ ClassifyCost \in Nat \ {0}

VARIABLES
    task,           \* where each Role is: its pass, its try, whether a request is out
    batch,          \* the Roles of the batch at work
    waiting,        \* the Roles of the batches to come
    spent,          \* RunBudget.spent_usd
    bought,         \* history: requests sent for each Role
    cutShort        \* history: what `bought` was when an answer came truncated, or -1

callVars == <<task, batch, waiting, spent, bought, cutShort>>

Ready(pass, try) == [at |-> "ready", pass |-> pass, try |-> try]
Done(got) == [at |-> got, pass |-> "describe", try |-> 1]
Settled(r) == task[r].at \in {"answered", "nothing"}
Cost(pass) == IF pass = "describe" THEN DescribeCost ELSE ClassifyCost

CallsInit ==
    /\ waiting \in SUBSET Asked     \* what the run selected
    /\ task = [r \in Asked |-> IF r \in waiting THEN Ready("describe", 1) ELSE Done("nothing")]
    /\ batch = {} /\ spent = 0
    /\ bought = [r \in Asked |-> 0] /\ cutShort = [r \in Asked |-> -1]

\* The next slice of the selection; the one before it has been waited for and written.
NextBatch ==
    /\ \A r \in batch : Settled(r)
    /\ waiting # {}
    /\ \E b \in SUBSET waiting :
           /\ Cardinality(b) = (IF Cardinality(waiting) < BatchSize
                                THEN Cardinality(waiting) ELSE BatchSize)
           /\ batch' = b /\ waiting' = waiting \ b
    /\ UNCHANGED <<task, spent, bought, cutShort>>

\* Mutant of Exhausted: the cap is looked at as a report.
NeverExhausted == FALSE

Exhausted == Allowance # 0 /\ spent >= Allowance

\* Mutant of TryAgain: the tries are not counted.
TryForEver(r) == task' = [task EXCEPT ![r] = Ready("describe", @.try)]

\* An attempt failed: both passes are bought again, at most MaxTries times.
TryAgain(r) ==
    task' = [task EXCEPT ![r] = IF @.try < MaxTries THEN Ready("describe", @.try + 1)
                                ELSE Done("nothing")]

\* RunBudget.check, then the request.
Send(r) ==
    /\ r \in batch /\ task[r].at = "ready" /\ ~Exhausted
    /\ task' = [task EXCEPT ![r].at = "out"]
    /\ bought' = [bought EXCEPT ![r] = @ + 1]
    /\ UNCHANGED <<batch, waiting, spent, cutShort>>

\* BudgetExceeded is an exception like any other to the retry loop.
Refuse(r) ==
    /\ r \in batch /\ task[r].at = "ready" /\ Exhausted
    /\ TryAgain(r)
    /\ UNCHANGED <<batch, waiting, spent, bought, cutShort>>

\* The connection fails or the status is not 200: nothing is charged.
LoseAnswer(r) ==
    /\ task[r].at = "out"
    /\ TryAgain(r)
    /\ UNCHANGED <<batch, waiting, spent, bought, cutShort>>

Charge(r) == spent' = spent + Cost(task[r].pass)

\* TruncatedAnswer: charged, and not tried again.
CutShort(r) ==
    /\ task[r].at = "out" /\ Charge(r)
    /\ cutShort' = [cutShort EXCEPT ![r] = bought[r]]
    /\ task' = [task EXCEPT ![r] = Done("nothing")]
    /\ UNCHANGED <<batch, waiting, bought>>

Garble(r) ==
    /\ task[r].at = "out" /\ Charge(r)
    /\ TryAgain(r)
    /\ UNCHANGED <<batch, waiting, bought, cutShort>>

ModelAnswer(r) ==
    /\ task[r].at = "out" /\ Charge(r)
    /\ task' = [task EXCEPT ![r] = IF @.pass = "describe" THEN Ready("classify", @.try)
                                   ELSE Done("answered")]
    /\ UNCHANGED <<batch, waiting, bought, cutShort>>

ModelReplies(r) == LoseAnswer(r) \/ CutShort(r) \/ Garble(r) \/ ModelAnswer(r)
CallsNext == NextBatch \/ \E r \in Asked : Send(r) \/ Refuse(r) \/ ModelReplies(r)
CallsSpec == CallsInit /\ [][CallsNext]_callVars

\* httpx's timeout ends every request and the loops go on; what the answer is, is open.
CallsFairness == /\ WF_callVars(NextBatch)
                 /\ \A r \in Asked : WF_callVars(Send(r) \/ Refuse(r) \/ ModelReplies(r))

----------------------------------------------------------------------------
\* The lock keeps the sum whole, but the check and the charge are apart: what is spent
\* beyond the allowance is at most one answer for each worker of the pool (ai_budget.py,
\* deepseek.py _call).
SpendStaysNearTheAllowance ==
    LET most == IF DescribeCost > ClassifyCost THEN DescribeCost ELSE ClassifyCost
    IN Allowance = 0 \/ spent < Allowance + BatchSize * most

\* A truncated answer is deterministic: it is paid for once and the Role is not asked
\* about again in this run (deepseek.py _enrich_with_retry).
TruncatedRolesAreNotBoughtAgain ==
    \A r \in Asked : cutShort[r] # -1 => bought[r] = cutShort[r]

\* However answers are lost, garbled or refused, every Role of the run is settled in the
\* end, so the run reaches its last batch and writes what it has (enrichment.py run).
EveryRoleIsSettled == <>[](waiting = {} /\ \A r \in Asked : Settled(r))
\* What is paid for is bounded, and nothing is paid for in vain twice.
CallsAreAccountedFor == SpendStaysNearTheAllowance /\ TruncatedRolesAreNotBoughtAgain
=============================================================================
