---------------------------- MODULE DailyRun_proofs ----------------------------
(* What the Daily Run promises of its record and of what it publishes, proved *)
(* for every set of run ids, every choice of profiles and any number of       *)
(* attempts.                                                                  *)
EXTENDS DailyRun, TLAPS

----------------------------------------------------------------------------
(* The inductive invariant.                                                *)

Reported == [run: RunIds, attempt: Nat, status: Verdicts]
Upload == [run: RunIds, attempt: Nat, profile: Profiles, catalogue: Catalogue,
           seen: Catalogue \cup {None}]

RecordTypes ==
    /\ attempts \in Nat
    /\ pc \in {"idle", "loop", "phase", "wait", "report"}
    /\ pc # "idle" => rec \in Record
    /\ rec \in Record \/ rec = None
    /\ rec \in Record => DOMAIN rec.phases = DOMAIN Phases /\ rec.attempt = attempts

RunTypes ==
    /\ receipts \in [RunIds -> Nat \cup {None}]
    /\ operations \in [RunIds -> Reported \cup {None}]
    /\ live \in Catalogue /\ local \in Catalogue
    /\ artifact \in Catalogue \cup {None} /\ seen \in Catalogue \cup {None}
    /\ uploads \subseteq Upload

\* The phase at work, if any; those before it are over, those after it to come.
RecordIsOrdered ==
    pc \in {"loop", "phase", "wait"} =>
        /\ rec.status = "running" /\ rec.reporting = <<>>
        /\ \A i \in DOMAIN rec.phases :
            rec.phases[i] \in {"pending", "success", "warning", "running"}
        /\ pc = "loop" => Running = {}
        /\ pc \in {"phase", "wait"} => \E k \in DOMAIN rec.phases : Running = {k}
        /\ pc = "wait" => Phases[Current] = "publish"

\* A record that is reported has its verdict.
RecordIsFinal ==
    pc = "report" => rec.status # "running"

TellsItsRun(r) ==
    /\ \A j \in DOMAIN r.phases : \A i \in 1 .. j - 1 :
        r.phases[j] \in {"running", "success", "warning", "failed"}
            => r.phases[i] \in {"success", "warning"}
    /\ r.status # "running"
        => \A i \in DOMAIN r.phases : r.phases[i] \notin {"pending", "running"}

RecordFollowsItsVerdict ==
    rec \in Record =>
        /\ TellsItsRun(rec)
        /\ \A i \in DOMAIN rec.phases : Requires(rec, i) => rec.phases[i] # "warning"
        /\ rec.status \in {"success", "warning"} =>
            \A i \in DOMAIN rec.phases : Requires(rec, i) => rec.phases[i] = "success"

RecordInv == RecordTypes /\ RecordIsOrdered /\ RecordIsFinal /\ RecordFollowsItsVerdict

\* What a phase did is in the runner's catalogue, and so is what it was restored from.
WorkIsKept ==
    pc \in {"loop", "phase", "wait"} =>
        /\ \A i \in DOMAIN rec.phases :
            rec.phases[i] = "success" /\ Phases[i] \notin {"restore", "publish"} =>
                <<rec.attempt, Phases[i]>> \in local.done
        /\ seen # None => rec.phases[1] = "success" /\ seen.done \subseteq local.done

IdleHoldsNothing == pc = "idle" => answer = None /\ seen = None

\* An upload is its attempt's, and carries what its attempt had seen.
UploadsAreOwn ==
    \A u \in uploads :
        /\ u.attempt <= attempts
        /\ rec \in Record /\ u.attempt = rec.attempt => u.run = rec.run
        /\ u.seen # None => u.seen.done \subseteq u.catalogue.done

\* Whoever is told of a publication, or has recorded one, has the receipt.
AnswersAreReceipts ==
    /\ pc # "idle" /\ answer = "accepted" => receipts[rec.run] = rec.attempt
    /\ rec \in Record => \A i \in DOMAIN rec.phases :
        Phases[i] = "publish" /\ rec.phases[i] = "success" => receipts[rec.run] = rec.attempt

RunInv ==
    /\ RecordInv /\ RunTypes /\ WorkIsKept /\ IdleHoldsNothing /\ UploadsAreOwn
    /\ AnswersAreReceipts /\ UploadsAreComplete /\ GreenRunsArePublished

----------------------------------------------------------------------------
(* The profiles: restore comes first and publish last.                     *)

LEMMA PhaseOrder ==
    ASSUME DailyRunAssumption, NEW p \in Profiles
    PROVE  /\ 1 \in DOMAIN ProfilePhases[p]
           /\ \A i \in DOMAIN ProfilePhases[p] :
                /\ i \in Nat /\ i >= 1 /\ \A j \in 1 .. i : j \in DOMAIN ProfilePhases[p]
                /\ ProfilePhases[p][i] \in PhaseNames
                /\ ProfilePhases[p][i] = "restore" <=> i = 1
                /\ ProfilePhases[p][i] = "publish" =>
                    \A j \in DOMAIN ProfilePhases[p] : j <= i /\ (j # i => ProfilePhases[p][j] # "publish")
           /\ \E i \in DOMAIN ProfilePhases[p] : ProfilePhases[p][i] = "publish"
<1>1. p \in {"hosted", "enrich_only", "repair"}
  BY DEF DailyRunAssumption
<1>2. CASE p = "hosted"
  <2>1. ProfilePhases[p] = <<"restore", "scrape", "descriptions", "deepseek", "salary_audit",
                             "linkedin_fetch", "linkedin_promote", "publish">>
    BY <1>2 DEF ProfilePhases
  <2>2. DOMAIN ProfilePhases[p] = 1 .. 8
    BY <2>1
  <2> QED
    BY <2>1, <2>2 DEF PhaseNames
<1>3. CASE p = "enrich_only"
  <2>1. ProfilePhases[p] = <<"restore", "deepseek", "publish">>
    BY <1>3 DEF ProfilePhases
  <2>2. DOMAIN ProfilePhases[p] = 1 .. 3
    BY <2>1
  <2> QED
    BY <2>1, <2>2 DEF PhaseNames
<1>4. CASE p = "repair"
  <2>1. ProfilePhases[p] = <<"restore", "salary_repair", "publish">>
    BY <1>4 DEF ProfilePhases
  <2>2. DOMAIN ProfilePhases[p] = 1 .. 3
    BY <2>1
  <2> QED
    BY <2>1, <2>2 DEF PhaseNames
<1> QED
  BY <1>1, <1>2, <1>3, <1>4

----------------------------------------------------------------------------
(* What becomes of a record.                                               *)

\* A record with the fields of another, but for its phases, verdict and facts.
SameRun(q, r) == q \in Record /\ q.run = r.run /\ q.attempt = r.attempt /\ q.profile = r.profile
                 /\ DOMAIN q.phases = DOMAIN r.phases

LEMMA PhaseMapsKept ==
    ASSUME NEW m \in PhaseMaps, NEW n, DOMAIN n = DOMAIN m,
           n = [i \in DOMAIN m |-> n[i]], \A i \in DOMAIN m : n[i] \in PhaseStates
    PROVE  n \in PhaseMaps
BY DEF PhaseMaps

LEMMA PhaseSet ==
    ASSUME NEW r \in Record, NEW k \in DOMAIN r.phases, NEW st \in PhaseStates
    PROVE  LET q == [r EXCEPT !.phases[k] = st]
           IN  /\ SameRun(q, r) /\ q.status = r.status /\ q.reporting = r.reporting
               /\ q.phases = [r.phases EXCEPT ![k] = st]
<1> DEFINE n == [r.phases EXCEPT ![k] = st]
<1>1. r.phases \in PhaseMaps /\ r.phases = [i \in DOMAIN r.phases |-> r.phases[i]]
      /\ \A i \in DOMAIN r.phases : r.phases[i] \in PhaseStates
  BY DEF Record, PhaseMaps
<1>2. DOMAIN n = DOMAIN r.phases /\ n = [i \in DOMAIN r.phases |-> n[i]]
      /\ \A i \in DOMAIN r.phases : n[i] \in PhaseStates
  BY <1>1
<1>3. n \in PhaseMaps
  BY <1>1, <1>2, PhaseMapsKept
<1>4. [r EXCEPT !.phases[k] = st] = [r EXCEPT !.phases = n]
  OBVIOUS
<1>5. [r EXCEPT !.phases = n] \in Record
  BY <1>3 DEF Record
<1>6. /\ [r EXCEPT !.phases = n].run = r.run /\ [r EXCEPT !.phases = n].attempt = r.attempt
      /\ [r EXCEPT !.phases = n].profile = r.profile /\ [r EXCEPT !.phases = n].status = r.status
      /\ [r EXCEPT !.phases = n].reporting = r.reporting /\ [r EXCEPT !.phases = n].phases = n
  BY DEF Record
<1> QED
  BY <1>2, <1>4, <1>5, <1>6 DEF SameRun

LEMMA FinalVerdict ==
    ASSUME NEW r \in Record
    PROVE  /\ SameRun(Finalized(r), r) /\ Finalized(r).reporting = r.reporting
           /\ Finalized(r).status \in {"success", "warning", "failed"}
           /\ \A i \in DOMAIN r.phases : Finalized(r).phases[i] =
                IF r.phases[i] \in {"pending", "running"} THEN "skipped" ELSE r.phases[i]
           /\ Finalized(r).status # "failed" =>
                \A i \in DOMAIN r.phases : Requires(r, i) =>
                    Finalized(r).phases[i] \notin {"failed", "skipped"}
<1> DEFINE ended == [i \in DOMAIN r.phases |->
                        IF r.phases[i] \in {"pending", "running"} THEN "skipped" ELSE r.phases[i]]
           failed == \E i \in DOMAIN ended : Requires(r, i) /\ ended[i] \in {"failed", "skipped"}
           warned == \/ \E i \in DOMAIN ended : ~Requires(r, i) /\ ended[i] \in {"warning", "failed"}
                     \/ \E i \in DOMAIN r.reporting : r.reporting[i] = "failed"
           verdict == IF failed THEN "failed" ELSE IF warned THEN "warning" ELSE "success"
<1>1. Finalized(r) = [r EXCEPT !.phases = ended, !.status = verdict]
  BY DEF Finalized
<1>2. r.phases \in PhaseMaps /\ \A i \in DOMAIN r.phases : r.phases[i] \in PhaseStates
  BY DEF Record, PhaseMaps
<1>3. DOMAIN ended = DOMAIN r.phases /\ \A i \in DOMAIN r.phases : ended[i] \in PhaseStates
  BY <1>2 DEF PhaseStates
<1>4. ended \in PhaseMaps
  BY <1>2, <1>3, PhaseMapsKept
<1>5. verdict \in Verdicts /\ verdict \in {"success", "warning", "failed"}
      /\ (verdict # "failed" => ~failed)
  BY DEF Verdicts
<1> HIDE DEF ended, verdict, failed
<1>6. Finalized(r) \in Record /\ Finalized(r).phases = ended /\ Finalized(r).status = verdict
      /\ Finalized(r).run = r.run /\ Finalized(r).attempt = r.attempt
      /\ Finalized(r).profile = r.profile /\ Finalized(r).reporting = r.reporting
  BY <1>1, <1>4, <1>5 DEF Record
<1> USE DEF ended, failed
<1> QED
  BY <1>3, <1>5, <1>6 DEF SameRun

\* The phase at work is Current.
LEMMA TheCurrent ==
    ASSUME NEW k, Running = {k}
    PROVE  Current = k
BY DEF Current

----------------------------------------------------------------------------
(* The record, step by step.                                               *)

LEMMA CurrentPhase ==
    ASSUME DailyRunAssumption, RecordInv, pc \in {"phase", "wait"}
    PROVE  /\ rec \in Record /\ rec.status = "running" /\ rec.reporting = <<>>
           /\ Current \in DOMAIN rec.phases /\ rec.phases[Current] = "running"
           /\ \A i \in DOMAIN rec.phases :
                /\ i \in Nat /\ i >= 1 /\ \A j \in 1 .. i : j \in DOMAIN rec.phases
                /\ i # Current => rec.phases[i] \in {"pending", "success", "warning"}
                /\ i < Current => rec.phases[i] \in {"success", "warning"}
                /\ i > Current => rec.phases[i] = "pending"
<1>1. /\ rec \in Record /\ rec.status = "running" /\ rec.reporting = <<>>
      /\ DOMAIN rec.phases = DOMAIN Phases /\ rec.profile \in Profiles
  BY DEF RecordInv, RecordTypes, RecordIsOrdered, Record
<1>2. PICK k \in DOMAIN rec.phases : Running = {k}
  BY DEF RecordInv, RecordIsOrdered
<1>3. Current = k /\ rec.phases[k] = "running"
  BY <1>2, TheCurrent DEF Running
<1>4. \A i \in DOMAIN rec.phases : i \in Nat /\ i >= 1 /\ \A j \in 1 .. i : j \in DOMAIN rec.phases
  BY <1>1, PhaseOrder DEF Phases
<1>5. \A i \in DOMAIN rec.phases : i # k => rec.phases[i] \in {"pending", "success", "warning"}
  BY <1>2 DEF RecordInv, RecordIsOrdered, Running
<1>6. ASSUME NEW i \in DOMAIN rec.phases, NEW j \in DOMAIN rec.phases, i < j,
             rec.phases[j] \in {"running", "success"} \cup {"warning"}
      PROVE  rec.phases[i] \in {"success", "warning"}
  <2>1. i \in 1 .. j - 1
    BY <1>4, <1>6
  <2> QED
    BY <1>1, <1>6, <2>1 DEF RecordInv, RecordFollowsItsVerdict, TellsItsRun
<1>7. \A i \in DOMAIN rec.phases : i < k => rec.phases[i] \in {"success", "warning"}
  BY <1>3, <1>6
<1>8. \A i \in DOMAIN rec.phases : i > k => rec.phases[i] = "pending"
  BY <1>3, <1>4, <1>5, <1>6
<1> QED
  BY <1>1, <1>3, <1>4, <1>5, <1>7, <1>8

\* A phase that ends well.
LEMMA AfterSuccess ==
    ASSUME DailyRunAssumption, RecordInv, pc \in {"phase", "wait"}, attempts' = attempts,
           NEW facts, SameRun(facts, rec), facts.phases = rec.phases,
           facts.status = rec.status, facts.reporting = rec.reporting, Succeed(facts)
    PROVE  /\ SameRun(rec', rec) /\ pc' = "loop"
           /\ rec'.phases = [rec.phases EXCEPT ![Current] = "success"]
           /\ RecordInv'
<1>1. PICK k \in DOMAIN rec.phases : k = Current
  BY CurrentPhase
<1>2. /\ rec \in Record /\ rec.status = "running" /\ rec.reporting = <<>>
      /\ rec.phases[k] = "running"
      /\ \A i \in DOMAIN rec.phases :
           /\ i \in Nat /\ i >= 1 /\ \A j \in 1 .. i : j \in DOMAIN rec.phases
           /\ i # k => rec.phases[i] \in {"pending", "success", "warning"}
           /\ i < k => rec.phases[i] \in {"success", "warning"}
           /\ i > k => rec.phases[i] = "pending"
  BY <1>1, CurrentPhase
<1>3. /\ SameRun(rec', facts) /\ rec'.status = facts.status /\ rec'.reporting = facts.reporting
      /\ rec'.phases = [facts.phases EXCEPT ![k] = "success"] /\ pc' = "loop"
  <2>1. rec' = [facts EXCEPT !.phases[k] = "success"] /\ pc' = "loop"
    BY <1>1 DEF Succeed
  <2>2. facts \in Record /\ k \in DOMAIN facts.phases /\ "success" \in PhaseStates
    BY <1>1 DEF SameRun, PhaseStates
  <2> QED
    BY <2>1, <2>2, PhaseSet
<1>4. /\ SameRun(rec', rec) /\ rec'.phases = [rec.phases EXCEPT ![k] = "success"]
      /\ rec'.status = "running" /\ rec'.reporting = <<>>
  BY <1>2, <1>3 DEF SameRun
<1>5. \A i \in DOMAIN rec.phases : rec'.phases[i] = IF i = k THEN "success" ELSE rec.phases[i]
  <2>1. rec.phases = [i \in DOMAIN rec.phases |-> rec.phases[i]]
    BY <1>2 DEF Record, PhaseMaps
  <2> QED
    BY <1>4, <2>1
<1>6. RecordTypes'
  BY <1>2, <1>3, <1>4 DEF RecordInv, RecordTypes, SameRun, Phases
<1>7. RecordIsOrdered' /\ RecordIsFinal'
  BY <1>2, <1>3, <1>4, <1>5
  DEF RecordInv, RecordIsOrdered, RecordIsFinal, Running, Requires, SameRun
<1>8. RecordFollowsItsVerdict'
  BY <1>2, <1>4, <1>5 DEF RecordInv, RecordFollowsItsVerdict, TellsItsRun, SameRun, Requires
<1> QED
  BY <1>1, <1>3, <1>4, <1>6, <1>7, <1>8 DEF RecordInv

\* A phase that fails adds no success.
LEMMA AfterFailure ==
    ASSUME DailyRunAssumption, RecordInv, pc \in {"phase", "wait"}, attempts' = attempts, FailPhase
    PROVE  /\ SameRun(rec', rec) /\ pc' \in {"loop", "report"}
           /\ \A i \in DOMAIN rec.phases : rec'.phases[i] = "success" <=> rec.phases[i] = "success"
           /\ RecordInv'
<1>1. PICK k \in DOMAIN rec.phases : k = Current
  BY CurrentPhase
<1>2. /\ rec \in Record /\ rec.status = "running" /\ rec.reporting = <<>>
      /\ rec.phases[k] = "running"
      /\ \A i \in DOMAIN rec.phases :
           /\ i \in Nat /\ i >= 1 /\ \A j \in 1 .. i : j \in DOMAIN rec.phases
           /\ i # k => rec.phases[i] \in {"pending", "success", "warning"}
           /\ i < k => rec.phases[i] \in {"success", "warning"}
           /\ i > k => rec.phases[i] = "pending"
  BY <1>1, CurrentPhase
<1>0. rec.phases = [i \in DOMAIN rec.phases |-> rec.phases[i]]
  BY <1>2 DEF Record, PhaseMaps
\* A warning.
<1>3. CASE ~Requires(rec, k)
  <2>1. /\ SameRun(rec', rec) /\ rec'.status = "running" /\ rec'.reporting = <<>>
        /\ rec'.phases = [rec.phases EXCEPT ![k] = "warning"] /\ pc' = "loop"
    <3>1. rec' = [rec EXCEPT !.phases[k] = "warning"] /\ pc' = "loop"
      BY <1>1, <1>3 DEF FailPhase
    <3> QED
      <4>1. rec \in Record /\ k \in DOMAIN rec.phases /\ "warning" \in PhaseStates
        BY <1>2 DEF PhaseStates
      <4> QED
        BY <1>2, <3>1, <4>1, PhaseSet
  <2>2. \A i \in DOMAIN rec.phases : rec'.phases[i] = IF i = k THEN "warning" ELSE rec.phases[i]
    BY <1>0, <2>1
  <2>3. RecordTypes'
    BY <1>2, <2>1 DEF RecordInv, RecordTypes, SameRun, Phases
  <2>4. RecordIsOrdered' /\ RecordIsFinal'
    BY <1>2, <1>3, <2>1, <2>2
    DEF RecordInv, RecordIsOrdered, RecordIsFinal, Running, Requires, SameRun
  <2>5. RecordFollowsItsVerdict'
    <3>1. TellsItsRun(rec')
      BY <1>2, <2>1, <2>2 DEF TellsItsRun, SameRun
    <3>2. \A i \in DOMAIN rec.phases : Requires(rec, i) => rec'.phases[i] # "warning"
      BY <1>2, <1>3, <2>2 DEF RecordInv, RecordFollowsItsVerdict
    <3> QED
      BY <2>1, <3>1, <3>2 DEF RecordFollowsItsVerdict, SameRun, Requires
  <2> QED
    BY <1>2, <2>1, <2>2, <2>3, <2>4, <2>5 DEF RecordInv
\* The end of the run.
<1>4. CASE Requires(rec, k)
  <2> DEFINE q == [rec EXCEPT !.phases[k] = "failed"]
  <2>1. rec' = Finalized(q) /\ pc' = "report"
    BY <1>1, <1>4 DEF FailPhase
  <2>2. SameRun(q, rec) /\ q.phases = [rec.phases EXCEPT ![k] = "failed"]
    BY <1>2, PhaseSet DEF PhaseStates
  <2>3. \A i \in DOMAIN rec.phases : q.phases[i] = IF i = k THEN "failed" ELSE rec.phases[i]
    BY <1>0, <2>2
  <2> HIDE DEF q
  <2>4. /\ SameRun(rec', q) /\ rec'.status \in {"success", "warning", "failed"}
        /\ \A i \in DOMAIN q.phases : rec'.phases[i] =
             IF q.phases[i] \in {"pending", "running"} THEN "skipped" ELSE q.phases[i]
        /\ rec'.status # "failed" =>
             \A i \in DOMAIN q.phases : Requires(q, i) => rec'.phases[i] \notin {"failed", "skipped"}
    BY <2>1, <2>2, FinalVerdict DEF SameRun
  <2>5. SameRun(rec', rec) /\ rec'.phases[k] = "failed"
        /\ \A i \in DOMAIN rec.phases : i # k => rec'.phases[i] =
             IF rec.phases[i] = "pending" THEN "skipped" ELSE rec.phases[i]
    BY <1>2, <2>2, <2>3, <2>4 DEF SameRun
  <2>6. rec'.status = "failed"
    BY <1>4, <2>2, <2>4, <2>5 DEF SameRun, Requires
  <2>7. RecordTypes'
    BY <1>2, <2>1, <2>5 DEF RecordInv, RecordTypes, SameRun, Phases
  <2>8. RecordIsOrdered' /\ RecordIsFinal'
    BY <2>1, <2>6 DEF RecordIsOrdered, RecordIsFinal
  <2>9. RecordFollowsItsVerdict'
    BY <1>2, <2>5, <2>6 DEF RecordInv, RecordFollowsItsVerdict, TellsItsRun, SameRun, Requires
  <2> QED
    BY <1>2, <2>1, <2>5, <2>7, <2>8, <2>9 DEF RecordInv
<1> QED
  BY <1>3, <1>4

\* A new attempt.
LEMMA AfterStart ==
    ASSUME DailyRunAssumption, RecordInv, NEW run \in RunIds, NEW profile \in Profiles,
           StartAttempt(run, profile)
    PROVE  rec' \in Record /\ rec'.run = run /\ rec'.attempt = attempts + 1 /\ rec'.status = "running"
           /\ (\A i \in DOMAIN rec'.phases : rec'.phases[i] = "pending")
           /\ RecordInv'
<1> DEFINE none == [i \in DOMAIN ProfilePhases[profile] |-> "pending"]
<1>1. none \in PhaseMaps
  BY DEF PhaseMaps, PhaseStates
<1>2. attempts \in Nat /\ attempts' = attempts + 1 /\ pc' = "loop"
      /\ rec' = [run |-> run, attempt |-> attempts + 1, profile |-> profile, phases |-> none,
                 status |-> "running", restored |-> None, published |-> None, reporting |-> <<>>]
  BY DEF StartAttempt, RecordInv, RecordTypes
<1>3. /\ rec' \in Record /\ rec'.run = run /\ rec'.attempt = attempts' /\ rec'.profile = profile
      /\ rec'.phases = none /\ rec'.status = "running" /\ rec'.reporting = <<>>
  BY <1>1, <1>2 DEF Record, Verdicts
<1>4. RecordTypes'
  BY <1>2, <1>3 DEF RecordTypes, Phases
<1>5. RecordIsOrdered' /\ RecordIsFinal'
  BY <1>2, <1>3 DEF RecordIsOrdered, RecordIsFinal, Running
<1>6. RecordFollowsItsVerdict'
  BY <1>3 DEF RecordFollowsItsVerdict, TellsItsRun
<1> QED
  BY <1>2, <1>3, <1>4, <1>5, <1>6 DEF RecordInv

\* The next phase begins.
LEMMA AfterBegin ==
    ASSUME DailyRunAssumption, RecordInv, BeginPhase
    PROVE  SameRun(rec', rec) /\ pc' = "phase"
           /\ (\A i \in DOMAIN rec.phases : rec'.phases[i] = "success" <=> rec.phases[i] = "success")
           /\ RecordInv'
<1>1. /\ rec \in Record /\ rec.status = "running" /\ rec.reporting = <<>> /\ pc = "loop"
      /\ DOMAIN rec.phases = DOMAIN Phases /\ rec.profile \in Profiles /\ pc' = "phase"
      /\ attempts' = attempts
  BY DEF BeginPhase, RecordInv, RecordTypes, RecordIsOrdered, Record
<1>2. PICK k \in DOMAIN rec.phases :
        /\ rec.phases[k] = "pending" /\ \A j \in 1 .. k - 1 : rec.phases[j] # "pending"
        /\ rec' = [rec EXCEPT !.phases[k] = "running"]
  BY DEF BeginPhase
<1>3. \A i \in DOMAIN rec.phases : i \in Nat /\ i >= 1 /\ \A j \in 1 .. i : j \in DOMAIN rec.phases
  BY <1>1, PhaseOrder DEF Phases
<1>4. /\ SameRun(rec', rec) /\ rec'.status = "running" /\ rec'.reporting = <<>>
      /\ rec'.phases = [rec.phases EXCEPT ![k] = "running"]
  BY <1>1, <1>2, PhaseSet DEF PhaseStates
<1>5. \A i \in DOMAIN rec.phases : rec'.phases[i] = IF i = k THEN "running" ELSE rec.phases[i]
  <2>1. rec.phases = [i \in DOMAIN rec.phases |-> rec.phases[i]]
    BY <1>1 DEF Record, PhaseMaps
  <2> QED
    BY <1>4, <2>1
<1>6. \A i \in DOMAIN rec.phases : rec.phases[i] \in {"pending", "success", "warning"}
  BY <1>1 DEF RecordInv, RecordIsOrdered, Running
<1>7. RecordTypes'
  BY <1>1, <1>4 DEF RecordInv, RecordTypes, SameRun, Phases
<1>8. RecordIsOrdered' /\ RecordIsFinal'
  <2>1. Running' = {k}
    BY <1>4, <1>5, <1>6 DEF Running, SameRun
  <2> QED
    BY <1>1, <1>4, <1>5, <1>6, <2>1
    DEF RecordInv, RecordIsOrdered, RecordIsFinal, Requires, SameRun
<1>9. RecordFollowsItsVerdict'
  <2>1. TellsItsRun(rec)
    BY <1>1 DEF RecordInv, RecordFollowsItsVerdict
  <2>2. TellsItsRun(rec')
    BY <1>2, <1>3, <1>4, <1>5, <1>6, <2>1 DEF TellsItsRun, SameRun
  <2> QED
    BY <1>1, <1>4, <1>5, <2>2 DEF RecordInv, RecordFollowsItsVerdict, Requires, SameRun
<1> QED
  BY <1>1, <1>2, <1>4, <1>5, <1>7, <1>8, <1>9 DEF RecordInv

\* The loop is over, or a report has come back: the verdict is drawn again.
LEMMA AfterVerdict ==
    ASSUME DailyRunAssumption, RecordInv, Finalize \/ Report
    PROVE  SameRun(rec', rec) /\ pc' = "report"
           /\ (\A i \in DOMAIN rec.phases : rec'.phases[i] = "success" <=> rec.phases[i] = "success")
           /\ RecordInv'
<1>1. rec \in Record /\ pc \in {"loop", "report"} /\ pc' = "report" /\ attempts' = attempts
  BY DEF Finalize, Report, RecordInv, RecordTypes
<1>2. PICK r \in Record : rec' = Finalized(r) /\ SameRun(r, rec) /\ r.phases = rec.phases
  <2>1. CASE Finalize
    BY <1>1, <2>1 DEF Finalize, SameRun
  <2>2. CASE Report
    <3>1. PICK outcome \in Outcomes :
            rec' = Finalized([rec EXCEPT !.reporting = Append(rec.reporting, outcome)])
      BY <2>2 DEF Report, Outcomes
    <3>2. Append(rec.reporting, outcome) \in Seq(Outcomes)
      BY <1>1 DEF Record
    <3>3. PICK r : r = [rec EXCEPT !.reporting = Append(rec.reporting, outcome)]
      OBVIOUS
    <3>4. r \in Record /\ SameRun(r, rec) /\ r.phases = rec.phases
      BY <1>1, <3>2, <3>3 DEF Record, SameRun
    <3> QED
      BY <3>1, <3>3, <3>4
  <2> QED
    BY <2>1, <2>2
<1>3. \A i \in DOMAIN rec.phases : rec.phases[i] \notin {"pending", "running"}
  <2>1. CASE pc = "loop"
    BY <1>1, <2>1 DEF Finalize, Report, RecordInv, RecordIsOrdered, Running
  <2>2. CASE pc = "report"
    BY <1>1, <2>2 DEF RecordInv, RecordIsFinal, RecordFollowsItsVerdict, TellsItsRun
  <2> QED
    BY <1>1, <2>1, <2>2
<1>4. /\ SameRun(rec', rec) /\ rec'.status \in {"success", "warning", "failed"}
      /\ \A i \in DOMAIN rec.phases : rec'.phases[i] = rec.phases[i]
      /\ rec'.status # "failed" =>
            \A i \in DOMAIN rec.phases : Requires(rec, i) => rec.phases[i] \notin {"failed", "skipped"}
  BY <1>2, <1>3, FinalVerdict DEF SameRun, Requires
<1>5. \A i \in DOMAIN rec.phases : rec.phases[i] \in PhaseStates
  BY <1>1 DEF Record, PhaseMaps
\* A required phase never ends in a warning.
<1>6. rec'.status # "failed" =>
        \A i \in DOMAIN rec.phases : Requires(rec, i) => rec.phases[i] = "success"
  BY <1>1, <1>3, <1>4, <1>5 DEF RecordInv, RecordFollowsItsVerdict, PhaseStates
<1>7. RecordTypes'
  BY <1>1, <1>4 DEF RecordInv, RecordTypes, SameRun, Phases
<1>8. RecordIsOrdered' /\ RecordIsFinal'
  BY <1>1, <1>4 DEF RecordIsOrdered, RecordIsFinal
<1>9. RecordFollowsItsVerdict'
  <2>1. \A i \in DOMAIN rec.phases : i \in Nat /\ \A j \in 1 .. i : j \in DOMAIN rec.phases
    BY <1>1, PhaseOrder DEF RecordInv, RecordTypes, Phases, Record
  <2>2. TellsItsRun(rec)
    BY <1>1 DEF RecordInv, RecordFollowsItsVerdict
  <2>3. TellsItsRun(rec')
    BY <1>3, <1>4, <2>1, <2>2 DEF TellsItsRun, SameRun
  <2> QED
    BY <1>1, <1>4, <1>6, <2>3 DEF RecordInv, RecordFollowsItsVerdict, SameRun, Requires
<1> QED
  BY <1>1, <1>4, <1>7, <1>8, <1>9 DEF RecordInv

\* What a step may do to the record.
LEMMA RecordSteps ==
    ASSUME DailyRunAssumption, RunInv, [Next]_vars
    PROVE  /\ RecordInv'
           /\ \/ rec' = rec /\ (pc' = pc \/ pc' = "idle" \/ SendUpload)
              \/ \E run \in RunIds, profile \in Profiles : StartAttempt(run, profile)
              \/ /\ SameRun(rec', rec) /\ rec \in Record /\ attempts' = attempts /\ pc # "idle"
                 /\ pc' # "idle" /\ pc' # "wait" /\ (pc = "report" => pc' = "report")
                 /\ \A i \in DOMAIN rec.phases : rec'.phases[i] = "success" =>
                        \/ rec.phases[i] = "success"
                        \/ pc \in {"phase", "wait"} /\ i = Current /\ rec.phases[i] = "running"
                 /\ \A i \in DOMAIN rec.phases : rec.phases[i] = "success" => rec'.phases[i] = "success"
<1> USE DEF railway
<1>1. RecordInv /\ RunTypes
  BY DEF RunInv
<1> DEFINE Moved ==
        /\ SameRun(rec', rec) /\ rec \in Record /\ attempts' = attempts /\ pc # "idle"
        /\ pc' # "idle" /\ pc' # "wait" /\ (pc = "report" => pc' = "report")
        /\ \A i \in DOMAIN rec.phases : rec'.phases[i] = "success" =>
               \/ rec.phases[i] = "success"
               \/ pc \in {"phase", "wait"} /\ i = Current /\ rec.phases[i] = "running"
        /\ \A i \in DOMAIN rec.phases : rec.phases[i] = "success" => rec'.phases[i] = "success"
\* Nothing about the record.
<1>2. ASSUME rec' = rec, attempts' = attempts, pc' = pc \/ pc' = "idle" PROVE RecordInv'
  <2>1. RecordTypes'
    BY <1>1, <1>2 DEF RecordInv, RecordTypes, Phases
  <2>2. RecordIsOrdered' /\ RecordIsFinal' /\ RecordFollowsItsVerdict'
    BY <1>1, <1>2 DEF RecordInv, RecordIsOrdered, RecordIsFinal, RecordFollowsItsVerdict,
       Running, Requires, TellsItsRun, Current, Phases
  <2> QED
    BY <2>1, <2>2 DEF RecordInv
<1>3. CASE UNCHANGED vars
  BY <1>2, <1>3 DEF vars
<1>4. ASSUME NEW u \in uploads, Accept(u) \/ Refuse(u) PROVE RecordInv' /\ rec' = rec /\ pc' = pc
  BY <1>2, <1>4 DEF Accept, Refuse, Answered
<1>5. CASE Exit \/ Interrupt
  BY <1>2, <1>5 DEF Exit, Interrupt, Gone
<1>6. CASE SendUpload
  <2>1. /\ rec' = rec /\ attempts' = attempts /\ pc = "phase" /\ pc' = "wait"
        /\ Phases[Current] = "publish"
    BY <1>6 DEF SendUpload, At
  <2>2. RecordTypes'
    BY <1>1, <2>1 DEF RecordInv, RecordTypes, Phases
  <2>3. RecordIsOrdered' /\ RecordIsFinal' /\ RecordFollowsItsVerdict'
    BY <1>1, <2>1 DEF RecordInv, RecordIsOrdered, RecordIsFinal, RecordFollowsItsVerdict,
       Running, Requires, TellsItsRun, Current, Phases
  <2> QED
    BY <2>1, <2>2, <2>3, <1>6 DEF RecordInv
<1>7. ASSUME NEW run \in RunIds, NEW profile \in Profiles, StartAttempt(run, profile) PROVE RecordInv'
  BY <1>1, <1>7, AfterStart
<1>8. CASE BeginPhase
  BY <1>1, <1>8, AfterBegin DEF BeginPhase, RecordInv, RecordTypes
<1>9. CASE Finalize \/ Report
  BY <1>1, <1>9, AfterVerdict DEF Finalize, Report, RecordInv, RecordTypes
\* A phase ends well.
<1>10. ASSUME NEW facts, SameRun(facts, rec), facts.phases = rec.phases,
              facts.status = rec.status, facts.reporting = rec.reporting,
              Succeed(facts), pc \in {"phase", "wait"}, attempts' = attempts
       PROVE  RecordInv' /\ Moved
  <2>1. /\ SameRun(rec', rec) /\ pc' = "loop" /\ RecordInv'
        /\ rec'.phases = [rec.phases EXCEPT ![Current] = "success"]
    BY <1>1, <1>10, AfterSuccess
  <2>2. PICK k \in DOMAIN rec.phases : k = Current /\ rec \in Record /\ rec.phases[k] = "running"
    BY <1>1, <1>10, CurrentPhase
  <2>3. rec.phases = [i \in DOMAIN rec.phases |-> rec.phases[i]]
    BY <2>2 DEF Record, PhaseMaps
  <2>4. \A i \in DOMAIN rec.phases : rec'.phases[i] = IF i = k THEN "success" ELSE rec.phases[i]
    BY <2>1, <2>2, <2>3
  <2> QED
    BY <1>10, <2>1, <2>2, <2>4
<1>11. ASSUME FailPhase, pc \in {"phase", "wait"}, attempts' = attempts PROVE RecordInv' /\ Moved
  BY <1>1, <1>11, AfterFailure, CurrentPhase
<1>12. ASSUME pc \in {"phase", "wait"}, NEW where \in {"railway", "github_artifact", "fresh"}
       PROVE  LET facts == [rec EXCEPT !.restored = where]
              IN  SameRun(facts, rec) /\ facts.phases = rec.phases /\ facts.status = rec.status
                  /\ facts.reporting = rec.reporting
  <2>1. rec \in Record
    BY <1>1, <1>12, CurrentPhase
  <2> QED
    BY <2>1 DEF SameRun, Record
<1>13. CASE RestoreRailway \/ RestoreElsewhere
  <2>1. PICK where \in {"railway", "github_artifact", "fresh"} : Succeed([rec EXCEPT !.restored = where])
    BY <1>13 DEF RestoreRailway, RestoreElsewhere
  <2>2. pc \in {"phase", "wait"} /\ attempts' = attempts
    BY <1>13 DEF RestoreRailway, RestoreElsewhere, At
  <2> QED
    BY <1>10, <1>12, <2>1, <2>2
<1>14. CASE Work \/ Enrich \/ (EnrichNothing /\ Succeed(rec))
  <2>1. Succeed(rec) /\ pc \in {"phase", "wait"} /\ attempts' = attempts
    BY <1>14 DEF Work, Enrich, EnrichNothing, At
  <2>2. SameRun(rec, rec)
    BY <1>1, <2>1, CurrentPhase DEF SameRun
  <2> QED
    BY <1>10, <2>1, <2>2
<1>15. CASE Raise \/ (EnrichNothing /\ FailPhase) \/ UploadTimesOut \/ (HearAnswer /\ FailPhase)
  BY <1>11, <1>15 DEF Raise, EnrichNothing, UploadTimesOut, HearAnswer, At
<1>16. CASE HearAnswer /\ ~FailPhase
  <2>1. Succeed([rec EXCEPT !.published = rec.attempt]) /\ pc \in {"phase", "wait"} /\ attempts' = attempts
    BY <1>16 DEF HearAnswer
  <2>2. rec \in Record
    BY <1>1, <2>1, CurrentPhase
  <2>3. [rec EXCEPT !.published = rec.attempt] \in Record
    BY <2>2 DEF Record
  <2>4. LET facts == [rec EXCEPT !.published = rec.attempt]
        IN  SameRun(facts, rec) /\ facts.phases = rec.phases /\ facts.status = rec.status
            /\ facts.reporting = rec.reporting
    BY <2>2, <2>3 DEF SameRun, Record
  <2> QED
    BY <1>10, <2>1, <2>4
<1>17. EnrichNothing => Succeed(rec) \/ FailPhase
  BY DEF EnrichNothing
<1> QED
  BY <1>2, <1>3, <1>4, <1>5, <1>6, <1>7, <1>8, <1>9, <1>13, <1>14, <1>15, <1>16, <1>17
  DEF Next, Step, vars, Exit, Interrupt, Gone, SendUpload

----------------------------------------------------------------------------
(* The other parts of the invariant.                                       *)

\* The phase at work, and what has been done once it is.
LEMMA DidTypes ==
    ASSUME DailyRunAssumption, RunInv, pc = "phase"
    PROVE  /\ Phases[Current] \in PhaseNames
           /\ Did(Phases[Current]) \in Catalogue
           /\ Did(Phases[Current]).done = local.done \cup {<<rec.attempt, Phases[Current]>>}
           /\ \A batch \in Nat : /\ [Did(Phases[Current]) EXCEPT !.usage[rec.run] = batch] \in Catalogue
                                 /\ [Did(Phases[Current]) EXCEPT !.usage[rec.run] = batch].done
                                        = local.done \cup {<<rec.attempt, Phases[Current]>>}
<1>1. rec \in Record /\ Current \in DOMAIN Phases /\ rec.profile \in Profiles
      /\ rec.attempt \in Nat /\ rec.run \in RunIds /\ local \in Catalogue
  BY CurrentPhase DEF RunInv, RecordInv, RecordTypes, RunTypes, Record
<1>2. PICK key \in PhaseNames : key = Phases[Current]
  BY <1>1, PhaseOrder DEF Phases
<1>3. PICK d : d = local.done \cup {<<rec.attempt, key>>}
  OBVIOUS
<1>4. local.done \in SUBSET (Nat \X PhaseNames) /\ local.usage \in [RunIds -> Nat]
      /\ d \in SUBSET (Nat \X PhaseNames)
  BY <1>1, <1>2, <1>3 DEF Catalogue
<1>5. Did(key) = [local EXCEPT !.done = d]
  BY <1>3 DEF Did
<1>6. Did(key) \in Catalogue /\ Did(key).done = d
  BY <1>1, <1>4, <1>5 DEF Catalogue
<1>7. ASSUME NEW c \in Catalogue, NEW batch \in Nat
      PROVE  [c EXCEPT !.usage[rec.run] = batch] \in Catalogue
             /\ [c EXCEPT !.usage[rec.run] = batch].done = c.done
  <2>1. c.usage \in [RunIds -> Nat]
    BY DEF Catalogue
  <2>2. PICK f \in [RunIds -> Nat] : f = [c.usage EXCEPT ![rec.run] = batch]
    BY <1>1, <2>1
  <2>3. [c EXCEPT !.usage[rec.run] = batch] = [c EXCEPT !.usage = f]
    BY <2>2
  <2> QED
    BY <2>2, <2>3 DEF Catalogue
<1> QED
  BY <1>2, <1>3, <1>6, <1>7

\* What the phases of a runner do to its catalogue and to what it has seen.
LEMMA LocalSteps ==
    ASSUME DailyRunAssumption, RunInv, [Next]_vars
    PROVE  /\ local' \in Catalogue
           /\ \/ local' = local /\ seen' = seen
              \/ pc' = "idle" /\ seen' = None
              \/ pc = "phase" /\ Phases[Current] # "restore" /\ seen' = seen
                 /\ local'.done = local.done \cup {<<rec.attempt, Phases[Current]>>}
              \/ pc = "phase" /\ Phases[Current] = "restore"
                 /\ \/ seen' = live /\ local' = live
                       /\ rec'.phases[Current] = "success"
                    \/ seen' = seen
<1> USE DEF railway
<1>1. RecordInv /\ RunTypes
  BY DEF RunInv
<1>2. Fresh \in Catalogue
  BY DEF Fresh, Catalogue
<1>3. CASE RestoreRailway
  <2>1. pc = "phase" /\ Phases[Current] = "restore" /\ seen' = live /\ local' = live
        /\ Succeed([rec EXCEPT !.restored = "railway"])
    BY <1>3 DEF RestoreRailway, At
  <2>2. PICK k : k = Current
    OBVIOUS
  <2>3. k \in DOMAIN rec.phases /\ rec \in Record
    BY <1>1, <2>1, <2>2, CurrentPhase
  <2>4. rec' = [[rec EXCEPT !.restored = "railway"] EXCEPT !.phases[k] = "success"]
    BY <2>1, <2>2 DEF Succeed
  <2>5. rec'.phases[k] = "success"
    BY <2>3, <2>4 DEF Record
  <2> QED
    BY <1>1, <2>1, <2>2, <2>5 DEF RunTypes
<1>4. CASE RestoreElsewhere
  BY <1>1, <1>2, <1>4 DEF RestoreElsewhere, At, RunTypes
<1>5. CASE Work
  BY <1>1, <1>5, DidTypes DEF Work
<1>6. CASE Enrich
  <2>1. pc = "phase" /\ Phases[Current] = "deepseek" /\ seen' = seen
    BY <1>6 DEF Enrich, At
  <2>2. PICK batch \in Nat :
          local' = IF batch = 0 THEN Did("deepseek")
                   ELSE [Did("deepseek") EXCEPT !.usage[rec.run] = batch]
    BY <1>6 DEF Enrich
  <2> QED
    BY <2>1, <2>2, DidTypes
<1>7. CASE EnrichNothing
  <2>1. pc = "phase" /\ Phases[Current] = "deepseek" /\ seen' = seen
    BY <1>7 DEF EnrichNothing, At
  <2>2. PICK batch \in Nat : local' = [Did("deepseek") EXCEPT !.usage[rec.run] = batch]
    BY <1>7 DEF EnrichNothing
  <2> QED
    BY <2>1, <2>2, DidTypes
<1>8. CASE Exit \/ Interrupt
  BY <1>2, <1>8 DEF Exit, Interrupt, Gone
<1>9. CASE local' = local /\ seen' = seen
  BY <1>1, <1>9 DEF RunTypes
<1> QED
  BY <1>3, <1>4, <1>5, <1>6, <1>7, <1>8, <1>9
  DEF Next, Step, vars, StartAttempt, BeginPhase, Finalize, Raise, SendUpload, HearAnswer,
      UploadTimesOut, Report, Accept, Refuse, Answered

LEMMA TypesNext ==
    ASSUME DailyRunAssumption, RunInv, [Next]_vars
    PROVE  RunTypes'
<1> USE DEF railway
<1>1. RecordInv /\ RunTypes
  BY DEF RunInv
<1>2. local' \in Catalogue /\ seen' \in Catalogue \cup {None}
  BY <1>1, LocalSteps DEF RunTypes
<1>3. artifact' \in Catalogue \cup {None}
  BY <1>1 DEF RunTypes, Next, Step, vars, StartAttempt, BeginPhase, Finalize, RestoreRailway,
     RestoreElsewhere, Work, Raise, Enrich, EnrichNothing, SendUpload, HearAnswer, UploadTimesOut,
     Report, Exit, Accept, Refuse, Answered, Interrupt, Gone
<1>4. CASE SendUpload
  <2>1. pc = "phase"
    BY <1>4 DEF SendUpload, At
  <2>2. rec \in Record
    BY <1>1, <2>1, CurrentPhase
  <2>3. [run |-> rec.run, attempt |-> rec.attempt, profile |-> rec.profile, catalogue |-> local,
         seen |-> seen] \in Upload
    BY <1>1, <2>2 DEF RunTypes, Record, Upload
  <2> QED
    BY <1>1, <1>2, <1>3, <1>4, <2>3 DEF SendUpload, RunTypes
<1>5. ASSUME NEW u \in uploads, Accept(u) PROVE RunTypes'
  <2>1. u \in Upload /\ u.catalogue \in Catalogue /\ u.attempt \in Nat /\ u.run \in RunIds
    BY <1>1 DEF RunTypes, Upload
  <2> QED
    BY <1>1, <1>2, <1>3, <1>5, <2>1 DEF Accept, Answered, RunTypes
<1>6. ASSUME NEW u \in uploads, Refuse(u) PROVE RunTypes'
  BY <1>1, <1>2, <1>3, <1>6 DEF Refuse, Answered, RunTypes
<1>7. CASE Report
  <2>1. rec \in Record
    BY <1>1, <1>7 DEF Report, RecordInv, RecordTypes
  <2>2. [run |-> rec.run, attempt |-> rec.attempt, status |-> rec.status] \in Reported
    BY <2>1 DEF Record, Reported
  <2>3. operations' = operations \/ operations' = [operations EXCEPT ![rec.run] =
            [run |-> rec.run, attempt |-> rec.attempt, status |-> rec.status]]
    BY <1>7 DEF Report
  <2>4. operations' \in [RunIds -> Reported \cup {None}]
    BY <1>1, <2>2, <2>3 DEF RunTypes
  <2> QED
    BY <1>1, <1>2, <1>3, <1>7, <2>4 DEF Report, RunTypes
<1>8. CASE UNCHANGED <<live, receipts, operations, uploads>>
  BY <1>1, <1>2, <1>3, <1>8 DEF RunTypes
<1> QED
  BY <1>4, <1>5, <1>6, <1>7, <1>8
  DEF Next, Step, vars, StartAttempt, BeginPhase, Finalize, RestoreRailway, RestoreElsewhere,
      Work, Raise, Enrich, EnrichNothing, HearAnswer, UploadTimesOut, Exit, Interrupt, Gone

\* What the phase that has just ended well leaves behind it.
LEMMA NewSuccess ==
    ASSUME DailyRunAssumption, RunInv, [Next]_vars, pc \in {"phase", "wait"},
           NEW k, k = Current, rec'.phases[k] = "success"
    PROVE  /\ Phases[k] \notin {"restore", "publish"} => <<rec.attempt, Phases[k]>> \in local'.done
           /\ Phases[k] = "publish" => answer = "accepted" /\ pc = "wait" /\ UNCHANGED railway
<1> USE DEF railway
<1>1. RecordInv /\ RunTypes
  BY DEF RunInv
<1>2. k \in DOMAIN rec.phases /\ rec.phases[k] = "running" /\ rec.phases[k] # "success"
      /\ (pc = "wait" => Phases[k] = "publish")
  BY <1>1, CurrentPhase DEF RecordInv, RecordIsOrdered
<1>3. rec' # rec
  BY <1>2
<1>4. FailPhase /\ attempts' = attempts => FALSE
  BY <1>1, <1>2, AfterFailure
<1>5. CASE Work
  BY <1>5, DidTypes DEF Work
<1>6. CASE Enrich
  <2>1. pc = "phase" /\ Phases[Current] = "deepseek"
    BY <1>6 DEF Enrich, At
  <2>2. PICK batch \in Nat :
          local' = IF batch = 0 THEN Did("deepseek")
                   ELSE [Did("deepseek") EXCEPT !.usage[rec.run] = batch]
    BY <1>6 DEF Enrich
  <2> QED
    BY <2>1, <2>2, DidTypes
<1>7. CASE EnrichNothing
  <2>1. pc = "phase" /\ Phases[Current] = "deepseek"
    BY <1>7 DEF EnrichNothing, At
  <2>2. PICK batch \in Nat : local' = [Did("deepseek") EXCEPT !.usage[rec.run] = batch]
    BY <1>7 DEF EnrichNothing
  <2> QED
    BY <2>1, <2>2, DidTypes
<1>8. CASE HearAnswer
  BY <1>2, <1>4, <1>8 DEF HearAnswer
<1>9. CASE RestoreRailway \/ RestoreElsewhere
  BY <1>9 DEF RestoreRailway, RestoreElsewhere, At
<1>10. CASE Raise \/ UploadTimesOut
  BY <1>4, <1>10 DEF Raise, UploadTimesOut
<1> QED
  BY <1>3, <1>5, <1>6, <1>7, <1>8, <1>9, <1>10
  DEF Next, Step, vars, StartAttempt, BeginPhase, Finalize, SendUpload, Report, Exit, Interrupt,
      Accept, Refuse, Answered

\* Of a phase that is at work, and of a restore that is, before they have ended.
LEMMA RestoreIsFirst ==
    ASSUME DailyRunAssumption, RecordInv, pc \in {"phase", "wait"}, Phases[Current] = "restore"
    PROVE  rec.phases[1] = "running" /\ \A i \in DOMAIN rec.phases : rec.phases[i] # "success"
<1>1. rec \in Record /\ DOMAIN rec.phases = DOMAIN Phases /\ rec.profile \in Profiles
  BY CurrentPhase DEF RecordInv, RecordTypes, Record
<1>2. Current \in DOMAIN rec.phases /\ rec.phases[Current] = "running"
  BY CurrentPhase
<1>3. Current = 1
  BY <1>1, <1>2, PhaseOrder DEF Phases
<1>4. \A i \in DOMAIN rec.phases : i \in Nat /\ i >= 1
  BY CurrentPhase
<1>5. \A i \in DOMAIN rec.phases : i > 1 => rec.phases[i] = "pending"
  BY <1>3, CurrentPhase
<1> QED
  BY <1>2, <1>3, <1>4, <1>5

LEMMA WorkNext ==
    ASSUME DailyRunAssumption, RunInv, [Next]_vars
    PROVE  WorkIsKept'
<1>1. RecordInv /\ RunTypes /\ WorkIsKept /\ IdleHoldsNothing
  BY DEF RunInv
<1> DEFINE Kept == /\ \A i \in DOMAIN rec'.phases :
                        rec'.phases[i] = "success" /\ Phases'[i] \notin {"restore", "publish"} =>
                            <<rec'.attempt, Phases'[i]>> \in local'.done
                   /\ seen' # None => rec'.phases[1] = "success" /\ seen'.done \subseteq local'.done
<1> SUFFICES ASSUME pc' \in {"loop", "phase", "wait"} PROVE Kept
  BY DEF WorkIsKept
<1>2. ASSUME NEW run \in RunIds, NEW profile \in Profiles, StartAttempt(run, profile) PROVE Kept
  BY <1>1, <1>2, AfterStart DEF StartAttempt, IdleHoldsNothing
\* The phases are the same, and so is what has been done of them.
<1>3. ASSUME rec \in Record, pc \in {"loop", "phase", "wait"}, DOMAIN rec'.phases = DOMAIN rec.phases,
             rec'.attempt = rec.attempt, Phases' = Phases,
             \A i \in DOMAIN rec.phases : rec'.phases[i] = "success" =>
                  \/ rec.phases[i] = "success"
                  \/ pc \in {"phase", "wait"} /\ i = Current /\ rec.phases[i] = "running",
             \A i \in DOMAIN rec.phases : rec.phases[i] = "success" => rec'.phases[i] = "success"
      PROVE  Kept
  <2>1. /\ \A i \in DOMAIN rec.phases :
                rec.phases[i] = "success" /\ Phases[i] \notin {"restore", "publish"} =>
                    <<rec.attempt, Phases[i]>> \in local.done
        /\ seen # None => rec.phases[1] = "success" /\ seen.done \subseteq local.done
    BY <1>1, <1>3 DEF WorkIsKept
  <2>2. 1 \in DOMAIN rec.phases
    BY <1>1, <1>3, PhaseOrder DEF RecordInv, RecordTypes, Phases, Record
  <2>3. ASSUME NEW i \in DOMAIN rec.phases, rec'.phases[i] = "success", rec.phases[i] # "success",
               Phases[i] \notin {"restore", "publish"}
        PROVE  <<rec.attempt, Phases[i]>> \in local'.done
    BY <1>3, <2>3, NewSuccess
  <2>4. CASE local' = local /\ seen' = seen
    BY <1>3, <2>1, <2>2, <2>3, <2>4
  <2>5. CASE /\ local'.done = local.done \cup {<<rec.attempt, Phases[Current]>>} /\ seen' = seen
    BY <1>3, <2>1, <2>2, <2>3, <2>5
  <2>6. CASE pc = "phase" /\ Phases[Current] = "restore"
             /\ \/ seen' = live /\ local' = live /\ rec'.phases[Current] = "success"
                \/ seen' = seen
    <3>1. rec.phases[1] = "running" /\ \A i \in DOMAIN rec.phases : rec.phases[i] # "success"
      BY <1>1, <2>6, RestoreIsFirst
    <3>2. seen = None
      BY <2>1, <3>1
    <3>3. CASE seen' = seen
      BY <1>3, <2>3, <3>1, <3>2, <3>3
    <3>4. CASE seen' = live /\ local' = live /\ rec'.phases[Current] = "success"
      <4>1. Current = 1
        BY <1>1, <2>2, <2>6, <3>1, CurrentPhase
      <4> QED
        BY <1>3, <2>3, <3>1, <3>4, <4>1
    <3> QED
      BY <2>6, <3>3, <3>4
  <2> QED
    BY <2>4, <2>5, <2>6, LocalSteps
<1>4. CASE rec' = rec /\ (pc' = pc \/ pc' = "idle" \/ SendUpload)
  <2>1. pc \in {"loop", "phase", "wait"} /\ rec \in Record
    BY <1>1, <1>4 DEF SendUpload, At, RecordInv, RecordTypes
  <2> QED
    BY <1>3, <1>4, <2>1 DEF Phases
<1>5. CASE /\ SameRun(rec', rec) /\ rec \in Record /\ attempts' = attempts /\ pc # "idle"
           /\ pc' # "idle" /\ pc' # "wait" /\ (pc = "report" => pc' = "report")
           /\ \A i \in DOMAIN rec.phases : rec'.phases[i] = "success" =>
                  \/ rec.phases[i] = "success"
                  \/ pc \in {"phase", "wait"} /\ i = Current /\ rec.phases[i] = "running"
           /\ \A i \in DOMAIN rec.phases : rec.phases[i] = "success" => rec'.phases[i] = "success"
  <2>1. pc \in {"loop", "phase", "wait"}
    BY <1>1, <1>5 DEF RecordInv, RecordTypes
  <2>2. DOMAIN rec'.phases = DOMAIN rec.phases /\ rec'.attempt = rec.attempt /\ Phases' = Phases
    BY <1>5 DEF SameRun, Phases
  <2> QED
    BY <1>3, <1>5, <2>1, <2>2
<1> QED
  BY <1>2, <1>4, <1>5, RecordSteps

LEMMA IdleNext ==
    ASSUME DailyRunAssumption, RunInv, [Next]_vars
    PROVE  IdleHoldsNothing'
BY DEF RunInv, IdleHoldsNothing, Next, Step, vars, railway, StartAttempt, BeginPhase, Finalize,
   RestoreRailway, RestoreElsewhere, Work, Raise, Enrich, EnrichNothing, SendUpload, HearAnswer,
   UploadTimesOut, Report, Exit, Interrupt, Gone, Accept, Refuse, Answered, Succeed, FailPhase

\* An upload leaves with the catalogue of its attempt; nothing else adds one.
LEMMA NewUploads ==
    ASSUME DailyRunAssumption, RunInv, [Next]_vars
    PROVE  \/ uploads' \subseteq uploads
           \/ /\ SendUpload /\ rec' = rec /\ rec \in Record /\ attempts' = attempts
              /\ pc = "phase" /\ Phases[Current] = "publish"
              /\ uploads' = uploads \cup {[run |-> rec.run, attempt |-> rec.attempt,
                      profile |-> rec.profile, catalogue |-> local, seen |-> seen]}
<1> USE DEF railway
<1>1. CASE SendUpload
  BY <1>1, CurrentPhase DEF SendUpload, At, RunInv
<1> QED
  BY <1>1 DEF Next, Step, vars, StartAttempt, BeginPhase, Finalize,
   RestoreRailway, RestoreElsewhere, Work, Raise, Enrich, EnrichNothing, HearAnswer,
   UploadTimesOut, Report, Exit, Interrupt, Gone, Accept, Refuse, Answered

LEMMA UploadsOwnNext ==
    ASSUME DailyRunAssumption, RunInv, [Next]_vars
    PROVE  UploadsAreOwn'
<1>1. RecordInv /\ RunTypes /\ WorkIsKept /\ UploadsAreOwn
  BY DEF RunInv
<1>2. attempts \in Nat /\ \A u \in uploads : u.attempt \in Nat
  BY <1>1 DEF RecordInv, RecordTypes, RunTypes, Upload
\* Those that were there.
<1>3. ASSUME NEW u \in uploads
      PROVE  /\ u.attempt <= attempts'
             /\ rec' \in Record /\ u.attempt = rec'.attempt => u.run = rec'.run
             /\ u.seen # None => u.seen.done \subseteq u.catalogue.done
  <2>1. /\ u.attempt <= attempts /\ u.attempt \in Nat
        /\ rec \in Record /\ u.attempt = rec.attempt => u.run = rec.run
        /\ u.seen # None => u.seen.done \subseteq u.catalogue.done
    BY <1>1, <1>2 DEF UploadsAreOwn
  <2>2. CASE \E run \in RunIds, profile \in Profiles : StartAttempt(run, profile)
    <3>1. attempts' = attempts + 1 /\ rec'.attempt = attempts + 1
      BY <1>1, <2>2, AfterStart DEF StartAttempt
    <3> QED
      BY <1>2, <2>1, <3>1
  <2>3. CASE SameRun(rec', rec) /\ rec \in Record /\ attempts' = attempts
    BY <2>1, <2>3 DEF SameRun
  <2>4. CASE rec' = rec /\ (pc' = pc \/ pc' = "idle" \/ SendUpload)
    <3>1. attempts' = attempts \/ \E run \in RunIds, profile \in Profiles : StartAttempt(run, profile)
      BY DEF Next, Step, vars, railway, BeginPhase, Finalize,
         RestoreRailway, RestoreElsewhere, Work, Raise, Enrich, EnrichNothing, SendUpload, HearAnswer,
         UploadTimesOut, Report, Exit, Interrupt, Gone, Accept, Refuse, Answered
    <3> QED
      BY <2>1, <2>2, <2>4, <3>1
  <2> QED
    BY <2>2, <2>3, <2>4, RecordSteps
<1>4. CASE uploads' \subseteq uploads
  BY <1>3, <1>4 DEF UploadsAreOwn
<1>5. CASE /\ rec' = rec /\ rec \in Record /\ attempts' = attempts
           /\ pc = "phase" /\ Phases[Current] = "publish"
           /\ uploads' = uploads \cup {[run |-> rec.run, attempt |-> rec.attempt,
                      profile |-> rec.profile, catalogue |-> local, seen |-> seen]}
  <2>1. PICK new : new = [run |-> rec.run, attempt |-> rec.attempt, profile |-> rec.profile,
                          catalogue |-> local, seen |-> seen]
    OBVIOUS
  <2>2. /\ new.attempt <= attempts' /\ new.run = rec'.run
        /\ new.seen # None => new.seen.done \subseteq new.catalogue.done
    BY <1>1, <1>2, <1>5, <2>1 DEF WorkIsKept, RecordInv, RecordTypes
  <2> QED
    BY <1>3, <1>5, <2>1, <2>2 DEF UploadsAreOwn
<1> QED
  BY <1>4, <1>5, NewUploads

\* A receipt, once written, is not written over.
LEMMA ReceiptsStay ==
    ASSUME DailyRunAssumption, RunInv, [Next]_vars, NEW run \in RunIds, receipts[run] # None
    PROVE  receipts'[run] = receipts[run]
<1> USE DEF railway
<1>1. ASSUME NEW u \in uploads, Accept(u) PROVE receipts'[run] = receipts[run]
  BY <1>1 DEF Accept, RunInv, RunTypes
<1> QED
  BY <1>1 DEF Next, Step, vars, StartAttempt, BeginPhase, Finalize,
   RestoreRailway, RestoreElsewhere, Work, Raise, Enrich, EnrichNothing, SendUpload, HearAnswer,
   UploadTimesOut, Report, Exit, Interrupt, Gone, Refuse, Answered

LEMMA AnswersNext ==
    ASSUME DailyRunAssumption, RunInv, [Next]_vars
    PROVE  AnswersAreReceipts'
<1> USE DEF railway
<1>1. RecordInv /\ RunTypes /\ AnswersAreReceipts /\ UploadsAreOwn /\ IdleHoldsNothing
  BY DEF RunInv
<1>0. RecordInv'
  BY RecordSteps
\* Those who were told of a publication.
<1>2. ASSUME pc' # "idle", answer' = "accepted" PROVE receipts'[rec'.run] = rec'.attempt
  <2>1. ASSUME NEW u \in uploads, Accept(u), pc = "wait" /\ rec.attempt = u.attempt
        PROVE  receipts'[rec'.run] = rec'.attempt
    <3>1. rec' = rec /\ rec \in Record /\ u \in Upload /\ u.run = rec.run /\ u.run \in RunIds
      BY <1>1, <2>1 DEF Accept, Answered, RecordInv, RecordTypes, RunTypes, UploadsAreOwn, Upload
    <3> QED
      BY <1>1, <2>1, <3>1 DEF Accept, RunTypes
  <2>2. CASE answer' = answer /\ ~(\E run \in RunIds, profile \in Profiles : StartAttempt(run, profile))
    <3>1. pc # "idle" /\ rec \in Record
      BY <1>1, <1>2, <2>2 DEF IdleHoldsNothing, RecordInv, RecordTypes, DailyRunAssumption
    <3>2. receipts[rec.run] = rec.attempt /\ rec.run \in RunIds /\ rec.attempt \in Nat
      BY <1>1, <1>2, <2>2, <3>1 DEF AnswersAreReceipts, Record
    <3>3. rec'.run = rec.run /\ rec'.attempt = rec.attempt
      BY <2>2, RecordSteps DEF SameRun
    <3> QED
      BY <3>2, <3>3, ReceiptsStay DEF DailyRunAssumption
  <2>3. CASE \E run \in RunIds, profile \in Profiles : StartAttempt(run, profile)
    BY <1>1, <1>2, <2>3 DEF StartAttempt, IdleHoldsNothing, DailyRunAssumption
  <2> QED
    BY <1>2, <2>1, <2>2, <2>3
    DEF Next, Step, vars, BeginPhase, Finalize, RestoreRailway, RestoreElsewhere, Work, Raise,
        Enrich, EnrichNothing, SendUpload, HearAnswer, UploadTimesOut, Report, Exit, Interrupt,
        Gone, Accept, Refuse, Answered
\* Those who have recorded one.
<1>3. ASSUME rec' \in Record, NEW i \in DOMAIN rec'.phases, Phases'[i] = "publish",
             rec'.phases[i] = "success"
      PROVE  receipts'[rec'.run] = rec'.attempt
  <2>1. CASE rec \in Record /\ rec'.run = rec.run /\ rec'.attempt = rec.attempt /\ Phases' = Phases
             /\ i \in DOMAIN rec.phases /\ rec.phases[i] = "success"
    <3>1. receipts[rec.run] = rec.attempt /\ rec.run \in RunIds /\ rec.attempt \in Nat
      BY <1>1, <1>3, <2>1 DEF AnswersAreReceipts, Record
    <3> QED
      BY <2>1, <3>1, ReceiptsStay DEF DailyRunAssumption
  <2>2. CASE rec \in Record /\ rec'.run = rec.run /\ rec'.attempt = rec.attempt /\ Phases' = Phases
             /\ pc \in {"phase", "wait"} /\ i = Current
    <3>1. answer = "accepted" /\ pc = "wait" /\ UNCHANGED <<live, receipts, operations>>
      BY <1>3, <2>2, NewSuccess
    <3> QED
      BY <1>1, <2>2, <3>1 DEF AnswersAreReceipts
  <2>3. CASE \E run \in RunIds, profile \in Profiles : StartAttempt(run, profile)
    BY <1>1, <1>3, <2>3, AfterStart
  <2> QED
    BY <1>3, <2>1, <2>2, <2>3, RecordSteps DEF SameRun, Phases
<1> QED
  BY <1>2, <1>3 DEF AnswersAreReceipts

\* Publishing is the last phase, and every required one before it has succeeded.
LEMMA CompleteNext ==
    ASSUME DailyRunAssumption, RunInv, [Next]_vars
    PROVE  UploadsAreComplete'
<1>1. RecordInv /\ RunTypes /\ WorkIsKept /\ UploadsAreComplete
  BY DEF RunInv
<1>2. CASE uploads' \subseteq uploads
  BY <1>1, <1>2 DEF UploadsAreComplete
<1>3. CASE /\ rec' = rec /\ rec \in Record /\ pc = "phase" /\ Phases[Current] = "publish"
           /\ uploads' = uploads \cup {[run |-> rec.run, attempt |-> rec.attempt,
                      profile |-> rec.profile, catalogue |-> local, seen |-> seen]}
  <2>1. PICK new : new = [run |-> rec.run, attempt |-> rec.attempt, profile |-> rec.profile,
                          catalogue |-> local, seen |-> seen]
    OBVIOUS
  <2>2. PICK k \in DOMAIN rec.phases : k = Current
    BY <1>1, <1>3, CurrentPhase
  <2>3. DOMAIN rec.phases = DOMAIN Phases /\ rec.profile \in Profiles
    BY <1>1, <1>3 DEF RecordInv, RecordTypes, Record
  <2>4. ASSUME NEW key \in RequiredPhases \ {"restore", "publish"},
               NEW i \in DOMAIN ProfilePhases[rec.profile], ProfilePhases[rec.profile][i] = key
        PROVE  <<rec.attempt, key>> \in local.done
    <3>1. i \in DOMAIN rec.phases /\ Phases[i] = key /\ i \in Nat /\ k \in Nat /\ i <= k /\ i # k
      BY <1>3, <2>2, <2>3, <2>4, PhaseOrder DEF Phases
    <3>2. rec.phases[i] \in {"success", "warning"}
      BY <1>1, <1>3, <2>2, <3>1, CurrentPhase
    <3>3. Requires(rec, i)
      BY <2>4 DEF Requires
    <3>4. rec.phases[i] = "success"
      BY <1>1, <1>3, <3>1, <3>2, <3>3 DEF RecordInv, RecordFollowsItsVerdict
    <3> QED
      BY <1>1, <1>3, <3>1, <3>4 DEF WorkIsKept
  <2>5. new.attempt = rec.attempt /\ new.profile = rec.profile /\ new.catalogue = local
    BY <2>1
  <2>6. uploads' = uploads \cup {new}
    BY <1>3, <2>1
  <2> QED
    BY <1>1, <2>4, <2>5, <2>6 DEF UploadsAreComplete
<1> QED
  BY <1>2, <1>3, NewUploads

\* A green record has published, and so has every run that reported one.
LEMMA GreenRecord ==
    ASSUME DailyRunAssumption, RecordInv, AnswersAreReceipts, rec \in Record,
           rec.status \in {"success", "warning"}
    PROVE  receipts[rec.run] = rec.attempt
<1>1. DOMAIN rec.phases = DOMAIN Phases /\ rec.profile \in Profiles
  BY DEF RecordInv, RecordTypes, Record
<1>2. PICK i \in DOMAIN rec.phases : Phases[i] = "publish"
  BY <1>1, PhaseOrder DEF Phases
<1>3. Requires(rec, i)
  BY <1>2 DEF Requires, Phases, RequiredPhases
<1>4. rec.phases[i] = "success"
  BY <1>2, <1>3 DEF RecordInv, RecordFollowsItsVerdict
<1> QED
  BY <1>2, <1>4 DEF AnswersAreReceipts

LEMMA GreenNext ==
    ASSUME DailyRunAssumption, RunInv, [Next]_vars
    PROVE  GreenRunsArePublished'
<1> USE DEF railway
<1>1. RecordInv /\ RunTypes /\ AnswersAreReceipts /\ GreenRunsArePublished
  BY DEF RunInv
<1>2. RecordInv' /\ AnswersAreReceipts' /\ RunTypes'
  BY RecordSteps, AnswersNext, TypesNext
<1>3. ASSUME rec' # None, rec'.status \in {"success", "warning"}
      PROVE  receipts'[rec'.run] = rec'.attempt
  <2>1. rec' \in Record
    BY <1>2, <1>3 DEF RecordInv, RecordTypes
  <2>2. DOMAIN rec'.phases = DOMAIN Phases' /\ rec'.profile \in Profiles
    BY <1>2, <2>1 DEF RecordInv, RecordTypes, Record
  <2>3. PICK i \in DOMAIN rec'.phases : Phases'[i] = "publish"
    BY <2>2, PhaseOrder DEF Phases
  <2>4. ProfilePhases[rec'.profile][i] \in RequiredPhases
    BY <2>3 DEF Phases, RequiredPhases
  <2>5. rec'.phases[i] = "success"
    BY <1>2, <1>3, <2>1, <2>4 DEF RecordInv, RecordFollowsItsVerdict, Requires
  <2> QED
    BY <1>2, <2>1, <2>3, <2>5 DEF AnswersAreReceipts
\* What Railway's ledger said stays true, and what it is told now is true.
<1>4. ASSUME NEW run \in RunIds, operations'[run] # None,
             operations'[run].status \in {"success", "warning"}
      PROVE  receipts'[operations'[run].run] = operations'[run].attempt
  <2>1. CASE operations'[run] = operations[run]
    <3>1. receipts[operations[run].run] = operations[run].attempt
      BY <1>1, <1>4, <2>1 DEF GreenRunsArePublished
    <3>2. operations[run].run \in RunIds /\ operations[run].attempt \in Nat
      BY <1>1, <1>4, <2>1 DEF RunTypes, Reported
    <3> QED
      BY <2>1, <3>1, <3>2, ReceiptsStay DEF DailyRunAssumption
  <2>2. CASE /\ Report
             /\ operations' = [operations EXCEPT ![rec.run] =
                    [run |-> rec.run, attempt |-> rec.attempt, status |-> rec.status]]
    <3>1. rec \in Record /\ rec.run \in RunIds /\ receipts' = receipts
      BY <1>1, <2>2 DEF Report, RecordInv, RecordTypes, Record
    <3>2. CASE run = rec.run
      <4>1. operations'[run] = [run |-> rec.run, attempt |-> rec.attempt, status |-> rec.status]
        BY <1>1, <2>2, <3>1, <3>2 DEF RunTypes
      <4>2. receipts[rec.run] = rec.attempt
        BY <1>1, <1>4, <3>1, <4>1, GreenRecord
      <4> QED
        BY <3>1, <4>1, <4>2
    <3>3. CASE run # rec.run
      BY <1>1, <2>1, <2>2, <3>3 DEF RunTypes
    <3> QED
      BY <3>2, <3>3
  <2>3. operations' = operations \/ (Report /\ operations' = [operations EXCEPT ![rec.run] =
                    [run |-> rec.run, attempt |-> rec.attempt, status |-> rec.status]])
    BY DEF Next, Step, vars, StartAttempt, BeginPhase, Finalize,
     RestoreRailway, RestoreElsewhere, Work, Raise, Enrich, EnrichNothing, SendUpload, HearAnswer,
     UploadTimesOut, Report, Exit, Interrupt, Gone, Accept, Refuse, Answered
  <2> QED
    BY <2>1, <2>2, <2>3
<1> QED
  BY <1>3, <1>4 DEF GreenRunsArePublished

----------------------------------------------------------------------------
(* The theorems.                                                           *)

LEMMA RunInvInit ==
    ASSUME DailyRunAssumption, Init
    PROVE  RunInv
<1>1. Fresh \in Catalogue
  BY DEF Fresh, Catalogue
<1>2. rec = None /\ pc = "idle" /\ attempts = 0 /\ uploads = {} /\ answer = None /\ seen = None
      /\ artifact = None /\ live = Fresh /\ local = Fresh
      /\ receipts = [r \in RunIds |-> None] /\ operations = [r \in RunIds |-> None]
  BY DEF Init
<1>3. RunTypes
  BY <1>1, <1>2 DEF RunTypes
<1>4. rec \notin Record
  BY <1>2 DEF DailyRunAssumption
<1> QED
  BY <1>2, <1>3, <1>4
  DEF RunInv, RecordInv, RecordTypes, RecordIsOrdered, RecordIsFinal, RecordFollowsItsVerdict,
      WorkIsKept, IdleHoldsNothing, UploadsAreOwn, AnswersAreReceipts, UploadsAreComplete,
      GreenRunsArePublished, DailyRunAssumption

LEMMA RunInvNext ==
    ASSUME DailyRunAssumption, RunInv, [Next]_vars
    PROVE  RunInv'
BY RecordSteps, TypesNext, WorkNext, IdleNext, UploadsOwnNext, AnswersNext, CompleteNext, GreenNext
DEF RunInv

LEMMA RunInvHolds ==
    ASSUME DailyRunAssumption
    PROVE  Spec => []RunInv
BY RunInvInit, RunInvNext, PTL DEF Spec

\* A record tells its run: in order, nothing after a required failure, no phase
\* left open by a verdict (run_daily).
THEOREM RecordIsTheRun == Spec => []RecordTellsTheRun
<1>1. RunInv => RecordTellsTheRun
  BY DEF RunInv, RecordInv, RecordTypes, RecordFollowsItsVerdict, TellsItsRun, RecordTellsTheRun
<1> QED
  BY <1>1, RunInvHolds, DailyRunAssumption, PTL

\* What is on its way to Railway went through every required phase of its own
\* attempt, and a run called green has its receipt (ADR 0013; _publish).
THEOREM GreenRunsAreWhole == Spec => []PublishedRunsAreWhole
<1>1. RunInv => PublishedRunsAreWhole
  BY DEF RunInv, PublishedRunsAreWhole
<1> QED
  BY <1>1, RunInvHolds, DailyRunAssumption, PTL

\* Only a publication whose attempt had not seen the live catalogue takes work off it
\* (restore_from_railway; publish_catalogue).
THEOREM OnlyTheUnseenIsLost == Spec => OnlyUnseenWorkIsLost
<1>1. ASSUME RunInv, [Next]_vars
      PROVE  [live.done \subseteq live'.done \/ \E u \in uploads \ uploads' : u.seen # live]_vars
  <2>1. ASSUME NEW u \in uploads, Accept(u)
        PROVE  live.done \subseteq live'.done \/ \E v \in uploads \ uploads' : v.seen # live
    <3>1. live' = u.catalogue /\ u \in uploads \ uploads'
      BY <2>1 DEF Accept, Answered
    <3>2. live # None
      BY <1>1, DailyRunAssumption DEF RunInv, RunTypes, DailyRunAssumption
    <3>3. u.seen = live => live.done \subseteq u.catalogue.done
      BY <1>1, <3>2 DEF RunInv, UploadsAreOwn
    <3> QED
      BY <3>1, <3>3
  <2>2. CASE live' = live
    BY <2>2
  <2> QED
    BY <1>1, <2>1, <2>2
    DEF Next, Step, vars, railway, StartAttempt, BeginPhase, Finalize, RestoreRailway,
        RestoreElsewhere, Work, Raise, Enrich, EnrichNothing, SendUpload, HearAnswer,
        UploadTimesOut, Report, Exit, Interrupt, Gone, Refuse, Answered
<1> QED
  BY <1>1, RunInvHolds, DailyRunAssumption, PTL DEF Spec, OnlyUnseenWorkIsLost
=============================================================================
