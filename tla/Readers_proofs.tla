---------------------------- MODULE Readers_proofs ----------------------------
(* What readers are given: the weekly Alert emails, proved for every set of *)
(* Seekers, Roles and runs, every interval and every size of mail; and the  *)
(* board, for every catalogue, page size and cap of an employer.            *)
EXTENDS WeeklyAlerts, BoardReads, Orders_proofs

----------------------------------------------------------------------------
(* The inductive invariant.                                                *)

\* A run that is considering a Seeker has one; an idle run holds nothing.
RunsAreTidy ==
    \A r \in Runs :
        /\ pc[r] \in {"rank", "filter", "send", "record", "mark"} => target[r] \in Seekers
        /\ pc[r] \in {"idle", "query"} => due[r] = {} /\ target[r] = None
        /\ pc[r] = "idle" => before[r] = <<>>

\* What is kept of a mail only grows.
Grew(was, is) == (was # "sent" => is # "sent") /\ (was = "marked" => is = "marked")

\* What a run saw when it started is still so.
Outlived(snapshot) ==
    /\ Len(snapshot) <= Len(mails)
    /\ \A i \in DOMAIN snapshot : Grew(snapshot[i], mails[i].kept)

SnapshotsHold ==
    /\ \A r \in Runs : Outlived(before[r])
    /\ \A j \in DOMAIN mails : Outlived(mails[j].before)

\* The last mail of a run.
LastMail(r, i) ==
    /\ i \in DOMAIN mails /\ mails[i].by = r
    /\ \A j \in i + 1 .. Len(mails) : mails[j].by # r

\* The mail a run is recording is the one it sent, and nobody else records it.
Recording(r, i) ==
    /\ LastMail(r, i)
    /\ mails[i].to = target[r] /\ mails[i].roles = selected[r]
    /\ mails[i].at = moment[r] /\ mails[i].before = before[r]
    /\ mails[i].kept = IF pc[r] = "record" THEN "sent" ELSE "recorded"

RunsKnowTheirMail ==
    \A r \in Runs : pc[r] \in {"record", "mark"} =>
        \E i \in DOMAIN mails : Recording(r, i)

\* A recorded mail is in alerted_roles as long as the account is.
RecordsAreKept ==
    \A i \in DOMAIN mails :
        mails[i].kept # "sent" /\ mails[i].to \in accounts =>
            mails[i].roles \subseteq alerted[mails[i].to]

\* A run with an older moment was at work when the mail's run started.
Straggled(i) ==
    \E k \in DOMAIN mails : /\ mails[k].to = mails[i].to /\ mails[k].at < mails[i].at
                            /\ ~Marked(mails[i], k)

\* last_sent_at is the moment of a marked mail or a later one, unless a straggler
\* wrote an older one.
MarksAreKept ==
    \A i \in DOMAIN mails :
        mails[i].kept = "marked" /\ mails[i].to \in accounts =>
            /\ lastSent[mails[i].to] # None
            /\ mails[i].at <= lastSent[mails[i].to] \/ Straggled(i)

\* A run considers nobody whose mail was marked within the interval...
Rested(r, i) == mails[i].at + Interval <= moment[r] \/ Straggled(i)

RunsRest ==
    \A r \in Runs : \A i \in DOMAIN before[r] :
        (/\ before[r][i] = "marked" /\ mails[i].to \in accounts
         /\ mails[i].to \in due[r] \cup {target[r]}) => Rested(r, i)

\* ... and selects no Role that a mail recorded by then had.
RunsSelectNewRoles ==
    \A r \in Runs : \A i \in DOMAIN before[r] :
        (/\ pc[r] \in {"send", "record", "mark"}
         /\ before[r][i] # "sent" /\ mails[i].to \in accounts /\ mails[i].to = target[r])
        => mails[i].roles \cap selected[r] = {}

AlertInv ==
    /\ TypeOK /\ RunsAreTidy /\ SnapshotsHold /\ RunsKnowTheirMail /\ RecordsAreKept
    /\ MarksAreKept /\ RunsRest /\ RunsSelectNewRoles
    /\ DeletedSeekersLeaveNothing /\ KeptMailsAreHeeded

----------------------------------------------------------------------------
(* What happens to the mails.                                              *)

\* Filing a mail changes what is kept of it and nothing else.
LEMMA Filing ==
    ASSUME TypeOK, NEW m \in DOMAIN mails, NEW kept \in Kept,
           mails' = [mails EXCEPT ![m].kept = kept]
    PROVE  /\ mails' \in Seq(Mail) /\ Len(mails') = Len(mails) /\ DOMAIN mails' = DOMAIN mails
           /\ mails'[m] = [mails[m] EXCEPT !.kept = kept]
           /\ \A i \in DOMAIN mails \ {m} : mails'[i] = mails[i]
<1>1. mails \in Seq(Mail) /\ mails[m] \in Mail
  BY DEF TypeOK
<1>2. [mails[m] EXCEPT !.kept = kept] \in Mail
  BY <1>1 DEF Mail
<1>3. mails' = [mails EXCEPT ![m] = [mails[m] EXCEPT !.kept = kept]]
  OBVIOUS
<1> QED
  BY <1>1, <1>2, <1>3

\* A run has one last mail.
LEMMA OneLast ==
    ASSUME TypeOK, NEW r \in Runs, NEW i, LastMail(r, i)
    PROVE  Mine(r) = i
<1>1. mails \in Seq(Mail) /\ i \in 1 .. Len(mails)
  BY DEF TypeOK, LastMail
<1>2. ASSUME NEW j \in DOMAIN mails, LastMail(r, j) PROVE j = i
  BY <1>1, <1>2 DEF LastMail
<1>3. LastMail(r, Mine(r))
  BY DEF LastMail, Mine
<1> QED
  BY <1>2, <1>3 DEF LastMail

\* The mail a run is recording is Mine.
LEMMA MineIsLast ==
    ASSUME AlertInv, NEW r \in Runs, pc[r] \in {"record", "mark"}
    PROVE  Mine(r) \in DOMAIN mails /\ Recording(r, Mine(r))
<1>1. TypeOK
  BY DEF AlertInv
<1>2. PICK i \in DOMAIN mails : Recording(r, i)
  BY DEF AlertInv, RunsKnowTheirMail
<1>3. Mine(r) = i
  BY <1>1, <1>2, OneLast DEF Recording
<1> QED
  BY <1>2, <1>3

\* The mail a run sends.
NewMail(r) == [to |-> target[r], roles |-> selected[r], at |-> moment[r], kept |-> "sent",
               by |-> r, before |-> before[r]]

\* What a step may do to the mails: nothing, a new one, or file one a run is at.
LEMMA MailSteps ==
    ASSUME AlertInv, [Next]_vars
    PROVE  \/ mails' = mails
           \/ \E r \in Runs : Send(r)
           \/ \E r \in Runs : Record(r) /\ target[r] \in accounts
           \/ \E r \in Runs : MarkSent(r)
BY DEF Next, vars, settings, Tick, SetOptIn, VerifyEmail, DeleteSeeker, Start, Step, Query,
       Consider, Rank, SelectRoles, SendFails, Finish, Record, Abort, Crash

\* Mails stay as they left; what is kept of them grows.
MailsStay ==
    /\ mails' \in Seq(Mail) /\ Len(mails) <= Len(mails')
    /\ \A i \in DOMAIN mails :
        /\ i \in DOMAIN mails'
        /\ mails'[i].to = mails[i].to /\ mails'[i].roles = mails[i].roles
        /\ mails'[i].at = mails[i].at /\ mails'[i].by = mails[i].by
        /\ mails'[i].before = mails[i].before
        /\ Grew(mails[i].kept, mails'[i].kept)

LEMMA Filed ==
    ASSUME AlertInv, NEW r \in Runs, pc[r] \in {"record", "mark"}, NEW kept \in Kept,
           kept = IF pc[r] = "record" THEN "recorded" ELSE "marked",
           mails' = [mails EXCEPT ![Mine(r)].kept = kept]
    PROVE  MailsStay /\ Len(mails') = Len(mails)
<1>1. TypeOK /\ mails \in Seq(Mail)
  BY DEF AlertInv, TypeOK
<1>2. Mine(r) \in DOMAIN mails
      /\ mails[Mine(r)].kept = IF pc[r] = "record" THEN "sent" ELSE "recorded"
  BY MineIsLast DEF Recording
<1>3. /\ mails' \in Seq(Mail) /\ Len(mails') = Len(mails) /\ DOMAIN mails' = DOMAIN mails
      /\ mails'[Mine(r)] = [mails[Mine(r)] EXCEPT !.kept = kept]
      /\ \A i \in DOMAIN mails \ {Mine(r)} : mails'[i] = mails[i]
  BY <1>1, <1>2, Filing
<1>4. ASSUME NEW i \in DOMAIN mails
      PROVE  /\ mails'[i].to = mails[i].to /\ mails'[i].roles = mails[i].roles
             /\ mails'[i].at = mails[i].at /\ mails'[i].by = mails[i].by
             /\ mails'[i].before = mails[i].before
             /\ Grew(mails[i].kept, mails'[i].kept)
  <2>1. CASE i # Mine(r)
    BY <1>3, <2>1 DEF Grew
  <2>2. CASE i = Mine(r)
    <3>1. mails[i] \in Mail
      BY <1>1
    <3> QED
      BY <1>2, <1>3, <2>2, <3>1 DEF Grew, Mail
  <2> QED
    BY <2>1, <2>2
<1> QED
  BY <1>1, <1>3, <1>4 DEF MailsStay

LEMMA MailsOnlyGrow ==
    ASSUME AlertInv, [Next]_vars
    PROVE  MailsStay
<1>1. TypeOK /\ mails \in Seq(Mail) /\ RunsAreTidy
  BY DEF AlertInv, TypeOK
<1>2. CASE mails' = mails
  BY <1>1, <1>2 DEF MailsStay, Grew
<1>3. ASSUME NEW r \in Runs, Send(r) PROVE MailsStay
  <2>1. NewMail(r) \in Mail
    BY <1>1, <1>3 DEF Send, TypeOK, RunsAreTidy, NewMail, Mail, Kept
  <2>2. mails' = Append(mails, NewMail(r))
    BY <1>3 DEF Send, NewMail
  <2> QED
    BY <1>1, <2>1, <2>2 DEF MailsStay, Grew
<1>4. ASSUME NEW r \in Runs, Record(r), target[r] \in accounts PROVE MailsStay
  BY <1>4, Filed DEF Record, Kept
<1>5. ASSUME NEW r \in Runs, MarkSent(r) PROVE MailsStay
  BY <1>5, Filed DEF MarkSent, Kept
<1> QED
  BY <1>2, <1>3, <1>4, <1>5, MailSteps

----------------------------------------------------------------------------
(* Types.                                                                  *)

LEMMA TypesInit ==
    ASSUME AlertsAssumption, Init
    PROVE  TypeOK /\ RunsAreTidy
<1>1. /\ 0 \in 0 .. MaxTime /\ 0 \in 0 .. 0 /\ <<>> \in Seq(Kept) /\ <<>> \in Seq(Mail)
  BY DEF AlertsAssumption
<1> QED
  BY <1>1 DEF Init, TypeOK, RunsAreTidy

\* A run that is over holds nothing.
LEMMA EndTypes ==
    ASSUME AlertsAssumption, TypeOK, RunsAreTidy, NEW r \in Runs, End(r),
           UNCHANGED <<clock, settings, mails>>
    PROVE  TypeOK' /\ RunsAreTidy'
<1>1. 0 \in 0 .. clock /\ <<>> \in Seq(Kept)
  BY DEF TypeOK, AlertsAssumption
<1>2. /\ clock' \in 0 .. MaxTime
      /\ verified' \subseteq accounts' /\ accounts' \subseteq Seekers
      /\ optedIn' \in [Seekers -> BOOLEAN]
      /\ lastSent' \in [Seekers -> (0 .. clock') \cup {None}]
      /\ alerted' \in [Seekers -> SUBSET Roles]
      /\ mails' \in Seq(Mail)
  BY DEF TypeOK, settings
<1>3. pc' \in [Runs -> {"idle", "query", "next", "rank", "filter", "send", "record", "mark"}]
  BY DEF TypeOK, End
<1>4. moment' \in [Runs -> 0 .. clock']
  BY <1>1 DEF TypeOK, End
<1>5. before' \in [Runs -> Seq(Kept)]
  BY <1>1 DEF TypeOK, End
<1>6. due' \in [Runs -> SUBSET Seekers]
  BY DEF TypeOK, End
<1>7. target' \in [Runs -> Seekers \cup {None}]
  BY DEF TypeOK, End
<1>8. selected' \in [Runs -> SUBSET Roles]
  BY DEF TypeOK, End
<1>9. RunsAreTidy'
  BY DEF TypeOK, RunsAreTidy, End
<1> QED
  BY <1>2, <1>3, <1>4, <1>5, <1>6, <1>7, <1>8, <1>9 DEF TypeOK

LEMMA TypesNext ==
    ASSUME AlertsAssumption, AlertInv, [Next]_vars
    PROVE  TypeOK' /\ RunsAreTidy'
<1> USE DEF settings
<1>1. TypeOK /\ RunsAreTidy /\ mails' \in Seq(Mail)
  BY MailsOnlyGrow DEF AlertInv, MailsStay
<1>2. CASE UNCHANGED vars
  BY <1>1, <1>2 DEF vars, TypeOK, RunsAreTidy
<1>18. 0 \in 0 .. clock /\ <<>> \in Seq(Kept)
  BY <1>1 DEF TypeOK, AlertsAssumption
<1>3. CASE Tick
  BY <1>1, <1>3 DEF Tick, TypeOK, RunsAreTidy
<1>4. ASSUME NEW s \in Seekers, NEW choice \in BOOLEAN, SetOptIn(s, choice)
      PROVE  TypeOK' /\ RunsAreTidy'
  BY <1>1, <1>4 DEF SetOptIn, TypeOK, RunsAreTidy
<1>5. ASSUME NEW s \in Seekers, VerifyEmail(s) PROVE TypeOK' /\ RunsAreTidy'
  BY <1>1, <1>5 DEF VerifyEmail, TypeOK, RunsAreTidy
<1>6. ASSUME NEW s \in Seekers, DeleteSeeker(s) PROVE TypeOK' /\ RunsAreTidy'
  BY <1>1, <1>6 DEF DeleteSeeker, TypeOK, RunsAreTidy
<1>7. ASSUME NEW r \in Runs, Start(r) PROVE TypeOK' /\ RunsAreTidy'
  <2>1. [i \in DOMAIN mails |-> mails[i].kept] \in Seq(Kept)
    <3>1. mails \in Seq(Mail) /\ \A i \in DOMAIN mails : mails[i].kept \in Kept
      <4>1. mails \in Seq(Mail) /\ \A i \in DOMAIN mails : mails[i] \in Mail
        BY <1>1 DEF TypeOK
      <4> QED
        BY <4>1 DEF Mail
    <3>2. DOMAIN mails = 1 .. Len(mails) /\ Len(mails) \in Nat
      BY <3>1
    <3>3. \A i \in 1 .. Len(mails) : mails[i].kept \in Kept
      BY <3>1, <3>2
    <3>4. [i \in 1 .. Len(mails) |-> mails[i].kept] \in [1 .. Len(mails) -> Kept]
      BY <3>3
    <3> QED
      BY <3>2, <3>4, IsASeq
  <2> QED
    BY <1>1, <1>7, <2>1 DEF Start, TypeOK, RunsAreTidy
<1>8. ASSUME NEW r \in Runs, Query(r) PROVE TypeOK' /\ RunsAreTidy'
  BY <1>1, <1>8 DEF Query, TypeOK, RunsAreTidy
<1>9. ASSUME NEW r \in Runs, Consider(r) PROVE TypeOK' /\ RunsAreTidy'
  <2>1. PICK s \in due[r] :
          /\ due' = [due EXCEPT ![r] = @ \ {s}]
          /\ \/ target' = [target EXCEPT ![r] = s] /\ pc' = [pc EXCEPT ![r] = "rank"]
             \/ UNCHANGED <<target, pc>>
    BY <1>9 DEF Consider
  <2>2. s \in Seekers
    BY <1>1, <2>1 DEF TypeOK
  <2>3. CASE UNCHANGED <<target, pc>>
    BY <1>1, <1>9, <2>1, <2>2, <2>3 DEF Consider, TypeOK, RunsAreTidy
  <2>4. CASE target' = [target EXCEPT ![r] = s] /\ pc' = [pc EXCEPT ![r] = "rank"]
    BY <1>1, <1>9, <2>1, <2>2, <2>4 DEF Consider, TypeOK, RunsAreTidy
  <2> QED
    BY <2>1, <2>3, <2>4
<1>10. ASSUME NEW r \in Runs, Rank(r) PROVE TypeOK' /\ RunsAreTidy'
  BY <1>1, <1>10, ZenonT(60) DEF Rank, GoOn, TypeOK, RunsAreTidy
<1>11. ASSUME NEW r \in Runs, SelectRoles(r) PROVE TypeOK' /\ RunsAreTidy'
  <2>1. CASE GoOn(r)
    BY <1>1, <1>11, <2>1 DEF SelectRoles, GoOn, TypeOK, RunsAreTidy
  <2>2. ASSUME NEW chosen \in Fresh(target[r]), selected' = [selected EXCEPT ![r] = chosen],
               pc' = [pc EXCEPT ![r] = "send"], UNCHANGED target
        PROVE  TypeOK' /\ RunsAreTidy'
    <3>1. chosen \in SUBSET Roles
      BY DEF Fresh
    <3> QED
      BY <1>1, <1>11, <2>2, <3>1 DEF SelectRoles, TypeOK, RunsAreTidy
  <2> QED
    BY <1>11, <2>1, <2>2 DEF SelectRoles
<1>12. ASSUME NEW r \in Runs, Send(r) PROVE TypeOK' /\ RunsAreTidy'
  BY <1>1, <1>12 DEF Send, TypeOK, RunsAreTidy
<1>13. ASSUME NEW r \in Runs, SendFails(r) PROVE TypeOK' /\ RunsAreTidy'
  BY <1>1, <1>13 DEF SendFails, GoOn, TypeOK, RunsAreTidy
<1>14. ASSUME NEW r \in Runs, Record(r) PROVE TypeOK' /\ RunsAreTidy'
  <2>1. CASE target[r] \in accounts
    <3>1. alerted' \in [Seekers -> SUBSET Roles]
      <4>1. selected[r] \in SUBSET Roles /\ target[r] \in Seekers /\ alerted[target[r]] \in SUBSET Roles
        BY <1>1, <2>1 DEF TypeOK
      <4>2. alerted' = [alerted EXCEPT ![target[r]] = @ \cup selected[r]]
        BY <1>14, <2>1 DEF Record
      <4>3. alerted[target[r]] \cup selected[r] \in SUBSET Roles
        BY <4>1
      <4> QED
        BY <1>1, <4>1, <4>2, <4>3 DEF TypeOK
    <3>2. pc' = [pc EXCEPT ![r] = "mark"] /\ target[r] \in Seekers
      BY <1>1, <1>14, <2>1 DEF Record, TypeOK
    <3> QED
      BY <1>1, <1>14, <2>1, <3>1, <3>2 DEF Record, TypeOK, RunsAreTidy
  <2>2. CASE target[r] \notin accounts
    BY <1>1, <1>14, <2>2, EndTypes DEF Record
  <2> QED
    BY <2>1, <2>2
<1>15. ASSUME NEW r \in Runs, MarkSent(r) PROVE TypeOK' /\ RunsAreTidy'
  BY <1>1, <1>15 DEF MarkSent, GoOn, TypeOK, RunsAreTidy
<1>16. ASSUME NEW r \in Runs, Finish(r) \/ Abort(r) PROVE TypeOK' /\ RunsAreTidy'
  BY <1>1, <1>16, EndTypes DEF Finish, Abort
<1>17. CASE Crash
  BY <1>18, <1>1, <1>17 DEF Crash, TypeOK, RunsAreTidy
<1> QED
  BY <1>2, <1>3, <1>4, <1>5, <1>6, <1>7, <1>8, <1>9, <1>10, <1>11, <1>12, <1>13, <1>14, <1>15,
     <1>16, <1>17 DEF Next, Step

----------------------------------------------------------------------------
(* What a step does to the accounts and to each run.                       *)

\* No account comes back, and what is recorded of a living one stays.
LEMMA AccountsShrink ==
    ASSUME AlertInv, [Next]_vars
    PROVE  /\ accounts' \subseteq accounts
           /\ \A s \in accounts' : alerted[s] \subseteq alerted'[s]
<1>1. TypeOK
  BY DEF AlertInv
<1>2. ASSUME NEW s \in Seekers, DeleteSeeker(s)
      PROVE  accounts' \subseteq accounts /\ \A t \in accounts' : alerted[t] \subseteq alerted'[t]
  BY <1>1, <1>2 DEF DeleteSeeker, TypeOK
<1>3. ASSUME NEW r \in Runs, Record(r)
      PROVE  accounts' \subseteq accounts /\ \A t \in accounts' : alerted[t] \subseteq alerted'[t]
  <2>1. accounts' = accounts /\ accounts \subseteq Seekers
    BY <1>1, <1>3 DEF Record, TypeOK
  <2>2. CASE target[r] \in accounts
    <3>1. alerted' = [alerted EXCEPT ![target[r]] = alerted[target[r]] \cup selected[r]]
      BY <1>3, <2>2 DEF Record
    <3>2. alerted \in [Seekers -> SUBSET Roles]
      BY <1>1 DEF TypeOK
    <3>3. ASSUME NEW t \in accounts PROVE alerted[t] \subseteq alerted'[t]
      <4>1. alerted'[t] = IF t = target[r] THEN alerted[t] \cup selected[r] ELSE alerted[t]
        BY <2>1, <3>1, <3>2
      <4> QED
        BY <4>1
    <3> QED
      BY <2>1, <3>3
  <2>3. CASE target[r] \notin accounts
    BY <1>3, <2>1, <2>3 DEF Record
  <2> QED
    BY <2>2, <2>3
<1>4. \/ accounts' = accounts /\ alerted' = alerted
      \/ \E s \in Seekers : DeleteSeeker(s)
      \/ \E r \in Runs : Record(r)
  BY DEF Next, vars, settings, Tick, SetOptIn, VerifyEmail, Start, Step, Query,
         Consider, Rank, SelectRoles, Send, SendFails, Finish, MarkSent, Abort, Crash
<1> QED
  BY <1>2, <1>3, <1>4

\* last_sent_at of a living account is written by mark_alert_sent only.
LEMMA MarkSteps ==
    ASSUME AlertInv, [Next]_vars, NEW s \in accounts'
    PROVE  \/ lastSent'[s] = lastSent[s]
           \/ \E r \in Runs : MarkSent(r) /\ target[r] = s /\ lastSent'[s] = moment[r]
<1>1. TypeOK
  BY DEF AlertInv
<1>2. ASSUME NEW t \in Seekers, DeleteSeeker(t) PROVE lastSent'[s] = lastSent[s]
  BY <1>1, <1>2 DEF DeleteSeeker, TypeOK
<1>3. ASSUME NEW r \in Runs, MarkSent(r)
      PROVE  lastSent'[s] = lastSent[s] \/ (target[r] = s /\ lastSent'[s] = moment[r])
  BY <1>1, <1>3 DEF MarkSent, TypeOK
<1>4. \/ lastSent' = lastSent
      \/ \E t \in Seekers : DeleteSeeker(t)
      \/ \E r \in Runs : MarkSent(r)
  BY DEF Next, vars, settings, Tick, SetOptIn, VerifyEmail, Start, Step, Query,
         Consider, Rank, SelectRoles, Send, SendFails, Finish, Record, Abort, Crash
<1> QED
  BY <1>2, <1>3, <1>4

\* A step of one run leaves every other run where it was.
AtRest(r) ==
    /\ pc'[r] = pc[r] /\ moment'[r] = moment[r] /\ before'[r] = before[r]
    /\ due'[r] = due[r] /\ target'[r] = target[r] /\ selected'[r] = selected[r]

LEMMA OthersRest ==
    ASSUME AlertInv, [Next]_vars, NEW r \in Runs
    PROVE  AtRest(r) \/ Start(r) \/ Step(r) \/ Abort(r) \/ Crash
<1>1. TypeOK
  BY DEF AlertInv
<1>2. CASE UNCHANGED <<pc, moment, before, due, target, selected>>
  BY <1>2 DEF AtRest
<1>3. ASSUME NEW q \in Runs, q # r, Start(q) \/ Step(q) \/ Abort(q)
      PROVE  AtRest(r)
  <2>1. CASE Start(q) \/ Query(q)
    BY <1>1, <1>3, <2>1 DEF Start, Query, TypeOK, AtRest
  <2>2. CASE Consider(q)
    BY <1>1, <1>3, <2>2 DEF Consider, TypeOK, AtRest
  <2>3. CASE Rank(q) \/ SelectRoles(q)
    BY <1>1, <1>3, <2>3 DEF Rank, SelectRoles, GoOn, TypeOK, AtRest
  <2>4. CASE Send(q) \/ SendFails(q)
    BY <1>1, <1>3, <2>4 DEF Send, SendFails, GoOn, TypeOK, AtRest
  <2>5. CASE Record(q)
    BY <1>1, <1>3, <2>5 DEF Record, End, TypeOK, AtRest
  <2>6. CASE MarkSent(q)
    BY <1>1, <1>3, <2>6 DEF MarkSent, GoOn, TypeOK, AtRest
  <2>7. CASE Finish(q) \/ Abort(q)
    BY <1>1, <1>3, <2>7 DEF Finish, Abort, End, TypeOK, AtRest
  <2> QED
    BY <1>3, <2>1, <2>2, <2>3, <2>4, <2>5, <2>6, <2>7 DEF Step
<1>4. CASE Tick \/ (\E s \in Seekers : \E choice \in BOOLEAN : SetOptIn(s, choice))
           \/ (\E s \in Seekers : VerifyEmail(s) \/ DeleteSeeker(s))
  BY <1>2, <1>4 DEF Tick, SetOptIn, VerifyEmail, DeleteSeeker
<1> QED
  BY <1>2, <1>3, <1>4 DEF Next, vars

\* A run starts, reads who is due, ends, or goes through those it has.
LEMMA RunSteps ==
    ASSUME AlertInv, [Next]_vars, NEW r \in Runs
    PROVE  \/ Start(r)
           \/ Query(r)
           \/ before'[r] = <<>> /\ pc'[r] = "idle"
           \/ /\ before'[r] = before[r] /\ moment'[r] = moment[r]
              /\ due'[r] \cup {target'[r]} \subseteq due[r] \cup {target[r], None}
              /\ \/ pc'[r] \notin {"send", "record", "mark"}
                 \/ /\ target'[r] = target[r] /\ selected'[r] = selected[r]
                    /\ pc[r] \in {"send", "record", "mark"}
                 \/ SelectRoles(r) /\ target'[r] = target[r]
<1>1. TypeOK
  BY DEF AlertInv
<1>2. CASE AtRest(r)
  BY <1>2 DEF AtRest
<1>4. CASE Consider(r)
  BY <1>1, <1>4 DEF Consider, TypeOK
<1>5. CASE Rank(r)
  BY <1>1, <1>5 DEF Rank, GoOn, TypeOK
<1>6. CASE SelectRoles(r)
  BY <1>1, <1>6 DEF SelectRoles, GoOn, TypeOK
<1>7. CASE Send(r)
  BY <1>1, <1>7 DEF Send, TypeOK
<1>8. CASE SendFails(r)
  BY <1>1, <1>8 DEF SendFails, GoOn, TypeOK
<1>9. CASE Record(r)
  BY <1>1, <1>9 DEF Record, End, TypeOK
<1>10. CASE MarkSent(r)
  BY <1>1, <1>10 DEF MarkSent, GoOn, TypeOK
<1>11. CASE Finish(r) \/ Abort(r)
  BY <1>1, <1>11 DEF Finish, Abort, End, TypeOK
<1>12. CASE Crash
  BY <1>1, <1>12 DEF Crash, TypeOK
<1> QED
  BY <1>2, <1>4, <1>5, <1>6, <1>7, <1>8, <1>9, <1>10, <1>11, <1>12, OthersRest DEF Step

\* A run gets to a mail by sending it, and stays there until it has recorded it.
LEMMA RunPhases ==
    ASSUME AlertInv, [Next]_vars, NEW r \in Runs, pc'[r] \in {"record", "mark"}
    PROVE  \/ Send(r) \/ Record(r)
           \/ pc[r] \in {"record", "mark"} /\ AtRest(r)
<1>1. TypeOK
  BY DEF AlertInv
<1>2. CASE AtRest(r)
  BY <1>2 DEF AtRest
<1>3. ~(Start(r) \/ Query(r) \/ Consider(r) \/ Rank(r) \/ SelectRoles(r) \/ SendFails(r))
  BY <1>1 DEF Start, Query, Consider, Rank, SelectRoles, SendFails, GoOn, TypeOK
<1>4. ~(MarkSent(r) \/ Finish(r) \/ Abort(r) \/ Crash)
  BY <1>1 DEF MarkSent, Finish, Abort, Crash, GoOn, End, TypeOK
<1> QED
  BY <1>2, <1>3, <1>4, OthersRest DEF Step

----------------------------------------------------------------------------
(* Each part of the invariant is kept.                                     *)

\* Once a straggler, always one.
LEMMA StraggledStays ==
    ASSUME MailsStay, NEW i \in DOMAIN mails, Straggled(i)
    PROVE  Straggled(i)'
BY DEF MailsStay, Straggled, Marked

LEMMA OutlivedStays ==
    ASSUME TypeOK, MailsStay, NEW snapshot \in Seq(Kept), Outlived(snapshot)
    PROVE  /\ Len(snapshot) <= Len(mails')
           /\ \A i \in DOMAIN snapshot : Grew(snapshot[i], mails'[i].kept)
<1>1. DOMAIN snapshot \subseteq DOMAIN mails /\ Len(snapshot) <= Len(mails')
  BY DEF TypeOK, MailsStay, Outlived
<1> QED
  BY <1>1 DEF MailsStay, Outlived, Grew

LEMMA SnapshotsNext ==
    ASSUME AlertInv, [Next]_vars
    PROVE  SnapshotsHold'
<1>1. TypeOK /\ SnapshotsHold /\ MailsStay /\ mails \in Seq(Mail)
  BY MailsOnlyGrow DEF AlertInv, TypeOK
<1>2. ASSUME NEW r \in Runs PROVE Outlived(before[r])'
  <2>1. CASE before'[r] = before[r]
    <3>1. before[r] \in Seq(Kept) /\ Outlived(before[r])
      BY <1>1 DEF TypeOK, SnapshotsHold
    <3> QED
      BY <1>1, <2>1, <3>1, OutlivedStays DEF Outlived
  <2>2. CASE before'[r] = <<>>
    BY <1>1, <2>2 DEF Outlived, MailsStay
  <2>3. CASE Start(r)
    BY <1>1, <2>3 DEF Start, Outlived, Grew, TypeOK
  <2>4. CASE Query(r)
    BY <2>1, <2>4 DEF Query
  <2> QED
    BY <2>1, <2>2, <2>3, <2>4, RunSteps
<1>3. ASSUME NEW j \in DOMAIN mails' PROVE Outlived(mails[j].before)'
  <2>1. CASE j \in DOMAIN mails
    <3>1. mails[j] \in Mail /\ Outlived(mails[j].before) /\ mails'[j].before = mails[j].before
      BY <1>1, <2>1 DEF SnapshotsHold, MailsStay
    <3>2. mails[j].before \in Seq(Kept)
      BY <3>1 DEF Mail
    <3> QED
      BY <1>1, <3>1, <3>2, OutlivedStays DEF Outlived
  <2>2. CASE j \notin DOMAIN mails
    <3>1. PICK r \in Runs : Send(r)
      BY <2>2, MailSteps DEF Record, MarkSent
    <3>2. mails'[j].before = before[r] /\ before'[r] = before[r]
      BY <1>1, <1>3, <2>2, <3>1 DEF Send
    <3> QED
      BY <1>2, <3>2 DEF Outlived
  <2> QED
    BY <2>1, <2>2
<1> QED
  BY <1>2, <1>3 DEF SnapshotsHold

LEMMA RunsKnowTheirMailNext ==
    ASSUME AlertInv, [Next]_vars
    PROVE  RunsKnowTheirMail'
<1>1. TypeOK /\ MailsStay /\ mails \in Seq(Mail) /\ mails' \in Seq(Mail)
  BY MailsOnlyGrow DEF AlertInv, TypeOK, MailsStay
<1> SUFFICES ASSUME NEW r \in Runs, pc'[r] \in {"record", "mark"}
             PROVE  \E i \in DOMAIN mails' : Recording(r, i)'
  BY DEF RunsKnowTheirMail
\* The run has just sent it.
<1>2. CASE Send(r)
  <2>0. PICK n \in Nat : n = Len(mails) + 1
    BY <1>1
  <2>1. n \in DOMAIN mails' /\ mails'[n] = NewMail(r) /\ Len(mails') = n
    <3>1. mails' = Append(mails, NewMail(r))
      BY <1>2 DEF Send, NewMail
    <3> QED
      BY <1>1, <2>0, <3>1
  <2>2. LastMail(r, n)'
    BY <2>1 DEF LastMail, NewMail
  <2>3. /\ target'[r] = target[r] /\ selected'[r] = selected[r] /\ moment'[r] = moment[r]
        /\ before'[r] = before[r] /\ pc'[r] = "record"
    BY <1>1, <1>2 DEF Send, TypeOK
  <2> QED
    BY <2>1, <2>2, <2>3 DEF NewMail, Recording
\* It has just recorded it.
<1>3. CASE Record(r)
  <2>1. target[r] \in accounts /\ pc[r] = "record"
    BY <1>1, <1>3 DEF Record, End, TypeOK
  <2>2. PICK m \in DOMAIN mails : m = Mine(r) /\ Recording(r, m)
    BY <2>1, MineIsLast
  <2>3. mails' = [mails EXCEPT ![m].kept = "recorded"] /\ pc' = [pc EXCEPT ![r] = "mark"]
        /\ UNCHANGED <<moment, before, target, selected>>
    BY <1>3, <2>1, <2>2 DEF Record
  <2>4. /\ Len(mails') = Len(mails) /\ DOMAIN mails' = DOMAIN mails
        /\ mails'[m] = [mails[m] EXCEPT !.kept = "recorded"]
    BY <1>1, <2>2, <2>3, Filing DEF Kept
  <2>5. mails'[m].kept = "recorded"
    BY <1>1, <2>2, <2>4 DEF Mail
  <2>6. LastMail(r, m)' /\ pc'[r] = "mark"
    <3>1. pc'[r] = "mark"
      BY <1>1, <2>3 DEF TypeOK
    <3>2. LastMail(r, m) /\ \A i \in DOMAIN mails : mails'[i].by = mails[i].by
      BY <1>1, <2>2 DEF MailsStay, Recording
    <3>3. DOMAIN mails = 1 .. Len(mails) /\ m \in Nat
      BY <1>1
    <3>4. LastMail(r, m)'
      BY <2>4, <3>2, <3>3 DEF LastMail
    <3> QED
      BY <3>1, <3>4
  <2> QED
    BY <1>1, <2>2, <2>3, <2>4, <2>5, <2>6 DEF MailsStay, Recording
\* It was at it already, and another run's steps leave it alone.
<1>4. CASE ~Send(r) /\ ~Record(r)
  <2>1. /\ pc[r] \in {"record", "mark"} /\ pc'[r] = pc[r]
        /\ target'[r] = target[r] /\ selected'[r] = selected[r]
        /\ moment'[r] = moment[r] /\ before'[r] = before[r]
    BY <1>1, <1>4, RunPhases DEF AtRest
  <2>2. PICK m \in DOMAIN mails : m = Mine(r) /\ Recording(r, m)
    BY <2>1, MineIsLast
  <2>3. ASSUME NEW q \in Runs, q # r, pc[q] \in {"record", "mark"}
        PROVE  Mine(q) \in DOMAIN mails /\ Mine(q) # m
    BY <2>2, <2>3, MineIsLast DEF LastMail, Recording
  <2>4. mails'[m].kept = mails[m].kept /\ LastMail(r, m)'
    <3>1. CASE mails' = mails
      BY <2>2, <3>1 DEF LastMail, Recording
    <3>2. ASSUME NEW q \in Runs, Send(q) PROVE mails'[m].kept = mails[m].kept /\ LastMail(r, m)'
      <4>1. q # r /\ mails' = Append(mails, NewMail(q))
        BY <1>4, <3>2 DEF Send, NewMail
      <4>2. Len(mails') = Len(mails) + 1 /\ mails'[Len(mails) + 1].by = q
            /\ \A i \in DOMAIN mails : mails'[i] = mails[i]
        BY <1>1, <4>1 DEF NewMail
      <4> QED
        BY <1>1, <2>2, <4>1, <4>2 DEF LastMail, Recording
    <3>3. ASSUME NEW q \in Runs, q # r, pc[q] \in {"record", "mark"}, NEW kept \in Kept,
                 mails' = [mails EXCEPT ![Mine(q)].kept = kept]
          PROVE  mails'[m].kept = mails[m].kept /\ LastMail(r, m)'
      <4>1. Len(mails') = Len(mails) /\ DOMAIN mails' = DOMAIN mails /\ mails'[m] = mails[m]
        BY <1>1, <2>2, <2>3, <3>3, Filing
      <4> QED
        BY <1>1, <2>2, <4>1 DEF LastMail, MailsStay, Recording
    <3>4. ASSUME NEW q \in Runs, Record(q), target[q] \in accounts
          PROVE  mails'[m].kept = mails[m].kept /\ LastMail(r, m)'
      BY <1>4, <3>3, <3>4 DEF Record, Kept
    <3>5. ASSUME NEW q \in Runs, MarkSent(q)
          PROVE  mails'[m].kept = mails[m].kept /\ LastMail(r, m)'
      <4>1. q # r
        BY <1>1, <2>1, <3>5 DEF MarkSent, GoOn, TypeOK
      <4> QED
        BY <3>3, <3>5, <4>1 DEF MarkSent, Kept
    <3> QED
      BY <3>1, <3>2, <3>4, <3>5, MailSteps
  <2> QED
    BY <1>1, <2>1, <2>2, <2>4 DEF MailsStay, Recording
<1> QED
  BY <1>2, <1>3, <1>4

LEMMA RecordsNext ==
    ASSUME AlertInv, [Next]_vars
    PROVE  RecordsAreKept'
<1>1. TypeOK /\ MailsStay /\ RecordsAreKept /\ mails \in Seq(Mail) /\ mails' \in Seq(Mail)
  BY MailsOnlyGrow DEF AlertInv, TypeOK, MailsStay
<1> SUFFICES ASSUME NEW i \in DOMAIN mails', mails'[i].kept # "sent", mails'[i].to \in accounts'
             PROVE  mails'[i].roles \subseteq alerted'[mails'[i].to]
  BY DEF RecordsAreKept
<1>2. CASE i \in DOMAIN mails /\ mails[i].kept # "sent"
  BY <1>1, <1>2, AccountsShrink DEF MailsStay, RecordsAreKept
<1>3. CASE i \in DOMAIN mails /\ mails[i].kept = "sent"
  <2>1. PICK r \in Runs : Record(r) /\ target[r] \in accounts /\ i = Mine(r)
    <3>1. ASSUME NEW r \in Runs, pc[r] \in {"record", "mark"}, NEW kept \in Kept,
                 mails' = [mails EXCEPT ![Mine(r)].kept = kept]
          PROVE  i = Mine(r)
      BY <1>1, <1>3, <3>1, MineIsLast, Filing
    <3>2. ASSUME NEW r \in Runs, MarkSent(r) PROVE FALSE
      BY <1>3, <3>1, <3>2, MineIsLast DEF MarkSent, Kept, Recording
    <3>3. ASSUME NEW r \in Runs, Send(r) PROVE FALSE
      <4>1. mails' = Append(mails, NewMail(r))
        BY <3>3 DEF Send, NewMail
      <4> QED
        BY <1>1, <1>3, <4>1
    <3>4. PICK r \in Runs : Record(r) /\ target[r] \in accounts
      BY <1>3, <3>2, <3>3, MailSteps
    <3> QED
      BY <3>1, <3>4 DEF Record, Kept
  <2>2. mails[i].to = target[r] /\ mails[i].roles = selected[r]
    BY <2>1, MineIsLast DEF Record, Recording
  <2>3. target[r] \in Seekers /\ alerted'[target[r]] = alerted[target[r]] \cup selected[r]
    BY <1>1, <2>1 DEF Record, TypeOK
  <2> QED
    BY <1>1, <1>3, <2>2, <2>3 DEF MailsStay
<1>4. CASE i \notin DOMAIN mails
  <2>1. PICK r \in Runs : Send(r)
    BY <1>4, MailSteps DEF Record, MarkSent
  <2>2. mails' = Append(mails, NewMail(r))
    BY <2>1 DEF Send, NewMail
  <2> QED
    BY <1>1, <1>4, <2>2 DEF NewMail
<1> QED
  BY <1>2, <1>3, <1>4

LEMMA MarksNext ==
    ASSUME AlertsAssumption, AlertInv, [Next]_vars
    PROVE  MarksAreKept'
<1>1. TypeOK /\ MailsStay /\ MarksAreKept /\ SnapshotsHold
      /\ mails \in Seq(Mail) /\ mails' \in Seq(Mail)
  BY MailsOnlyGrow DEF AlertInv, TypeOK, MailsStay
<1> SUFFICES ASSUME NEW i \in DOMAIN mails', mails'[i].kept = "marked", mails'[i].to \in accounts'
             PROVE  /\ lastSent'[mails'[i].to] # None
                    /\ mails'[i].at <= lastSent'[mails'[i].to] \/ Straggled(i)'
  BY DEF MarksAreKept
<1>2. i \in DOMAIN mails
  <2>1. SUFFICES ASSUME i \notin DOMAIN mails PROVE FALSE
    OBVIOUS
  <2>2. PICK r \in Runs : Send(r)
    BY <2>1, MailSteps DEF Record, MarkSent
  <2>3. mails' = Append(mails, NewMail(r))
    BY <2>2 DEF Send, NewMail
  <2> QED
    BY <1>1, <2>1, <2>3 DEF NewMail
<1>3. PICK s \in accounts' : s = mails[i].to /\ s = mails'[i].to /\ s \in accounts
  BY <1>1, <1>2, AccountsShrink DEF MailsStay
<1>4. mails'[i].at = mails[i].at /\ mails[i].at \in Nat
  <2>1. mails[i] \in Mail
    BY <1>1, <1>2
  <2> QED
    BY <1>1, <1>2, <2>1 DEF MailsStay, Mail
\* Marked before, and nobody has written over it.
<1>5. CASE mails[i].kept = "marked" /\ lastSent'[s] = lastSent[s]
  BY <1>1, <1>2, <1>3, <1>4, <1>5, StraggledStays DEF MarksAreKept
\* A run writes its moment.
<1>6. ASSUME NEW r \in Runs, MarkSent(r), target[r] = s, lastSent'[s] = moment[r]
      PROVE  /\ lastSent'[s] # None
             /\ mails[i].at <= lastSent'[s] \/ Straggled(i)'
  <2>1. PICK m \in DOMAIN mails : m = Mine(r) /\ Recording(r, m)
    BY <1>6, MineIsLast DEF MarkSent
  <2>2. mails[m].to = s /\ mails[m].at = moment[r] /\ mails[m].kept = "recorded"
    BY <1>6, <2>1 DEF Recording, MarkSent
  <2>3. moment[r] \in Nat /\ moment[r] # None
    BY <1>1 DEF TypeOK, AlertsAssumption
  <2>4. ~Marked(mails[i], m)
    <3>1. Outlived(mails[i].before)
      BY <1>1, <1>2 DEF SnapshotsHold
    <3> QED
      BY <2>2, <3>1 DEF Marked, Outlived, Grew
  <2>5. CASE mails[i].at <= moment[r]
    BY <1>6, <2>3, <2>5
  <2>6. CASE mails[m].at < mails[i].at
    <3>1. Straggled(i)
      BY <1>3, <2>1, <2>2, <2>4, <2>6 DEF Straggled
    <3> QED
      BY <1>1, <1>2, <1>6, <2>3, <3>1, StraggledStays
  <2> QED
    BY <1>4, <2>2, <2>3, <2>5, <2>6
\* It has just been marked: by the run that sent it.
<1>7. CASE mails[i].kept # "marked" /\ lastSent'[s] = lastSent[s]
  <2>1. PICK r \in Runs : MarkSent(r) /\ i = Mine(r)
    <3>1. ASSUME NEW r \in Runs, pc[r] \in {"record", "mark"}, NEW kept \in Kept,
                 mails' = [mails EXCEPT ![Mine(r)].kept = kept]
          PROVE  i = Mine(r) /\ mails'[i].kept = kept
      <4>1. i = Mine(r)
        BY <1>1, <1>2, <1>7, <3>1, MineIsLast, Filing
      <4>2. mails'[i] = [mails[i] EXCEPT !.kept = kept] /\ mails[i] \in Mail
        BY <1>1, <1>2, <3>1, <4>1, Filing
      <4> QED
        BY <4>1, <4>2 DEF Mail
    <3>2. ASSUME NEW r \in Runs, Record(r), target[r] \in accounts PROVE FALSE
      BY <3>1, <3>2 DEF Record, Kept
    <3>3. ASSUME NEW r \in Runs, Send(r) PROVE FALSE
      <4>1. mails' = Append(mails, NewMail(r))
        BY <3>3 DEF Send, NewMail
      <4> QED
        BY <1>1, <1>2, <1>7, <4>1
    <3>4. PICK r \in Runs : MarkSent(r)
      BY <1>7, <3>2, <3>3, MailSteps
    <3> QED
      BY <3>1, <3>4 DEF MarkSent, Kept
  <2>2. target[r] = s
    BY <1>3, <2>1, MineIsLast DEF MarkSent, Recording
  <2>3. lastSent'[s] = moment[r]
    BY <1>1, <1>3, <2>1, <2>2 DEF MarkSent, TypeOK
  <2> QED
    BY <1>3, <1>4, <1>6, <2>1, <2>2, <2>3
<1> QED
  BY <1>3, <1>4, <1>5, <1>6, <1>7, MarkSteps

\* The mails a run saw are there, to somebody, as they left.
LEMMA SeenMails ==
    ASSUME AlertInv, [Next]_vars, NEW r \in Runs, NEW i \in DOMAIN before[r]
    PROVE  /\ i \in DOMAIN mails /\ mails[i] \in Mail
           /\ mails'[i].to = mails[i].to /\ mails'[i].roles = mails[i].roles
           /\ mails'[i].at = mails[i].at /\ Grew(before[r][i], mails[i].kept)
<1>1. TypeOK /\ MailsStay /\ mails \in Seq(Mail) /\ Outlived(before[r])
  BY MailsOnlyGrow DEF AlertInv, TypeOK, SnapshotsHold
<1>2. before[r] \in Seq(Kept)
  BY <1>1 DEF TypeOK
<1>3. i \in DOMAIN mails
  BY <1>1, <1>2 DEF Outlived
<1> QED
  BY <1>1, <1>3 DEF Outlived, MailsStay

\* What a run that is starting saw is how the mails are.
LEMMA StartSees ==
    ASSUME AlertInv, [Next]_vars, NEW r \in Runs, Start(r)
    PROVE  DOMAIN before'[r] = DOMAIN mails /\ mails' = mails /\ due'[r] = {} /\ target'[r] = None
BY DEF AlertInv, TypeOK, RunsAreTidy, Start

LEMMA RunsRestNext ==
    ASSUME AlertsAssumption, AlertInv, [Next]_vars
    PROVE  RunsRest'
<1>1. TypeOK /\ MailsStay /\ RunsRest /\ MarksAreKept /\ RunsAreTidy
  BY MailsOnlyGrow DEF AlertInv
<1> SUFFICES ASSUME NEW r \in Runs, NEW i \in DOMAIN before'[r], before'[r][i] = "marked",
                    mails'[i].to \in accounts', mails'[i].to \in due'[r] \cup {target'[r]}
             PROVE  Rested(r, i)'
  BY DEF RunsRest
<1>2. accounts' \subseteq accounts /\ accounts \subseteq Seekers /\ None \notin Seekers
  BY <1>1, AccountsShrink DEF TypeOK, AlertsAssumption
<1>3. CASE Start(r)
  BY <1>2, <1>3, StartSees
<1>4. CASE Query(r)
  <2>1. /\ before'[r] = before[r] /\ moment'[r] = moment[r] /\ target'[r] = None
        /\ \A s \in due'[r] : IsDue(s, moment[r])
    BY <1>1, <1>4 DEF Query, TypeOK, RunsAreTidy
  <2>2. /\ i \in DOMAIN mails /\ mails[i] \in Mail /\ mails[i].kept = "marked"
        /\ mails'[i].to = mails[i].to /\ mails'[i].at = mails[i].at
    BY <2>1, SeenMails DEF Grew
  <2>3. PICK s \in accounts : s = mails[i].to /\ IsDue(s, moment[r])
    BY <1>2, <2>1, <2>2
  <2>4. lastSent[s] # None /\ (mails[i].at <= lastSent[s] \/ Straggled(i))
    BY <1>1, <2>2, <2>3 DEF MarksAreKept
  <2>5. lastSent[s] + Interval <= moment[r]
    BY <2>3, <2>4 DEF IsDue
  <2>6. lastSent[s] \in Nat /\ moment[r] \in Nat /\ Interval \in Nat /\ mails[i].at \in Nat
    BY <1>1, <1>2, <2>2, <2>3, <2>4 DEF TypeOK, AlertsAssumption, Mail
  <2>7. CASE mails[i].at <= lastSent[s]
    BY <2>1, <2>2, <2>5, <2>6, <2>7 DEF Rested
  <2>8. CASE Straggled(i)
    BY <1>1, <2>2, <2>8, StraggledStays DEF Rested
  <2> QED
    BY <2>4, <2>7, <2>8
<1>5. CASE before'[r] = <<>>
  BY <1>5
<1>6. CASE /\ before'[r] = before[r] /\ moment'[r] = moment[r]
           /\ due'[r] \cup {target'[r]} \subseteq due[r] \cup {target[r], None}
  <2>1. /\ i \in DOMAIN mails /\ before[r][i] = "marked"
        /\ mails'[i].to = mails[i].to /\ mails'[i].at = mails[i].at
    BY <1>6, SeenMails
  <2>2. mails[i].to \in accounts /\ mails[i].to \in due[r] \cup {target[r]}
    BY <1>2, <1>6, <2>1
  <2>3. Rested(r, i)
    BY <1>1, <1>6, <2>1, <2>2 DEF RunsRest
  <2> QED
    BY <1>1, <1>6, <2>1, <2>3, StraggledStays DEF Rested
<1> QED
  BY <1>3, <1>4, <1>5, <1>6, RunSteps

LEMMA RunsSelectNext ==
    ASSUME AlertsAssumption, AlertInv, [Next]_vars
    PROVE  RunsSelectNewRoles'
<1>1. TypeOK /\ MailsStay /\ RunsSelectNewRoles /\ RecordsAreKept /\ RunsAreTidy
  BY MailsOnlyGrow DEF AlertInv
<1> SUFFICES ASSUME NEW r \in Runs, NEW i \in DOMAIN before'[r],
                    pc'[r] \in {"send", "record", "mark"}, before'[r][i] # "sent",
                    mails'[i].to \in accounts', mails'[i].to = target'[r]
             PROVE  mails'[i].roles \cap selected'[r] = {}
  BY DEF RunsSelectNewRoles
<1>2. accounts' \subseteq accounts
  BY AccountsShrink
<1>3. CASE Start(r) \/ Query(r)
  BY <1>1, <1>3 DEF Start, Query, TypeOK
<1>4. CASE before'[r] = <<>>
  BY <1>4
<1>5. CASE /\ before'[r] = before[r]
           /\ target'[r] = target[r] /\ selected'[r] = selected[r]
           /\ pc[r] \in {"send", "record", "mark"}
  <2>1. /\ mails'[i].to = mails[i].to /\ mails'[i].roles = mails[i].roles
    BY <1>5, SeenMails
  <2> QED
    BY <1>1, <1>2, <1>5, <2>1 DEF RunsSelectNewRoles
<1>6. CASE before'[r] = before[r] /\ SelectRoles(r) /\ target'[r] = target[r]
  <2>1. /\ i \in DOMAIN mails /\ mails[i].kept # "sent"
        /\ mails'[i].to = mails[i].to /\ mails'[i].roles = mails[i].roles
    BY <1>6, SeenMails DEF Grew
  <2>2. mails[i].to \in accounts /\ mails[i].to = target[r]
    BY <1>2, <1>6, <2>1
  <2>3. mails[i].roles \subseteq alerted[target[r]]
    BY <1>1, <2>1, <2>2 DEF RecordsAreKept
  <2>4. PICK chosen \in Fresh(target[r]) : selected' = [selected EXCEPT ![r] = chosen]
    BY <1>1, <1>6 DEF SelectRoles, GoOn, TypeOK
  <2>5. selected'[r] = chosen /\ chosen \subseteq Roles \ alerted[target[r]]
    BY <1>1, <2>4 DEF TypeOK, Fresh
  <2> QED
    BY <2>1, <2>3, <2>5
<1> QED
  BY <1>3, <1>4, <1>5, <1>6, RunSteps

LEMMA DeletedNext ==
    ASSUME AlertInv, [Next]_vars
    PROVE  DeletedSeekersLeaveNothing'
<1>1. TypeOK /\ DeletedSeekersLeaveNothing
  BY DEF AlertInv
<1>2. CASE UNCHANGED <<accounts, optedIn, lastSent, alerted>>
  BY <1>1, <1>2 DEF DeletedSeekersLeaveNothing
<1>3. ASSUME NEW s \in Seekers, NEW choice \in BOOLEAN, SetOptIn(s, choice)
      PROVE  DeletedSeekersLeaveNothing'
  BY <1>1, <1>3 DEF SetOptIn, DeletedSeekersLeaveNothing, TypeOK
<1>4. ASSUME NEW s \in Seekers, DeleteSeeker(s) PROVE DeletedSeekersLeaveNothing'
  BY <1>1, <1>4 DEF DeleteSeeker, DeletedSeekersLeaveNothing, TypeOK
<1>5. ASSUME NEW r \in Runs, Record(r) PROVE DeletedSeekersLeaveNothing'
  BY <1>1, <1>5 DEF Record, DeletedSeekersLeaveNothing, TypeOK
<1>6. ASSUME NEW r \in Runs, MarkSent(r) PROVE DeletedSeekersLeaveNothing'
  BY <1>1, <1>6 DEF MarkSent, DeletedSeekersLeaveNothing, TypeOK
<1>7. \/ UNCHANGED <<accounts, optedIn, lastSent, alerted>>
      \/ \E s \in Seekers : \E choice \in BOOLEAN : SetOptIn(s, choice)
      \/ \E s \in Seekers : DeleteSeeker(s)
      \/ \E r \in Runs : Record(r) \/ MarkSent(r)
  BY DEF Next, vars, settings, Tick, VerifyEmail, Start, Step, Query, Consider, Rank,
         SelectRoles, Send, SendFails, Finish, Abort, Crash
<1> QED
  BY <1>2, <1>3, <1>4, <1>5, <1>6, <1>7

----------------------------------------------------------------------------
(* The mails themselves.                                                   *)

\* What KeptMailsAreHeeded says of an earlier and a later mail.
Heeded(i, j) ==
    (/\ i < j /\ mails[i].to = mails[j].to
     /\ mails[i].to \in accounts /\ i \in DOMAIN mails[j].before) =>
        /\ mails[j].before[i] # "sent" => mails[i].roles \cap mails[j].roles = {}
        /\ Marked(mails[j], i) => mails[i].at + Interval <= mails[j].at \/ Straggled(i)

LEMMA HeededPairs ==
    KeptMailsAreHeeded <=> \A i, j \in DOMAIN mails : Heeded(i, j)
<1>1. ASSUME KeptMailsAreHeeded, NEW i \in DOMAIN mails, NEW j \in DOMAIN mails
      PROVE  Heeded(i, j)
  <2>1. SUFFICES ASSUME i < j, mails[i].to = mails[j].to PROVE Heeded(i, j)
    BY DEF Heeded
  <2>2. <<i, j>> \in Repeats
    BY <2>1 DEF Repeats
  <2> QED
    BY <1>1, <2>2 DEF KeptMailsAreHeeded, Heeded, Straggled
<1>2. ASSUME \A i, j \in DOMAIN mails : Heeded(i, j)
      PROVE  KeptMailsAreHeeded
  <2>1. SUFFICES ASSUME NEW p \in Repeats, mails[p[1]].to \in accounts,
                        p[1] \in DOMAIN mails[p[2]].before
                 PROVE  /\ mails[p[2]].before[p[1]] # "sent" =>
                               mails[p[1]].roles \cap mails[p[2]].roles = {}
                        /\ Marked(mails[p[2]], p[1]) =>
                            \/ mails[p[1]].at + Interval <= mails[p[2]].at
                            \/ Straggled(p[1])
    BY DEF KeptMailsAreHeeded, Straggled
  <2>2. /\ p[1] \in DOMAIN mails /\ p[2] \in DOMAIN mails
        /\ p[1] < p[2] /\ mails[p[1]].to = mails[p[2]].to
    BY DEF Repeats
  <2> QED
    BY <1>2, <2>1, <2>2 DEF Heeded
<1> QED
  BY <1>1, <1>2

LEMMA MailsNext ==
    ASSUME AlertsAssumption, AlertInv, [Next]_vars
    PROVE  KeptMailsAreHeeded'
<1>1. TypeOK /\ MailsStay /\ mails \in Seq(Mail) /\ mails' \in Seq(Mail)
      /\ \A i, j \in DOMAIN mails : Heeded(i, j)
  BY MailsOnlyGrow, HeededPairs DEF AlertInv, TypeOK, MailsStay
<1>2. accounts' \subseteq accounts
  BY AccountsShrink
<1>3. ASSUME NEW i \in DOMAIN mails', NEW j \in DOMAIN mails' PROVE Heeded(i, j)'
  <2>1. SUFFICES ASSUME i < j, mails'[i].to = mails'[j].to, mails'[i].to \in accounts',
                        i \in DOMAIN mails'[j].before
                 PROVE  /\ mails'[j].before[i] # "sent" => mails'[i].roles \cap mails'[j].roles = {}
                        /\ Marked(mails'[j], i) =>
                            mails'[i].at + Interval <= mails'[j].at \/ Straggled(i)'
    BY DEF Heeded, Marked
  \* An old pair is as it was.
  <2>2. CASE j \in DOMAIN mails
    <3>1. i \in DOMAIN mails
      BY <1>1, <2>1, <2>2
    <3>2. Heeded(i, j)
      BY <1>1, <2>2, <3>1
    <3> QED
      BY <1>1, <1>2, <2>1, <2>2, <3>1, <3>2, StraggledStays DEF Heeded, MailsStay, Marked
  \* A new mail is what its run selected.
  <2>3. CASE j \notin DOMAIN mails
    <3>1. PICK r \in Runs : Send(r)
      BY <2>3, MailSteps DEF Record, MarkSent
    <3>2. mails' = Append(mails, NewMail(r)) /\ pc[r] = "send"
      BY <3>1 DEF Send, NewMail
    <3>3. mails'[j] = NewMail(r) /\ i \in DOMAIN before[r]
      BY <1>1, <2>1, <2>3, <3>2 DEF NewMail
    <3>4. /\ i \in DOMAIN mails /\ mails'[i].to = mails[i].to
          /\ mails'[i].roles = mails[i].roles /\ mails'[i].at = mails[i].at
      BY <3>3, SeenMails
    <3>5. mails[i].to \in accounts /\ mails[i].to = target[r]
      BY <1>2, <2>1, <3>3, <3>4 DEF NewMail
    <3>6. before[r][i] # "sent" => mails[i].roles \cap selected[r] = {}
      BY <3>2, <3>3, <3>5 DEF AlertInv, RunsSelectNewRoles
    <3>7. before[r][i] = "marked" => Rested(r, i)
      BY <3>3, <3>5 DEF AlertInv, RunsRest
    <3> QED
      BY <1>1, <3>3, <3>4, <3>6, <3>7, StraggledStays DEF NewMail, Marked, Rested
  <2> QED
    BY <2>2, <2>3
<1>4. (\A i, j \in DOMAIN mails : Heeded(i, j))'
  BY <1>3
<1> QED
  BY <1>4, HeededPairs, PTL

----------------------------------------------------------------------------
(* The theorems.                                                           *)

LEMMA AlertInvInit ==
    ASSUME AlertsAssumption, Init
    PROVE  AlertInv
<1>1. TypeOK /\ RunsAreTidy
  BY TypesInit
<1>2. mails = <<>> /\ \A r \in Runs : before[r] = <<>> /\ pc[r] = "idle"
  BY DEF Init
<1>3. SnapshotsHold /\ RunsKnowTheirMail /\ RecordsAreKept /\ MarksAreKept
  BY <1>2 DEF SnapshotsHold, Outlived, RunsKnowTheirMail, RecordsAreKept, MarksAreKept
<1>4. RunsRest /\ RunsSelectNewRoles
  BY <1>2 DEF RunsRest, RunsSelectNewRoles
<1>5. DeletedSeekersLeaveNothing /\ KeptMailsAreHeeded
  BY <1>2 DEF Init, DeletedSeekersLeaveNothing, KeptMailsAreHeeded, Repeats
<1> QED
  BY <1>1, <1>3, <1>4, <1>5 DEF AlertInv

LEMMA AlertInvNext ==
    ASSUME AlertsAssumption, AlertInv, [Next]_vars
    PROVE  AlertInv'
BY TypesNext, SnapshotsNext, RunsKnowTheirMailNext, RecordsNext, MarksNext, RunsRestNext,
   RunsSelectNext, DeletedNext, MailsNext DEF AlertInv

LEMMA AlertInvHolds == Spec => []AlertInv
<1>1. Init => AlertInv
  BY AlertsAssumption, AlertInvInit
<1>2. AlertInv /\ [Next]_vars => AlertInv'
  BY AlertsAssumption, AlertInvNext
<1> QED
  BY <1>1, <1>2, PTL DEF Spec

\* A deleted Seeker leaves nothing behind, whatever run was about to record a mail
\* to them (seekers_store.delete_seeker, the foreign key of alerted_roles).
THEOREM NothingIsLeft == Spec => []DeletedSeekersLeaveNothing
<1>1. AlertInv => DeletedSeekersLeaveNothing
  BY DEF AlertInv
<1> QED
  BY <1>1, AlertInvHolds, PTL

\* A run heeds what was kept of the mails before it started: no Role of a recorded
\* mail goes out again, and no mail follows a marked one within the interval unless
\* a straggler marked over it (alerts.run_weekly_alerts).
THEOREM MailsAreHeeded == Spec => []KeptMailsAreHeeded
<1>1. AlertInv => KeptMailsAreHeeded
  BY DEF AlertInv
<1> QED
  BY <1>1, AlertInvHolds, PTL

----------------------------------------------------------------------------
(* The board: the order of an answer.                                      *)

Asked == [reader : Audiences, query : {"none", "word", "phrase"}, sort : Sorts,
          tier : {"all"} \cup Tiers, page : Nat \ {0}]

LEMMA KeysAre ==
    ASSUME NEW c \in Seq(Listings), NEW r \in Asked, NEW f \in Seq(Nat), NEW i \in DOMAIN c
    PROVE  /\ Keys(c, r, f, i) = <<Keys(c, r, f, i)[1], Keys(c, r, f, i)[2]>>
           /\ Keys(c, r, f, i)[1] \in Nat /\ Keys(c, r, f, i)[2] \in Nat
  <1>1. c[i] \in Listings
    BY ElementOfSeq
  <1>2. c[i].day \in Nat /\ Unpriced(c[i]) \in Nat
    BY <1>1 DEF Listings, Unpriced
  <1>3. PlaceIn(f, i) \in Nat
    <2>1. Len(f) \in Nat /\ DOMAIN f = 1..Len(f)
      BY LenProperties
    <2>2. ASSUME i \in Range(f) PROVE (CHOOSE k \in DOMAIN f : f[k] = i) \in DOMAIN f
      BY <2>2 DEF Range
    <2> QED
      BY <2>1, <2>2 DEF PlaceIn
  <1> HIDE DEF Unpriced, PlaceIn
  <1>4. CASE r.sort = "relevance" /\ f # <<>>
    BY <1>2, <1>3, <1>4 DEF Keys
  <1>5. CASE r.sort = "company"
    BY <1>2, <1>5 DEF Keys
  <1>6. CASE r.sort = "salary"
    BY <1>2, <1>6 DEF Keys
  <1>7. CASE ~(r.sort = "relevance" /\ f # <<>>) /\ r.sort # "company" /\ r.sort # "salary"
    BY <1>2, <1>7 DEF Keys
  <1> QED
    BY <1>4, <1>5, <1>6, <1>7

LEMMA BeforeOrders ==
    ASSUME NEW c \in Seq(Listings), NEW r \in Asked, NEW f \in Seq(Nat), NEW s \in SUBSET DOMAIN c
    PROVE  OrdersAll(Before(c, r, f, s), s)
  <1> DEFINE K(i) == Keys(c, r, f, i)
  <1>1. \A i \in s : K(i) = <<K(i)[1], K(i)[2]>> /\ K(i)[1] \in Nat /\ K(i)[2] \in Nat
    BY KeysAre
  <1>2. \A i \in s : i \in Nat
    BY LenProperties
  <1>3. \A x, y \in s : <<x, y>> \in Before(c, r, f, s) <=>
           \/ K(x)[1] < K(y)[1]
           \/ K(x)[1] = K(y)[1] /\ K(x)[2] < K(y)[2]
           \/ K(x) = K(y) /\ x < y
    BY DEF Before
  <1>4. \A x, y \in s : K(x) = K(y) <=> K(x)[1] = K(y)[1] /\ K(x)[2] = K(y)[2]
    BY <1>1
  <1> HIDE DEF K
  <1>5. \A x, y \in s : <<x, y>> \in Before(c, r, f, s) <=>
           \/ K(x)[1] < K(y)[1]
           \/ K(x)[1] = K(y)[1] /\ K(x)[2] < K(y)[2]
           \/ K(x)[1] = K(y)[1] /\ K(x)[2] = K(y)[2] /\ x < y
    <2> SUFFICES ASSUME NEW x \in s, NEW y \in s
                 PROVE  <<x, y>> \in Before(c, r, f, s) <=>
                           \/ K(x)[1] < K(y)[1]
                           \/ K(x)[1] = K(y)[1] /\ K(x)[2] < K(y)[2]
                           \/ K(x)[1] = K(y)[1] /\ K(x)[2] = K(y)[2] /\ x < y
      OBVIOUS
    <2>1. K(x) = K(y) <=> K(x)[1] = K(y)[1] /\ K(x)[2] = K(y)[2]
      BY <1>4
    <2> QED
      BY <1>3, <2>1
  <1>6. ASSUME NEW x \in s PROVE <<x, x>> \notin Before(c, r, f, s)
    BY <1>1, <1>2, <1>5
  <1>7. ASSUME NEW x \in s, NEW y \in s, x # y
        PROVE  <<x, y>> \in Before(c, r, f, s) \/ <<y, x>> \in Before(c, r, f, s)
    <2>1. /\ K(x)[1] \in Nat /\ K(x)[2] \in Nat /\ x \in Nat
          /\ K(y)[1] \in Nat /\ K(y)[2] \in Nat /\ y \in Nat
      BY <1>1, <1>2
    <2>2. \/ K(x)[1] < K(y)[1] \/ K(y)[1] < K(x)[1]
          \/ K(x)[1] = K(y)[1] /\ K(x)[2] < K(y)[2]
          \/ K(y)[1] = K(x)[1] /\ K(y)[2] < K(x)[2]
          \/ K(x)[1] = K(y)[1] /\ K(x)[2] = K(y)[2] /\ (x < y \/ y < x)
      BY <1>7, <2>1
    <2> QED
      BY <1>5, <2>2
  <1>8. ASSUME NEW x \in s, NEW y \in s, NEW z \in s,
               <<x, y>> \in Before(c, r, f, s), <<y, z>> \in Before(c, r, f, s)
        PROVE  <<x, z>> \in Before(c, r, f, s)
    <2>1. /\ K(x)[1] \in Nat /\ K(x)[2] \in Nat /\ x \in Nat
          /\ K(y)[1] \in Nat /\ K(y)[2] \in Nat /\ y \in Nat
          /\ K(z)[1] \in Nat /\ K(z)[2] \in Nat /\ z \in Nat
      BY <1>1, <1>2
    <2>2. \/ K(x)[1] < K(y)[1]
          \/ K(x)[1] = K(y)[1] /\ K(x)[2] < K(y)[2]
          \/ K(x)[1] = K(y)[1] /\ K(x)[2] = K(y)[2] /\ x < y
      BY <1>8, <1>5
    <2>3. \/ K(y)[1] < K(z)[1]
          \/ K(y)[1] = K(z)[1] /\ K(y)[2] < K(z)[2]
          \/ K(y)[1] = K(z)[1] /\ K(y)[2] = K(z)[2] /\ y < z
      BY <1>8, <1>5
    <2>4. \/ K(x)[1] < K(z)[1]
          \/ K(x)[1] = K(z)[1] /\ K(x)[2] < K(z)[2]
          \/ K(x)[1] = K(z)[1] /\ K(x)[2] = K(z)[2] /\ x < z
      BY <2>1, <2>2, <2>3
    <2> QED
      BY <1>5, <2>4
  <1> QED
    BY <1>6, <1>7, <1>8 DEF OrdersAll

LEMMA SlotsOfPosts ==
    ASSUME NEW n \in Nat \ {0}
    PROVE  SlotOfPost(n) = 4 * n - 1
  BY DEF SlotOfPost, BOOST_STRIDE, BOOST_OFFSET

LEMMA SlotsOfOthers ==
    ASSUME NEW n \in Nat \ {0}
    PROVE  \E m \in Nat : \/ n = 3 * m + 1 /\ SlotOfOther(n) = 4 * m + 1
                          \/ n = 3 * m + 2 /\ SlotOfOther(n) = 4 * m + 2
                          \/ n = 3 * m + 3 /\ SlotOfOther(n) = 4 * m + 4
  <1> DEFINE m == (n - 1) \div 3  e == (n - 1) % 3
  <1>1. m \in Nat /\ e \in 0..2 /\ n - 1 = 3 * m + e
    OBVIOUS
  <1>2. SlotOfOther(n) = 4 * m + FillOffsets[e + 1]
    BY DEF SlotOfOther, BOOST_STRIDE, FillOffsets
  <1>3. FillOffsets[1] = 1 /\ FillOffsets[2] = 2 /\ FillOffsets[3] = 4
    BY DEF FillOffsets
  <1> HIDE DEF m, e
  <1>4. CASE e = 0
    BY <1>1, <1>2, <1>3, <1>4
  <1>5. CASE e = 1
    BY <1>1, <1>2, <1>3, <1>5
  <1>6. CASE e = 2
    BY <1>1, <1>2, <1>3, <1>6
  <1> QED
    BY <1>1, <1>4, <1>5, <1>6

LEMMA OthersInOrder ==
    ASSUME NEW a \in Nat \ {0}, NEW b \in Nat \ {0}
    PROVE  SlotOfOther(a) = SlotOfOther(b) => a = b
  <1>1. PICK m \in Nat : \/ a = 3 * m + 1 /\ SlotOfOther(a) = 4 * m + 1
                         \/ a = 3 * m + 2 /\ SlotOfOther(a) = 4 * m + 2
                         \/ a = 3 * m + 3 /\ SlotOfOther(a) = 4 * m + 4
    BY SlotsOfOthers
  <1>2. PICK n \in Nat : \/ b = 3 * n + 1 /\ SlotOfOther(b) = 4 * n + 1
                         \/ b = 3 * n + 2 /\ SlotOfOther(b) = 4 * n + 2
                         \/ b = 3 * n + 3 /\ SlotOfOther(b) = 4 * n + 4
    BY SlotsOfOthers
  <1>3. CASE m < n
    <2>1. SlotOfOther(a) <= 4 * m + 4 /\ SlotOfOther(b) >= 4 * n + 1 /\ SlotOfOther(a) \in Nat
      BY <1>1, <1>2
    <2>2. 4 * m + 4 < 4 * n + 1 /\ SlotOfOther(b) \in Nat
      BY <1>2, <1>3
    <2> QED
      BY <2>1, <2>2
  <1>4. CASE n < m
    <2>1. SlotOfOther(b) <= 4 * n + 4 /\ SlotOfOther(a) >= 4 * m + 1 /\ SlotOfOther(b) \in Nat
      BY <1>1, <1>2
    <2>2. 4 * n + 4 < 4 * m + 1 /\ SlotOfOther(a) \in Nat
      BY <1>1, <1>4
    <2> QED
      BY <2>1, <2>2
  <1>5. CASE m = n
    BY <1>1, <1>2, <1>5
  <1> QED
    BY <1>3, <1>4, <1>5

\* The rows of s that are recruiters' posts, or that are not.
Kind(c, s, post) == {i \in s : IsPost(c[i]) = post}

LEMMA TierRankIs ==
    ASSUME NEW c \in Seq(Listings), NEW s \in SUBSET DOMAIN c, IsFiniteSet(s),
           NEW order, OrdersAll(order, s), NEW post \in BOOLEAN
    PROVE  LET K == Kind(c, s, post)
           IN /\ K \in SUBSET s /\ IsFiniteSet(K) /\ Cardinality(K) \in Nat
              /\ \A i \in K : TierRank(c, s, order, i) \in 1..Cardinality(K)
              /\ \A i, j \in K : TierRank(c, s, order, i) = TierRank(c, s, order, j) => i = j
              /\ \A k \in 1..Cardinality(K) : \E i \in K : TierRank(c, s, order, i) = k
  <1> DEFINE K == Kind(c, s, post)
  <1>1. K \in SUBSET s
    BY DEF Kind
  <1>2. IsFiniteSet(K) /\ Cardinality(K) \in Nat
    BY <1>1, FS_Subset, FS_CardinalityType
  <1>3. OrdersAll(order, K)
    BY <1>1 DEF OrdersAll
  <1>4. \A i \in K : TierRank(c, s, order, i) = Ahead(K, order, i) + 1
    <2> SUFFICES ASSUME NEW i \in K PROVE TierRank(c, s, order, i) = Ahead(K, order, i) + 1
      OBVIOUS
    <2>1. {j \in s : IsPost(c[j]) = IsPost(c[i]) /\ <<j, i>> \in order} = {j \in K : <<j, i>> \in order}
      BY DEF Kind
    <2> HIDE DEF K
    <2> QED
      BY <2>1 DEF TierRank, Ahead
  <1> HIDE DEF K
  <1>5. \A i \in K : Ahead(K, order, i) \in 0..(Cardinality(K) - 1)
    BY <1>2, <1>3, AheadIs
  <1>6. \A i, j \in K : Ahead(K, order, i) = Ahead(K, order, j) => i = j
    BY <1>2, <1>3, AheadIs
  <1>7. ASSUME NEW k \in 1..Cardinality(K) PROVE \E i \in K : TierRank(c, s, order, i) = k
    <2>1. k - 1 \in 0..(Cardinality(K) - 1)
      BY <1>2
    <2>2. PICK i \in K : Ahead(K, order, i) = k - 1
      BY <1>2, <1>3, <2>1, AheadIs
    <2> QED
      BY <1>4, <2>2
  <1>8. \A i \in K : TierRank(c, s, order, i) \in 1..Cardinality(K)
    BY <1>2, <1>4, <1>5
  <1>9. \A i, j \in K : TierRank(c, s, order, i) = TierRank(c, s, order, j) => i = j
    BY <1>2, <1>4, <1>5, <1>6
  <1> QED
    BY <1>1, <1>2, <1>7, <1>8, <1>9 DEF K

\* Slots are positive numbers, and no two rows have the same.
LEMMA SlotsAre ==
    ASSUME NEW c \in Seq(Listings), NEW s \in SUBSET DOMAIN c, IsFiniteSet(s),
           NEW order, OrdersAll(order, s)
    PROVE  /\ \A i \in s : Slot(c, s, order, i) \in Nat /\ TierRank(c, s, order, i) \in Nat \ {0}
           /\ \A i, j \in s : Slot(c, s, order, i) = Slot(c, s, order, j) => i = j
  <1> DEFINE T(i) == TierRank(c, s, order, i)
  <1>1. \A i \in s : i \in Kind(c, s, IsPost(c[i])) /\ IsPost(c[i]) \in BOOLEAN
    BY DEF Kind, IsPost
  <1>2. \A i \in s : T(i) \in Nat \ {0}
    BY <1>1, TierRankIs
  <1>3. \A i, j \in s : IsPost(c[i]) = IsPost(c[j]) /\ T(i) = T(j) => i = j
    BY <1>1, TierRankIs
  <1> HIDE DEF T
  <1>4. \A i \in s : Slot(c, s, order, i) = IF IsPost(c[i]) THEN 4 * T(i) - 1 ELSE SlotOfOther(T(i))
    BY <1>2, SlotsOfPosts DEF Slot, T
  <1>5. \A i \in s : Slot(c, s, order, i) \in Nat
    BY <1>2, <1>4, SlotsOfOthers
  <1>6. ASSUME NEW i \in s, NEW j \in s, Slot(c, s, order, i) = Slot(c, s, order, j) PROVE i = j
    <2>1. T(i) \in Nat \ {0} /\ T(j) \in Nat \ {0}
      BY <1>2
    <2>2. CASE IsPost(c[i]) /\ IsPost(c[j])
      <3>1. 4 * T(i) - 1 = 4 * T(j) - 1
        BY <1>4, <1>6, <2>2
      <3>2. T(i) = T(j)
        BY <2>1, <3>1
      <3> QED
        BY <1>3, <2>2, <3>2 DEF IsPost
    <2>3. CASE ~IsPost(c[i]) /\ ~IsPost(c[j])
      <3>1. SlotOfOther(T(i)) = SlotOfOther(T(j))
        BY <1>4, <1>6, <2>3
      <3>2. T(i) = T(j)
        BY <2>1, <3>1, OthersInOrder
      <3> QED
        BY <1>3, <2>3, <3>2 DEF IsPost
    <2>4. ASSUME NEW a \in Nat \ {0}, NEW b \in Nat \ {0} PROVE 4 * a - 1 # SlotOfOther(b)
      BY SlotsOfOthers
    <2> QED
      BY <1>4, <1>6, <2>1, <2>2, <2>3, <2>4
  <1> QED
    BY <1>2, <1>5, <1>6 DEF T

LEMMA BoostedIs ==
    ASSUME NEW c \in Seq(Listings), NEW s \in SUBSET DOMAIN c, IsFiniteSet(s),
           NEW order, OrdersAll(order, s)
    PROVE  LET q == Boosted(c, s, order)
           IN /\ q \in Seq(s) /\ Len(q) = Cardinality(s) /\ DOMAIN q = 1..Cardinality(s)
              /\ Range(q) = s
              /\ \A k \in 1..Cardinality(s) : q[k] \in s
              /\ \A j, k \in 1..Cardinality(s) : q[j] = q[k] => j = k
              /\ \A j, k \in 1..Cardinality(s) :
                     j < k => Slot(c, s, order, q[j]) < Slot(c, s, order, q[k])
  <1> DEFINE S(i) == Slot(c, s, order, i)
             T(i) == TierRank(c, s, order, i)
             R == {p \in s \X s : S(p[1]) < S(p[2]) \/ (S(p[1]) = S(p[2]) /\ T(p[1]) < T(p[2]))}
  <1>1. Boosted(c, s, order) = InOrderOf(s, R)
    BY DEF Boosted
  <1>2. \A i \in s : S(i) \in Nat /\ T(i) \in Nat
    BY SlotsAre
  <1>3. \A i, j \in s : S(i) = S(j) => i = j
    BY SlotsAre
  <1>4. \A x, y : <<x, y>> \in R <=> x \in s /\ y \in s /\ (S(x) < S(y) \/ (S(x) = S(y) /\ T(x) < T(y)))
    OBVIOUS
  <1>5. \A x, y \in s : <<x, y>> \in R <=> S(x) < S(y)
    <2> HIDE DEF S, T, R
    <2> SUFFICES ASSUME NEW x \in s, NEW y \in s PROVE <<x, y>> \in R <=> S(x) < S(y)
      OBVIOUS
    <2>1. S(x) = S(y) => ~(T(x) < T(y))
      BY <1>2, <1>3
    <2> QED
      BY <1>4, <2>1
  <1>6. OrdersAll(R, s)
    <2> HIDE DEF S, T, R
    <2> QED
      BY <1>2, <1>3, <1>5 DEF OrdersAll
  <1> DEFINE q == InOrderOf(s, R)
             n == Cardinality(s)
  <1> HIDE DEF R
  <1>7. /\ q \in Seq(s) /\ Len(q) = n /\ DOMAIN q = 1..n /\ Range(q) = s
        /\ \A k \in 1..n : q[k] \in s
        /\ \A j, k \in 1..n : q[j] = q[k] => j = k
        /\ \A j, k \in 1..n : j < k => <<q[j], q[k]>> \in R
    BY <1>6, InOrderOfIs
  <1> HIDE DEF q, S
  <1>8. \A j, k \in 1..n : j < k => S(q[j]) < S(q[k])
    BY <1>5, <1>7
  <1>9. Boosted(c, s, order) = q
    BY <1>1 DEF q
  <1> QED
    BY <1>7, <1>8, <1>9 DEF S

----------------------------------------------------------------------------
(* The cadence of recruiters' posts.                                       *)

\* Where among the first n rows of a stream the posts stand, or the others.
Places(c, q, n, post) == {m \in 1..n : IsPost(c[q[m]]) = post}

LEMMA PlacesAre ==
    ASSUME NEW c \in Seq(Listings), NEW q, NEW n \in Nat, NEW post \in BOOLEAN
    PROVE  /\ IsFiniteSet(Places(c, q, n, post)) /\ Cardinality(Places(c, q, n, post)) \in Nat
           /\ Cardinality(Places(c, q, n, TRUE)) + Cardinality(Places(c, q, n, FALSE)) = n
  <1> DEFINE A == Places(c, q, n, TRUE)  B == Places(c, q, n, FALSE)
  <1>1. IsFiniteSet(1..n) /\ Cardinality(1..n) = n
    BY FS_Interval
  <1>2. A \in SUBSET (1..n) /\ B = (1..n) \ A /\ (1..n) \cap A = A
    BY DEF Places, IsPost
  <1>3. Places(c, q, n, post) \in SUBSET (1..n)
    BY DEF Places
  <1>4. IsFiniteSet(Places(c, q, n, post)) /\ Cardinality(Places(c, q, n, post)) \in Nat
    BY <1>1, <1>3, FS_Subset, FS_CardinalityType
  <1>5. IsFiniteSet(A) /\ Cardinality(A) \in Nat
    BY <1>1, <1>2, FS_Subset, FS_CardinalityType
  <1> HIDE DEF A, B
  <1>6. Cardinality((1..n) \ A) = Cardinality(1..n) - Cardinality((1..n) \cap A)
    BY <1>1, FS_Difference
  <1>7. Cardinality(A) + Cardinality(B) = n
    <2>1. Cardinality(B) = n - Cardinality(A)
      BY <1>1, <1>2, <1>6
    <2> QED
      BY <1>5, <2>1
  <1> QED
    BY <1>4, <1>7 DEF A, B

\* Rows of one kind have as many places among the first n as their ranks go up to.
LEMMA RanksBoundPlaces ==
    ASSUME NEW c \in Seq(Listings), NEW s \in SUBSET DOMAIN c, IsFiniteSet(s),
           NEW order, OrdersAll(order, s), NEW post \in BOOLEAN, NEW n \in 0..Cardinality(s),
           NEW b \in Nat,
           \A m \in Places(c, Boosted(c, s, order), n, post) :
               TierRank(c, s, order, Boosted(c, s, order)[m]) <= b
    PROVE  Cardinality(Places(c, Boosted(c, s, order), n, post)) <= b
  <1> DEFINE q == Boosted(c, s, order)
             at == Places(c, q, n, post)
             T(i) == TierRank(c, s, order, i)
             f == [m \in at |-> T(q[m])]
             N == Cardinality(s)
  <1>0. N \in Nat
    BY FS_CardinalityType
  <1>1. \A m \in 1..N : q[m] \in s
    BY BoostedIs
  <1>2. \A j, k \in 1..N : q[j] = q[k] => j = k
    BY BoostedIs
  <1> HIDE DEF q
  <1>3. at \in SUBSET (1..N) /\ \A m \in at : q[m] \in Kind(c, s, post)
    BY <1>0, <1>1 DEF Places, Kind
  <1>4. \A i, j \in Kind(c, s, post) : T(i) = T(j) => i = j
    BY TierRankIs
  <1>5. \A m \in at : T(q[m]) \in 1..b
    <2>1. \A m \in at : T(q[m]) \in Nat \ {0}
      BY <1>0, <1>1, <1>3, SlotsAre
    <2>2. \A m \in at : T(q[m]) <= b
      BY DEF q
    <2> HIDE DEF at, T
    <2> QED
      BY <2>1, <2>2
  <1> HIDE DEF at, T
  <1>6. f \in Injection(at, 1..b)
    BY <1>2, <1>3, <1>4, <1>5 DEF Injection, IsInjective
  <1>7. IsFiniteSet(1..b) /\ Cardinality(1..b) = b
    BY FS_Interval
  <1> HIDE DEF f
  <1> QED
    BY <1>6, <1>7, FS_Injection DEF at, q

\* While not every row of a kind is among the first n, one that is not has a rank just above
\* the number of those that are, and its slot is above them all.
LEMMA NextOfItsKind ==
    ASSUME NEW c \in Seq(Listings), NEW s \in SUBSET DOMAIN c, IsFiniteSet(s),
           NEW order, OrdersAll(order, s), NEW post \in BOOLEAN, NEW n \in 0..Cardinality(s),
           Cardinality(Places(c, Boosted(c, s, order), n, post)) < Cardinality(Kind(c, s, post))
    PROVE  \E i \in Kind(c, s, post) :
               /\ TierRank(c, s, order, i) <= Cardinality(Places(c, Boosted(c, s, order), n, post)) + 1
               /\ \A m \in 1..n : Slot(c, s, order, Boosted(c, s, order)[m]) < Slot(c, s, order, i)
  <1> DEFINE q == Boosted(c, s, order)
             at == Places(c, q, n, post)
             K == Kind(c, s, post)
             T(i) == TierRank(c, s, order, i)
             N == Cardinality(s)
             p == Cardinality(at)
  <1>0. N \in Nat /\ p \in Nat /\ IsFiniteSet(at) /\ Cardinality(K) \in Nat /\ p < Cardinality(K) /\ K \in SUBSET s
    <2>1. N \in Nat /\ n \in Nat
      BY FS_CardinalityType
    <2>2. p \in Nat /\ IsFiniteSet(at)
      BY <2>1, PlacesAre
    <2>3. Cardinality(K) \in Nat /\ K \in SUBSET s
      BY TierRankIs
    <2> QED
      BY <2>1, <2>2, <2>3
  <1>1. /\ \A m \in 1..N : q[m] \in s
        /\ Range(q) = s /\ DOMAIN q = 1..N
        /\ \A j, k \in 1..N : j < k => Slot(c, s, order, q[j]) < Slot(c, s, order, q[k])
    BY BoostedIs
  <1>2. \A k \in 1..Cardinality(K) : \E i \in K : T(i) = k
    BY TierRankIs
  <1>3. PICK i \in K : T(i) <= p + 1 /\ \A m \in 1..n : q[m] # i
    <2> SUFFICES ASSUME \A i \in K : T(i) <= p + 1 => \E m \in 1..n : q[m] = i
                 PROVE  FALSE
      OBVIOUS
    <2> DEFINE f == [k \in 1..(p + 1) |-> CHOOSE m \in at : T(q[m]) = k]
    <2>1. \A i \in K : IsPost(c[i]) = post
      BY DEF Kind
    <2>2. ASSUME NEW k \in 1..(p + 1) PROVE \E m \in at : T(q[m]) = k
      <3>1. PICK i \in K : T(i) = k
        BY <1>0, <1>2
      <3>2. PICK m \in 1..n : q[m] = i
        <4> HIDE DEF T, q
        <4> QED
          BY <1>0, <3>1
      <3>3. m \in at
        BY <2>1, <3>2 DEF Places
      <3> QED
        BY <3>1, <3>2, <3>3
    <2> HIDE DEF at, T, q
    <2>3. \A k \in 1..(p + 1) : f[k] \in at /\ T(q[f[k]]) = k
      BY <2>2
    <2>4. f \in Injection(1..(p + 1), at)
      BY <2>3 DEF Injection, IsInjective
    <2>5. Cardinality(1..(p + 1)) = p + 1
      BY <1>0, FS_Interval
    <2> HIDE DEF f
    <2>6. p + 1 <= p
      BY <1>0, <2>4, <2>5, FS_Injection
    <2> QED
      BY <1>0, <2>6
  <1>4. PICK j \in 1..N : q[j] = i
    BY <1>0, <1>1 DEF Range
  <1>5. j > n
    BY <1>3, <1>4
  <1>6. \A m \in 1..n : Slot(c, s, order, q[m]) < Slot(c, s, order, i)
    BY <1>0, <1>1, <1>4, <1>5
  <1> QED
    BY <1>3, <1>6

LEMMA CadenceKept ==
    ASSUME NEW c \in Seq(Listings), NEW s \in SUBSET DOMAIN c, IsFiniteSet(s),
           NEW order, OrdersAll(order, s), NEW n \in 1..Cardinality(s)
    PROVE  LET q == Boosted(c, s, order)
               posts == Cardinality(Places(c, q, Cardinality(s), TRUE))
               others == Cardinality(Places(c, q, Cardinality(s), FALSE))
               p == Cardinality(Places(c, q, n, TRUE))
           IN /\ p >= Smaller(posts, (n + 1) \div 4)
              /\ n - p >= Smaller(others, n - ((n + 1) \div 4))
  <1> DEFINE q == Boosted(c, s, order)
             N == Cardinality(s)
             T(i) == TierRank(c, s, order, i)
             S(i) == Slot(c, s, order, i)
             p == Cardinality(Places(c, q, n, TRUE))
             o == Cardinality(Places(c, q, n, FALSE))
             P == Cardinality(Kind(c, s, TRUE))
             O == Cardinality(Kind(c, s, FALSE))
  <1>0. N \in Nat /\ n \in Nat /\ N \in 0..N /\ n \in 0..N
    BY FS_CardinalityType
  <1>1. p \in Nat /\ o \in Nat /\ p + o = n
    BY <1>0, PlacesAre
  <1>2. \A m \in 1..n : q[m] \in s
    BY <1>0, BoostedIs
  <1>3. \A m \in 1..n : T(q[m]) \in Nat \ {0}
    BY <1>2, SlotsAre
  <1>4. \A i \in s : S(i) = IF IsPost(c[i]) THEN 4 * T(i) - 1 ELSE SlotOfOther(T(i))
    BY SlotsAre, SlotsOfPosts DEF Slot
  <1>5. \A post \in BOOLEAN : /\ Cardinality(Places(c, q, N, post)) <= Cardinality(Kind(c, s, post))
                              /\ Cardinality(Places(c, q, N, post)) \in Nat
                              /\ Cardinality(Kind(c, s, post)) \in Nat
    <2> SUFFICES ASSUME NEW post \in BOOLEAN
                 PROVE  /\ Cardinality(Places(c, q, N, post)) <= Cardinality(Kind(c, s, post))
                        /\ Cardinality(Places(c, q, N, post)) \in Nat
                        /\ Cardinality(Kind(c, s, post)) \in Nat
      OBVIOUS
    <2>1. Cardinality(Places(c, q, N, post)) \in Nat
      BY <1>0, PlacesAre
    <2>2. \A i \in Kind(c, s, post) : T(i) \in 1..Cardinality(Kind(c, s, post))
      BY TierRankIs
    <2>3. Cardinality(Kind(c, s, post)) \in Nat
      BY TierRankIs
    <2>4. \A m \in Places(c, q, N, post) : q[m] \in Kind(c, s, post)
      <3>1. \A m \in 1..N : q[m] \in s
        BY BoostedIs
      <3> QED
        BY <3>1 DEF Places, Kind
    <2>5. \A m \in Places(c, q, N, post) : T(q[m]) <= Cardinality(Kind(c, s, post))
      <3> HIDE DEF T, q
      <3> QED
        BY <2>2, <2>3, <2>4
    <2> QED
      BY <1>0, <2>1, <2>3, <2>5, RanksBoundPlaces
  <1>6. ASSUME p < P PROVE n <= 4 * p + 2
    <2>1. PICK i \in Kind(c, s, TRUE) : T(i) <= p + 1 /\ \A m \in 1..n : S(q[m]) < S(i)
      BY <1>0, <1>6, NextOfItsKind
    <2>2. i \in s /\ S(i) = 4 * T(i) - 1 /\ T(i) \in Nat \ {0}
      BY <1>4, SlotsAre DEF Kind
    <2>3. ASSUME NEW m \in Places(c, q, n, FALSE) PROVE T(q[m]) <= 3 * p + 2
      <3>1. m \in 1..n /\ ~IsPost(c[q[m]])
        BY DEF Places
      <3>2. S(q[m]) = SlotOfOther(T(q[m])) /\ S(q[m]) < 4 * T(i) - 1 /\ T(q[m]) \in Nat \ {0}
        BY <1>2, <1>3, <1>4, <2>1, <2>2, <3>1
      <3> HIDE DEF T, S, q, p
      <3>3. PICK k \in Nat : \/ T(q[m]) = 3 * k + 1 /\ SlotOfOther(T(q[m])) = 4 * k + 1
                             \/ T(q[m]) = 3 * k + 2 /\ SlotOfOther(T(q[m])) = 4 * k + 2
                             \/ T(q[m]) = 3 * k + 3 /\ SlotOfOther(T(q[m])) = 4 * k + 4
        BY <3>2, SlotsOfOthers
      <3> QED
        BY <1>1, <2>1, <2>2, <3>2, <3>3
    <2>4. o <= 3 * p + 2
      <3> DEFINE b == 3 * p + 2
      <3>2. \A m \in Places(c, q, n, FALSE) : T(q[m]) <= b
        BY <2>3
      <3>3. b \in Nat
        <4> HIDE DEF p, o
        <4> QED
          BY <1>1
      <3> HIDE DEF b
      <3>4. o <= b
        BY <1>0, <3>2, <3>3, RanksBoundPlaces
      <3> QED
        BY <3>4 DEF b
    <2> HIDE DEF p, o
    <2> QED
      BY <1>1, <2>4
  <1>7. ASSUME o < O PROVE 3 * p <= o + 1
    <2>1. PICK i \in Kind(c, s, FALSE) : T(i) <= o + 1 /\ \A m \in 1..n : S(q[m]) < S(i)
      BY <1>0, <1>7, NextOfItsKind
    <2>2. i \in s /\ S(i) = SlotOfOther(T(i)) /\ T(i) \in Nat \ {0}
      BY <1>4, SlotsAre DEF Kind
    <2>3. PICK k \in Nat : \/ T(i) = 3 * k + 1 /\ SlotOfOther(T(i)) = 4 * k + 1
                           \/ T(i) = 3 * k + 2 /\ SlotOfOther(T(i)) = 4 * k + 2
                           \/ T(i) = 3 * k + 3 /\ SlotOfOther(T(i)) = 4 * k + 4
      BY <2>2, SlotsOfOthers
    <2> DEFINE b == IF T(i) = 3 * k + 3 THEN k + 1 ELSE k
    <2>4. b \in Nat /\ 3 * b <= T(i)
      <3> HIDE DEF T
      <3> QED
        BY <2>2, <2>3
    <2>5. ASSUME NEW m \in Places(c, q, n, TRUE) PROVE T(q[m]) <= b
      <3>1. m \in 1..n /\ IsPost(c[q[m]])
        BY DEF Places
      <3>2. S(q[m]) = 4 * T(q[m]) - 1 /\ S(q[m]) < SlotOfOther(T(i)) /\ T(q[m]) \in Nat \ {0}
        BY <1>2, <1>3, <1>4, <2>1, <2>2, <3>1
      <3> HIDE DEF T, S, q
      <3> QED
        BY <2>2, <2>3, <3>2
    <2> HIDE DEF b
    <2>6. p <= b
      BY <1>0, <1>1, <2>4, <2>5, RanksBoundPlaces
    <2> HIDE DEF p, o, T
    <2> QED
      BY <1>1, <2>1, <2>2, <2>4, <2>6
  <1> DEFINE posts == Cardinality(Places(c, q, N, TRUE))
             others == Cardinality(Places(c, q, N, FALSE))
  <1>8. posts \in Nat /\ others \in Nat /\ P \in Nat /\ O \in Nat /\ posts <= P /\ others <= O
    BY <1>5
  <1>9. p < posts => n <= 4 * p + 2
    <2> HIDE DEF p, o, posts, P
    <2> QED
      BY <1>1, <1>6, <1>8
  <1>10. o < others => 3 * p <= o + 1
    <2> HIDE DEF p, o, others, O
    <2> QED
      BY <1>1, <1>7, <1>8
  <1>11. /\ p >= posts \/ p >= (n + 1) \div 4
         /\ o >= others \/ o >= n - ((n + 1) \div 4)
    <2> HIDE DEF p, o, posts, others
    <2> QED
      BY <1>0, <1>1, <1>8, <1>9, <1>10
  <1>12. p >= Smaller(posts, (n + 1) \div 4) /\ n - p >= Smaller(others, n - ((n + 1) \div 4))
    <2> HIDE DEF p, o, posts, others
    <2> QED
      BY <1>0, <1>1, <1>8, <1>11 DEF Smaller
  <1> QED
    BY <1>12

----------------------------------------------------------------------------
(* The pages of an answer.                                                 *)

LEMMA ScopedIs ==
    ASSUME NEW c \in Seq(Listings), NEW r, NEW f
    PROVE  /\ Scoped(c, r, f) \in SUBSET DOMAIN c /\ IsFiniteSet(Scoped(c, r, f))
           /\ CountOf(c, r, f) \in Nat
  <1>1. IsFiniteSet(DOMAIN c)
    BY LenProperties, FS_Interval
  <1>2. Scoped(c, r, f) \in SUBSET DOMAIN c
    BY DEF Scoped, BOARD_WHERE, Core
  <1> QED
    BY <1>1, <1>2, FS_Subset, FS_CardinalityType DEF CountOf

LEMMA StreamIs ==
    ASSUME NEW c \in Seq(Listings), NEW r \in Asked, NEW f \in Seq(Nat)
    PROVE  LET q == Stream(c, r, f)  n == CountOf(c, r, f)
           IN /\ q \in Seq(Scoped(c, r, f)) /\ Len(q) = n /\ DOMAIN q = 1..n /\ n \in Nat
              /\ Range(q) = Scoped(c, r, f)
              /\ \A k \in 1..n : q[k] \in Scoped(c, r, f)
              /\ \A j, k \in 1..n : q[j] = q[k] => j = k
  <1> DEFINE s == Scoped(c, r, f)
  <1>1. s \in SUBSET DOMAIN c /\ IsFiniteSet(s) /\ CountOf(c, r, f) = Cardinality(s) /\ CountOf(c, r, f) \in Nat
    BY ScopedIs DEF CountOf
  <1>2. Stream(c, r, f) = Boosted(c, s, Before(c, r, f, s))
    BY DEF Stream
  <1> HIDE DEF s
  <1>3. OrdersAll(Before(c, r, f, s), s)
    BY <1>1, BeforeOrders
  <1> QED
    BY <1>1, <1>2, <1>3, BoostedIs DEF s

LEMMA Multiples ==
    ASSUME NEW b \in Nat \ {0}, NEW x \in Nat, NEW y \in Nat
    PROVE  /\ x * b \in Nat /\ x < y => x * b + b <= y * b
           /\ x <= y => x * b <= y * b
  OBVIOUS

\* The rows before a page; a place in the stream is one place of one page.
LEMMA Offsets ==
    ASSUME NEW p \in Nat \ {0}, NEW u \in Nat \ {0}
    PROVE  /\ Offset(p) \in Nat
           /\ p < u => Offset(p) + PageSize <= Offset(u)
           /\ p <= u => Offset(p) <= Offset(u)
  <1>1. PageSize \in Nat \ {0} /\ p - 1 \in Nat /\ u - 1 \in Nat
    BY BoardReadsAssumption
  <1> DEFINE a == p - 1  e == u - 1
  <1>2. p < u <=> a < e
    OBVIOUS
  <1>3. p <= u <=> a <= e
    OBVIOUS
  <1>4. Offset(p) = a * PageSize /\ Offset(u) = e * PageSize
    BY DEF Offset
  <1>5. a \in Nat /\ e \in Nat
    BY <1>1
  <1> HIDE DEF a, e
  <1> QED
    BY <1>1, <1>2, <1>3, <1>4, <1>5, Multiples

LEMMA PagesReach ==
    ASSUME NEW n \in Nat
    PROVE  /\ PagesFor(n) \in Nat
           /\ \A p \in Nat \ {0} : p <= PagesFor(n) <=> Offset(p) < n
  <1> DEFINE b == PageSize  a == n + b - 1  q == a \div b  m == a % b
  <1>0. b \in Nat \ {0}
    BY BoardReadsAssumption
  <1>1. a \in Nat
    BY <1>0
  <1>2. PagesFor(n) = q
    BY DEF PagesFor
  <1>3. \A p : Offset(p) = (p - 1) * b
    BY DEF Offset
  <1> HIDE DEF a, b
  <1>4. q \in Nat /\ m \in 0..(b - 1) /\ a = b * q + m
    BY <1>0, <1>1
  <1> HIDE DEF q, m
  <1>5. a = q * b + m /\ q * b \in Nat
    BY <1>0, <1>4
  <1>6. ASSUME NEW p \in Nat \ {0} PROVE p <= q <=> Offset(p) < n
    <2> DEFINE x == p - 1
    <2>1. x \in Nat /\ (p <= q <=> x < q) /\ Offset(p) = x * b
      BY <1>3, <1>4
    <2> HIDE DEF x
    <2>2. x * b \in Nat /\ (x < q => x * b + b <= q * b) /\ (q <= x => q * b <= x * b)
      BY <1>0, <1>4, <2>1, Multiples
    <2>3. n = q * b + m - b + 1
      BY <1>0, <1>4, <1>5 DEF a
    <2> QED
      BY <1>0, <1>4, <1>5, <2>1, <2>2, <2>3
  <1> QED
    BY <1>2, <1>4, <1>6

LEMMA PlacesOnPages ==
    ASSUME NEW j \in Nat \ {0}
    PROVE  \E p \in Nat \ {0}, k \in 1..PageSize : j = Offset(p) + k
  <1> DEFINE b == PageSize  a == j - 1  d == a \div b  e == a % b
  <1>0. b \in Nat \ {0} /\ a \in Nat
    BY BoardReadsAssumption
  <1>1. \A p : Offset(p) = (p - 1) * b
    BY DEF Offset
  <1>2. j = a + 1
    OBVIOUS
  <1> HIDE DEF a, b
  <1>3. d \in Nat /\ e \in 0..(b - 1) /\ a = b * d + e
    BY <1>0
  <1> HIDE DEF d, e
  <1>4. a = d * b + e /\ d * b \in Nat
    BY <1>0, <1>3
  <1>5. Offset(d + 1) = d * b /\ d + 1 \in Nat \ {0}
    <2>1. d + 1 - 1 = d
      BY <1>3
    <2> QED
      BY <1>1, <1>3, <2>1
  <1>6. e + 1 \in 1..b /\ j = Offset(d + 1) + (e + 1)
    BY <1>0, <1>2, <1>3, <1>4, <1>5
  <1> QED
    BY <1>5, <1>6 DEF b

LEMMA OnePlace ==
    ASSUME NEW p \in Nat \ {0}, NEW u \in Nat \ {0}, NEW k \in 1..PageSize, NEW l \in 1..PageSize,
           Offset(p) + k = Offset(u) + l
    PROVE  p = u /\ k = l
  <1>0. PageSize \in Nat \ {0}
    BY BoardReadsAssumption
  <1>1. Offset(p) \in Nat /\ Offset(u) \in Nat
    BY Offsets
  <1>2. p < u => Offset(p) + PageSize <= Offset(u)
    BY Offsets
  <1>3. u < p => Offset(u) + PageSize <= Offset(p)
    BY Offsets
  <1> QED
    BY <1>0, <1>1, <1>2, <1>3

\* The page p of a question.
PageAt(c, r, f, p) == PageOf(c, [r EXCEPT !.page = p], f)

\* The rows of a page, one after another.
LEMMA PageIs ==
    ASSUME NEW c \in Seq(Listings), NEW r \in Asked, NEW f \in Seq(Nat), NEW p \in Nat \ {0}
    PROVE  /\ \A k : /\ k \in DOMAIN PageAt(c, r, f, p) <=>
                            k \in 1..PageSize /\ Offset(p) + k <= CountOf(c, r, f)
                     /\ k \in DOMAIN PageAt(c, r, f, p) =>
                            PageAt(c, r, f, p)[k] = c[Stream(c, r, f)[Offset(p) + k]]
           /\ (PageAt(c, r, f, p) = <<>>) <=> (Offset(p) >= CountOf(c, r, f))
           /\ \E m \in Nat : DOMAIN PageAt(c, r, f, p) = 1..m
  <1> DEFINE q == [r EXCEPT !.page = p]
             page == PageOf(c, q, f)
             n == CountOf(c, r, f)
             off == Offset(p)
             at == {k \in 1..PageSize : off + k <= n}
             m == IF off >= n THEN 0 ELSE IF n - off < PageSize THEN n - off ELSE PageSize
  <1>0. PageSize \in Nat \ {0} /\ n \in Nat /\ off \in Nat
    BY BoardReadsAssumption, ScopedIs, Offsets
  <1>1. q.page = p /\ q.reader = r.reader /\ q.query = r.query /\ q.tier = r.tier /\ q.sort = r.sort
    BY DEF Asked
  <1> HIDE DEF q
  <1>2. Scoped(c, q, f) = Scoped(c, r, f)
    BY <1>1 DEF Scoped
  <1>3. Before(c, q, f, Scoped(c, r, f)) = Before(c, r, f, Scoped(c, r, f))
    BY <1>1 DEF Before, Keys
  <1>4. Stream(c, q, f) = Stream(c, r, f) /\ Len(Stream(c, r, f)) = n
    BY <1>2, <1>3, StreamIs DEF Stream
  <1>5. Offset(q.page) = off
    BY <1>1
  <1>6. page = [k \in 1..Cardinality(at) |-> c[Stream(c, r, f)[off + k]]]
    BY <1>4, <1>5 DEF PageOf
  <1> HIDE DEF n, off
  <1>7. m \in Nat /\ at = 1..m
    BY <1>0
  <1>8. m = 0 <=> off >= n
    BY <1>0
  <1> HIDE DEF at, m, page
  <1>9. Cardinality(at) = m
    BY <1>7, FS_Interval
  <1>10. DOMAIN page = at /\ DOMAIN page = 1..m /\ \A k \in at : page[k] = c[Stream(c, r, f)[off + k]]
    BY <1>6, <1>7, <1>9
  <1>11. (page = <<>>) <=> (off >= n)
    <2>1. 1..m = {} <=> m = 0
      BY <1>7
    <2>2. page = <<>> <=> DOMAIN page = {}
      BY <1>6, <1>7, <1>9
    <2> QED
      BY <1>8, <1>10, <2>1, <2>2
  <1> QED
    BY <1>7, <1>10, <1>11 DEF q, at, n, off, page, PageAt

LEMMA Bijections ==
    ASSUME NEW n \in Nat, NEW T, NEW g \in [1..n -> T],
           \A j, k \in 1..n : g[j] = g[k] => j = k,
           \A t \in T : \E j \in 1..n : g[j] = t
    PROVE  Cardinality(T) = n
  <1>1. g \in Bijection(1..n, T)
    BY DEF Bijection, Injection, Surjection, IsInjective
  <1>2. ExistsBijection(1..n, T)
    BY <1>1 DEF ExistsBijection
  <1>3. IsFiniteSet(1..n) /\ Cardinality(1..n) = n
    BY FS_Interval
  <1> QED
    BY <1>2, <1>3, FS_Bijection

\* The pages of a question are its whole answer, each row of it once.
LEMMA PagesPartition ==
    ASSUME NEW c \in Seq(Listings), \A i, j \in DOMAIN c : c[i].id = c[j].id => i = j,
           NEW r \in Asked, NEW f \in Seq(Nat)
    PROVE  LET n == CountOf(c, r, f)
               last == PagesFor(n)
               page(p) == PageAt(c, r, f, p)
               held == UNION {Range(page(p)) : p \in 1..last}
               rows == UNION {{<<p, k>> : k \in DOMAIN page(p)} : p \in 1..last}
           IN /\ last \in Nat
              /\ \A p \in 1..last : page(p) # <<>>
              /\ Cardinality(rows) = n
              /\ Cardinality(held) = n
              /\ page(last + 1) = <<>>
  <1> DEFINE n == CountOf(c, r, f)
             last == PagesFor(n)
             page(p) == PageAt(c, r, f, p)
             held == UNION {Range(page(p)) : p \in 1..last}
             rows == UNION {{<<p, k>> : k \in DOMAIN page(p)} : p \in 1..last}
             q == Stream(c, r, f)
  <1>0. PageSize \in Nat \ {0} /\ n \in Nat
    BY BoardReadsAssumption, ScopedIs
  <1>1. ASSUME NEW p \in Nat \ {0}
        PROVE  /\ \A k : k \in DOMAIN page(p) <=> k \in 1..PageSize /\ Offset(p) + k <= n
               /\ \A k \in DOMAIN page(p) : page(p)[k] = c[q[Offset(p) + k]]
               /\ (page(p) = <<>>) <=> (Offset(p) >= n)
               /\ Offset(p) \in Nat
    <2>1. Offset(p) \in Nat
      BY Offsets
    <2>2. \A k : k \in DOMAIN page(p) <=> k \in 1..PageSize /\ Offset(p) + k <= n
      BY PageIs
    <2>3. \A k \in DOMAIN page(p) : page(p)[k] = c[q[Offset(p) + k]]
      BY PageIs
    <2>4. (page(p) = <<>>) <=> (Offset(p) >= n)
      BY PageIs
    <2> QED
      BY <2>1, <2>2, <2>3, <2>4
  <1>2. \A k \in 1..n : q[k] \in DOMAIN c
    BY StreamIs, ScopedIs
  <1>3. \A j, k \in 1..n : q[j] = q[k] => j = k
    BY StreamIs
  <1>4. last \in Nat /\ \A p \in Nat \ {0} : p <= last <=> Offset(p) < n
    BY <1>0, PagesReach
  <1> HIDE DEF n, page, q, last
  <1>5. \A p \in 1..last : page(p) # <<>>
    <2> SUFFICES ASSUME NEW p \in 1..last PROVE page(p) # <<>>
      OBVIOUS
    <2>1. p \in Nat \ {0} /\ p <= last
      BY <1>4
    <2> QED
      BY <1>0, <1>1, <1>4, <2>1
  <1>6. page(last + 1) = <<>>
    <2>1. last + 1 \in Nat \ {0} /\ ~(last + 1 <= last)
      BY <1>4
    <2> QED
      BY <1>0, <1>1, <1>4, <2>1
  <1>7. ASSUME NEW j \in 1..n
        PROVE  \E p \in 1..last : \E k \in DOMAIN page(p) : Offset(p) + k = j
    <2>1. j \in Nat \ {0}
      BY <1>0
    <2>2. PICK p \in Nat \ {0}, k \in 1..PageSize : j = Offset(p) + k
      BY <2>1, PlacesOnPages
    <2>3. Offset(p) < n /\ Offset(p) + k <= n
      BY <1>0, <1>1, <2>2
    <2>4. p \in 1..last
      BY <1>4, <2>3
    <2> QED
      BY <1>1, <2>2, <2>3, <2>4
  <1>8. ASSUME NEW p \in 1..last, NEW k \in DOMAIN page(p)
        PROVE  /\ Offset(p) + k \in 1..n /\ k \in 1..PageSize /\ p \in Nat \ {0}
               /\ page(p)[k] = c[q[Offset(p) + k]]
    <2>1. p \in Nat \ {0}
      BY <1>4
    <2> QED
      BY <1>0, <1>1, <2>1
  <1>9. Cardinality(rows) = n
    <2> DEFINE At(j, t) == \E p \in 1..last : \E k \in DOMAIN page(p) : t = <<p, k>> /\ Offset(p) + k = j
               g == [j \in 1..n |-> CHOOSE t \in rows : At(j, t)]
    <2>1. \A t : t \in rows <=> \E p \in 1..last : \E k \in DOMAIN page(p) : t = <<p, k>>
      OBVIOUS
    <2>2. \A j \in 1..n : \E t \in rows : At(j, t)
      BY <1>7, <2>1
    <2>3. \A t \in rows : \E j \in 1..n : At(j, t)
      BY <1>8, <2>1
    <2>4. ASSUME NEW i, NEW j, NEW t, At(i, t), At(j, t) PROVE i = j
      BY <2>4
    <2>5. ASSUME NEW j, NEW t, NEW v, At(j, t), At(j, v) PROVE t = v
      <3>1. PICK p \in 1..last : \E k \in DOMAIN page(p) : t = <<p, k>> /\ Offset(p) + k = j
        BY <2>5
      <3>2. PICK k \in DOMAIN page(p) : t = <<p, k>> /\ Offset(p) + k = j
        BY <3>1
      <3>3. PICK u \in 1..last : \E l \in DOMAIN page(u) : v = <<u, l>> /\ Offset(u) + l = j
        BY <2>5
      <3>4. PICK l \in DOMAIN page(u) : v = <<u, l>> /\ Offset(u) + l = j
        BY <3>3
      <3>5. p = u /\ k = l
        BY <1>8, <3>2, <3>4, OnePlace
      <3> QED
        BY <3>2, <3>4, <3>5
    <2> HIDE DEF rows, At
    <2>6. \A j \in 1..n : g[j] \in rows /\ At(j, g[j])
      BY <2>2
    <2>7. g \in [1..n -> rows]
      BY <2>6
    <2> HIDE DEF g
    <2>8. \A i, j \in 1..n : g[i] = g[j] => i = j
      BY <2>4, <2>6
    <2>9. \A t \in rows : \E j \in 1..n : g[j] = t
      BY <2>3, <2>5, <2>6
    <2> QED
      BY <1>0, <2>7, <2>8, <2>9, Bijections
  <1>10. Cardinality(held) = n
    <2> DEFINE g == [j \in 1..n |-> c[q[j]]]
    <2>1. ASSUME NEW j \in 1..n PROVE c[q[j]] \in held
      <3>1. PICK p \in 1..last : \E k \in DOMAIN page(p) : Offset(p) + k = j
        BY <1>7
      <3>2. PICK k \in DOMAIN page(p) : Offset(p) + k = j
        BY <3>1
      <3>3. c[q[j]] \in Range(page(p))
        BY <1>8, <3>2 DEF Range
      <3> QED
        BY <3>3
    <2>2. ASSUME NEW j \in 1..n, NEW k \in 1..n, c[q[j]] = c[q[k]] PROVE j = k
      BY <1>2, <1>3, <2>2
    <2>3. ASSUME NEW t \in held PROVE \E j \in 1..n : c[q[j]] = t
      <3>1. PICK p \in 1..last : t \in Range(page(p))
        OBVIOUS
      <3>2. PICK k \in DOMAIN page(p) : t = page(p)[k]
        BY <3>1 DEF Range
      <3> QED
        BY <1>8, <3>2
    <2> HIDE DEF held
    <2>4. g \in [1..n -> held]
      BY <2>1
    <2>5. \A j, k \in 1..n : g[j] = g[k] => j = k
      BY <2>2
    <2>6. \A t \in held : \E j \in 1..n : g[j] = t
      BY <2>3
    <2> HIDE DEF g
    <2> QED
      BY <1>0, <2>4, <2>5, <2>6, Bijections
  <1> QED
    BY <1>4, <1>5, <1>6, <1>9, <1>10 DEF n, last, page
----------------------------------------------------------------------------
(* The share of an employer, what a search returns, the counts.            *)

\* Of the elements in one order, as many are among the first k as there can be.
LEMMA FirstOnes ==
    ASSUME NEW s, IsFiniteSet(s), NEW order, OrdersAll(order, s), NEW k \in Nat
    PROVE  Cardinality({x \in s : Ahead(s, order, x) < k}) = Smaller(k, Cardinality(s))
  <1> DEFINE n == Cardinality(s)
             m == Smaller(k, n)
             q == InOrderOf(s, order)
             T == {x \in s : Ahead(s, order, x) < k}
             g == [j \in 1..m |-> q[j]]
  <1>0. n \in Nat /\ m \in Nat /\ m <= n /\ m <= k /\ (m = n \/ m = k)
    BY FS_CardinalityType DEF Smaller
  <1>1. /\ \A j \in 1..n : q[j] \in s /\ Ahead(s, order, q[j]) = j - 1
        /\ \A i, j \in 1..n : q[i] = q[j] => i = j
        /\ Range(q) = s /\ DOMAIN q = 1..n
    BY InOrderOfIs
  <1> HIDE DEF q, n, m
  <1>2. g \in [1..m -> T]
    BY <1>0, <1>1
  <1>3. \A i, j \in 1..m : g[i] = g[j] => i = j
    BY <1>0, <1>1
  <1>4. ASSUME NEW t \in T PROVE \E j \in 1..m : g[j] = t
    <2>1. PICK j \in 1..n : q[j] = t
      BY <1>1 DEF Range
    <2>2. j - 1 < k
      BY <1>1, <2>1
    <2> QED
      BY <1>0, <2>1, <2>2
  <1> HIDE DEF T, g
  <1>5. Cardinality(T) = m
    BY <1>0, <1>2, <1>3, <1>4, Bijections
  <1> QED
    BY <1>5 DEF T, m, n

LEMMA ShareIs ==
    ASSUME NEW c \in Seq(Listings), NEW firm
    PROVE  LET open == {i \in Core(c) : c[i].firm = firm}
           IN Cardinality(BOARD_WHERE(c) \cap open) = Smaller(Cap, Cardinality(open))
  <1> DEFINE open == {i \in Core(c) : c[i].firm = firm}
             F == {p \in open \X open : Fresher(c, p[1], p[2])}
  <1>0. Cap \in Nat
    BY BoardReadsAssumption
  <1>1. open \in SUBSET DOMAIN c /\ \A i \in open : i \in Nat /\ c[i].day \in Nat
    <2>1. open \in SUBSET DOMAIN c
      BY DEF Core
    <2>2. \A i \in DOMAIN c : i \in Nat /\ c[i] \in Listings
      BY LenProperties, ElementOfSeq
    <2> QED
      BY <2>1, <2>2 DEF Listings
  <1>2. IsFiniteSet(open)
    <2>1. IsFiniteSet(DOMAIN c)
      BY LenProperties, FS_Interval
    <2> QED
      BY <1>1, <2>1, FS_Subset
  <1>3. \A x, y \in open : <<x, y>> \in F <=> c[x].day < c[y].day \/ (c[x].day = c[y].day /\ x > y)
    BY DEF Fresher
  <1>4. \A i \in open : {j \in Core(c) : c[j].firm = c[i].firm /\ Fresher(c, j, i)} = {j \in open : <<j, i>> \in F}
    OBVIOUS
  <1>5. BOARD_WHERE(c) \cap open = {i \in open : Ahead(open, F, i) < Cap}
    <2>1. \A i \in open : i \in BOARD_WHERE(c) <=> Ahead(open, F, i) < Cap
      <3> SUFFICES ASSUME NEW i \in open PROVE i \in BOARD_WHERE(c) <=> Ahead(open, F, i) < Cap
        OBVIOUS
      <3>1. i \in Core(c)
        OBVIOUS
      <3> HIDE DEF open, F
      <3>2. Ahead(open, F, i) = Cardinality({j \in Core(c) : c[j].firm = c[i].firm /\ Fresher(c, j, i)})
        BY <1>4 DEF Ahead
      <3> QED
        BY <3>1, <3>2 DEF BOARD_WHERE
    <2> HIDE DEF open, F
    <2> QED
      BY <2>1
  <1> HIDE DEF open, F
  <1>6. OrdersAll(F, open)
    <2>1. \A x \in open : <<x, x>> \notin F
      BY <1>1, <1>3
    <2>2. \A x, y \in open : x # y => <<x, y>> \in F \/ <<y, x>> \in F
      BY <1>1, <1>3
    <2>3. \A x, y, z \in open : <<x, y>> \in F /\ <<y, z>> \in F => <<x, z>> \in F
      BY <1>1, <1>3
    <2> QED
      BY <2>1, <2>2, <2>3 DEF OrdersAll
  <1>7. Cardinality(BOARD_WHERE(c) \cap open) = Smaller(Cap, Cardinality(open))
    BY <1>0, <1>2, <1>5, <1>6, FirstOnes
  <1> QED
    BY <1>7 DEF open

LEMMA ByWeightIs ==
    ASSUME NEW c \in Seq(Listings), NEW s \in SUBSET DOMAIN c
    PROVE  ByWeight(c, s) \in Seq(Nat)
  <1> DEFINE W(i) == Weight(c[i])
             R == {p \in s \X s : W(p[1]) < W(p[2]) \/ (W(p[1]) = W(p[2]) /\ p[1] < p[2])}
  <1>1. \A i \in s : W(i) \in Nat /\ i \in Nat
    <2>1. \A i \in s : i \in Nat
      BY LenProperties
    <2> QED
      BY <2>1 DEF Weight
  <1>2. IsFiniteSet(s)
    BY LenProperties, FS_Interval, FS_Subset
  <1>3. ByWeight(c, s) = InOrderOf(s, R)
    BY DEF ByWeight
  <1>4. \A x, y \in s : <<x, y>> \in R <=> W(x) < W(y) \/ (W(x) = W(y) /\ x < y)
    OBVIOUS
  <1> HIDE DEF W, R
  <1>5. OrdersAll(R, s)
    <2>1. \A x \in s : <<x, x>> \notin R
      BY <1>1, <1>4
    <2>2. \A x, y \in s : x # y => <<x, y>> \in R \/ <<y, x>> \in R
      BY <1>1, <1>4
    <2>3. \A x, y, z \in s : <<x, y>> \in R /\ <<y, z>> \in R => <<x, z>> \in R
      BY <1>1, <1>4
    <2> QED
      BY <2>1, <2>2, <2>3 DEF OrdersAll
  <1>6. InOrderOf(s, R) \in Seq(s)
    BY <1>2, <1>5, InOrderOfIs
  <1>7. Seq(s) \subseteq Seq(Nat)
    <2>1. s \subseteq Nat
      BY <1>1
    <2> QED
      BY <2>1, SeqDef
  <1> QED
    BY <1>3, <1>6, <1>7

LEMMA MatchingIs ==
    ASSUME NEW c \in Seq(Listings), NEW query
    PROVE  matching_rowids(c, query) \in Seq(Nat)
  <1>1. ASSUME NEW s \in SUBSET DOMAIN c PROVE Refined(c, s) \in Seq(Nat)
    <2> DEFINE a == ByWeight(c, {i \in s : c[i].match # "opposite" /\ c[i].match = "exact"})
               b == ByWeight(c, {i \in s : c[i].match # "opposite" /\ ~(c[i].match = "exact")})
    <2>1. a \in Seq(Nat) /\ b \in Seq(Nat)
      BY ByWeightIs
    <2>2. /\ {i \in {x \in s : c[x].match # "opposite"} : c[i].match = "exact"}
                = {i \in s : c[i].match # "opposite" /\ c[i].match = "exact"}
          /\ {i \in {x \in s : c[x].match # "opposite"} : ~(c[i].match = "exact")}
                = {i \in s : c[i].match # "opposite" /\ ~(c[i].match = "exact")}
      OBVIOUS
    <2>3. Refined(c, s) = a \o b
      BY <2>2 DEF Refined
    <2> HIDE DEF a, b
    <2> QED
      BY <2>1, <2>3, ConcatProperties
  <1> DEFINE titles == Hits(c, {"exact", "title", "opposite"})
             skills == Hits(c, {"skills"})
             any == titles \cup skills \cup Hits(c, {"text"})
  <1>2. titles \in SUBSET DOMAIN c /\ skills \in SUBSET DOMAIN c /\ any \in SUBSET DOMAIN c
    BY DEF Hits
  <1>3. matching_rowids(c, query) \in {Refined(c, titles), ByWeight(c, skills), Refined(c, any)}
    BY DEF matching_rowids
  <1> HIDE DEF titles, skills, any
  <1> QED
    BY <1>1, <1>2, <1>3, ByWeightIs

LEMMA FacetsAreCounts ==
    ASSUME NEW c, NEW r \in Asked, NEW f, r.query # "none" => f = matching_rowids(c, r.query), NEW t \in Tiers
    PROVE  tier_counts(c, r)[t] = CountOf(c, [r EXCEPT !.tier = t], f)
  <1> DEFINE q == [r EXCEPT !.tier = t]
  <1>1. q.tier = t /\ q.query = r.query /\ q.reader = r.reader /\ t # "all"
    BY DEF Asked, Tiers
  <1> HIDE DEF q
  <1>2. {i \in scope_where(c, r) : c[i].tier = t} = Scoped(c, q, f)
    BY <1>1 DEF scope_where, Scoped
  <1>3. tier_counts(c, r)[t] = Cardinality({i \in scope_where(c, r) : c[i].tier = t})
    BY DEF tier_counts
  <1> QED
    BY <1>2, <1>3 DEF CountOf, q
----------------------------------------------------------------------------
(* A request, step by step.                                                *)

Distinct(c) == \A i, j \in DOMAIN c : c[i].id = c[j].id => i = j

\* What holds between the statements of a request: while no publication came between them,
\* what was looked up, counted and answered is what the table gives now.
BoardInv ==
    /\ table \in Seq(Listings) /\ Distinct(table)
    /\ request \in Asked /\ found \in Seq(Nat) /\ reader \in Audiences
    /\ stage \in {"count", "read", "answered"} /\ ~published =>
           found = (IF request.query = "none" THEN <<>> ELSE matching_rowids(table, request.query))
    /\ stage \in {"read", "answered"} /\ ~published => total = CountOf(table, request, found)
    /\ stage = "answered" /\ ~published => answered = PageOf(table, request, found)

LEMMA FunctionsAreSeqs ==
    ASSUME NEW S, NEW n \in Nat, NEW g \in [1..n -> S]
    PROVE  g \in Seq(S)
  BY SeqDef

LEMMA PublishedTables ==
    ASSUME NEW c \in Seq(Listings), Distinct(c), NEW d \in {Reverse(c), SubSeq(c, 2, Len(c))}
    PROVE  d \in Seq(Listings) /\ Distinct(d)
  <1>1. Len(c) \in Nat /\ DOMAIN c = 1..Len(c) /\ \A i \in DOMAIN c : c[i] \in Listings
    BY LenProperties, ElementOfSeq
  <1>2. CASE d = Reverse(c)
    <2>1. d = [i \in 1..Len(c) |-> c[(Len(c) - i) + 1]]
      BY <1>2 DEF Reverse
    <2>2. \A i \in 1..Len(c) : (Len(c) - i) + 1 \in 1..Len(c)
      BY <1>1
    <2>3. d \in [1..Len(c) -> Listings]
      BY <1>1, <2>1, <2>2
    <2>4. d \in Seq(Listings)
      BY <1>1, <2>3, FunctionsAreSeqs
    <2>5. ASSUME NEW i \in DOMAIN d, NEW j \in DOMAIN d, d[i].id = d[j].id PROVE i = j
      <3>1. i \in 1..Len(c) /\ j \in 1..Len(c)
        BY <2>1
      <3>2. (Len(c) - i) + 1 = (Len(c) - j) + 1
        BY <1>1, <2>1, <2>2, <2>5, <3>1 DEF Distinct
      <3> QED
        BY <1>1, <3>1, <3>2
    <2> QED
      BY <2>4, <2>5 DEF Distinct
  <1>3. CASE d = SubSeq(c, 2, Len(c))
    <2>1. d = [i \in 1..(Len(c) - 1) |-> c[i + 1]]
      BY <1>1, <1>3
    <2>2. \A i \in 1..(Len(c) - 1) : i + 1 \in 1..Len(c)
      BY <1>1
    <2>3. d \in Seq(Listings)
      <3>1. CASE Len(c) = 0
        <4>1. d = [i \in 1..0 |-> c[i + 1]]
          <5>1. 1..(Len(c) - 1) = 1..0
            BY <1>1, <3>1
          <5> QED
            BY <2>1, <5>1
        <4>2. d \in [1..0 -> Listings]
          BY <4>1
        <4> QED
          BY <4>2, FunctionsAreSeqs
      <3>2. CASE Len(c) # 0
        <4>1. Len(c) - 1 \in Nat
          BY <1>1, <3>2
        <4>2. d \in [1..(Len(c) - 1) -> Listings]
          BY <1>1, <2>1, <2>2
        <4> QED
          BY <4>1, <4>2, FunctionsAreSeqs
      <3> QED
        BY <3>1, <3>2
    <2>4. ASSUME NEW i \in DOMAIN d, NEW j \in DOMAIN d, d[i].id = d[j].id PROVE i = j
      <3>1. i \in 1..(Len(c) - 1) /\ j \in 1..(Len(c) - 1)
        BY <2>1
      <3>2. i + 1 = j + 1
        BY <1>1, <2>1, <2>2, <2>4, <3>1 DEF Distinct
      <3> QED
        BY <1>1, <3>1, <3>2
    <2> QED
      BY <2>3, <2>4 DEF Distinct
  <1> QED
    BY <1>2, <1>3

LEMMA BoardInvInit == ReadInit => BoardInv
  <1> SUFFICES ASSUME ReadInit PROVE BoardInv
    OBVIOUS
  <1>1. table \in Seq(Listings) /\ Distinct(table)
    BY BoardReadsAssumption DEF ReadInit, Distinct
  <1>2. request \in Asked
    BY DEF ReadInit, NoRequest, Asked, Audiences, Sorts
  <1>3. found \in Seq(Nat) /\ reader \in Audiences /\ stage = "ask"
    BY EmptySeq DEF ReadInit
  <1> QED
    BY <1>1, <1>2, <1>3 DEF BoardInv

LEMMA BoardInvStep == BoardInv /\ [ReadNext]_readVars => BoardInv'
  <1> SUFFICES ASSUME BoardInv, [ReadNext]_readVars PROVE BoardInv'
    OBVIOUS
  <1>1. ASSUME NEW q \in {"none", "word", "phrase"}, NEW s \in Sorts, NEW t \in {"all"} \cup Tiers,
               NEW p \in 1..2, Ask(q, s, t, p)
        PROVE  BoardInv'
    <2>1. request' \in Asked
      BY <1>1 DEF Ask, BoardInv, Asked
    <2>2. stage' \in {"refused", "look"} /\ found' \in Seq(Nat)
      BY <1>1, EmptySeq DEF Ask
    <2>3. UNCHANGED <<table, reader>>
      BY <1>1 DEF Ask
    <2> QED
      BY <2>1, <2>2, <2>3 DEF BoardInv, Distinct
  <1>2. CASE LookUp
    <2>1. stage' = "count" /\ found' = (IF request.query = "none" THEN <<>> ELSE matching_rowids(table, request.query))
      BY <1>2 DEF LookUp
    <2>2. UNCHANGED <<table, request, reader>>
      BY <1>2 DEF LookUp
    <2>3. found' \in Seq(Nat)
      BY <2>1, MatchingIs, EmptySeq DEF BoardInv
    <2> QED
      BY <2>1, <2>2, <2>3 DEF BoardInv, Distinct
  <1>3. CASE Count
    BY <1>3 DEF Count, BoardInv, Distinct
  <1>4. CASE ReadThePage
    BY <1>4 DEF ReadThePage, BoardInv, Distinct
  <1>5. CASE SignOut
    <2>1. UNCHANGED <<table, request, stage, found, total, answered, published>> /\ reader' \in Audiences
      BY <1>5 DEF SignOut, Audiences
    <2> QED
      BY <2>1 DEF BoardInv, Distinct
  <1>6. CASE HourPasses
    <2>1. UNCHANGED <<table, request, stage, found, total, answered, published, reader>>
      BY <1>6 DEF HourPasses
    <2> QED
      BY <2>1 DEF BoardInv, Distinct
  <1>7. CASE PublishCatalogue
    <2>1. table' \in {Reverse(table), SubSeq(table, 2, Len(table))} /\ published' = TRUE
          /\ UNCHANGED <<request, stage, found, reader>>
      BY <1>7 DEF PublishCatalogue
    <2>2. table' \in Seq(Listings) /\ Distinct(table')
      BY <2>1, PublishedTables DEF BoardInv
    <2> QED
      BY <2>1, <2>2 DEF BoardInv, Distinct
  <1>8. ASSUME NEW i \in DOMAIN table, OpenDetail(table[i]) PROVE BoardInv'
    <2>1. UNCHANGED <<table, request, stage, found, total, answered, published, reader>>
      BY <1>8 DEF OpenDetail
    <2> QED
      BY <2>1 DEF BoardInv, Distinct
  <1>9. CASE UNCHANGED readVars
    BY <1>9 DEF readVars, BoardInv, Distinct
  <1> QED
    BY <1>1, <1>2, <1>3, <1>4, <1>5, <1>6, <1>7, <1>8, <1>9 DEF ReadNext

LEMMA OwnPage ==
    ASSUME NEW c, NEW r \in Asked, NEW f
    PROVE  PageOf(c, r, f) = PageAt(c, r, f, r.page) /\ r.page \in Nat \ {0}
  BY DEF Asked, PageAt

LEMMA PagesAreTheAnswer == BoardInv => PagesPartitionTheAnswer
  <1> SUFFICES ASSUME BoardInv, stage = "answered", ~published
               PROVE  LET last == PagesFor(total)
                          page(p) == PageOf(table, [request EXCEPT !.page = p], found)
                          held == UNION {Range(page(p)) : p \in 1..last}
                          rows == UNION {{<<p, k>> : k \in DOMAIN page(p)} : p \in 1..last}
                      IN /\ request.page <= last => answered # <<>>
                         /\ Cardinality(rows) = total
                         /\ Cardinality(held) = total
                         /\ page(last + 1) = <<>>
    BY DEF PagesPartitionTheAnswer
  <1> DEFINE last == PagesFor(total)
             page(p) == PageOf(table, [request EXCEPT !.page = p], found)
             held == UNION {Range(page(p)) : p \in 1..last}
             rows == UNION {{<<p, k>> : k \in DOMAIN page(p)} : p \in 1..last}
  <1>1. total = CountOf(table, request, found) /\ answered = PageOf(table, request, found)
    BY DEF BoardInv
  <1>2. table \in Seq(Listings) /\ request \in Asked /\ found \in Seq(Nat)
        /\ \A i, j \in DOMAIN table : table[i].id = table[j].id => i = j
    BY DEF BoardInv, Distinct
  <1>3. \A p : page(p) = PageAt(table, request, found, p)
    BY DEF PageAt
  <1> HIDE DEF page
  <1>4. held = UNION {Range(PageAt(table, request, found, p)) : p \in 1..last}
    BY <1>3
  <1>5. rows = UNION {{<<p, k>> : k \in DOMAIN PageAt(table, request, found, p)} : p \in 1..last}
    BY <1>3
  <1> HIDE DEF held, rows
  <1>6. /\ last \in Nat
        /\ \A p \in 1..last : PageAt(table, request, found, p) # <<>>
        /\ Cardinality(rows) = total
        /\ Cardinality(held) = total
        /\ PageAt(table, request, found, last + 1) = <<>>
    BY <1>1, <1>2, <1>4, <1>5, PagesPartition
  <1>7. page(last + 1) = <<>>
    BY <1>3, <1>6
  <1>8. answered = PageAt(table, request, found, request.page) /\ request.page \in Nat \ {0}
    BY <1>1, <1>2, OwnPage
  <1> HIDE DEF last
  <1>9. request.page <= last => answered # <<>>
    BY <1>6, <1>8
  <1> QED
    BY <1>6, <1>7, <1>9 DEF held, rows, page, last

LEMMA PostsKeepCadence == BoardInv => PostsKeepTheirCadence
  <1> SUFFICES ASSUME BoardInv
               PROVE  LET stream == Stream(table, request, found)
                          Posts(k) == Cardinality({n \in 1..k : table[stream[n]].tier = "social"})
                          posts == Posts(Len(stream))
                          others == Len(stream) - posts
                      IN \A n \in 1..Len(stream) :
                             /\ Posts(n) >= Smaller(posts, (n + 1) \div BOOST_STRIDE)
                             /\ n - Posts(n) >= Smaller(others, n - ((n + 1) \div BOOST_STRIDE))
    BY DEF PostsKeepTheirCadence
  <1> DEFINE s == Scoped(table, request, found)
             order == Before(table, request, found, s)
             stream == Stream(table, request, found)
             Posts(k) == Cardinality({n \in 1..k : table[stream[n]].tier = "social"})
             N == Len(stream)
  <1>1. table \in Seq(Listings) /\ request \in Asked /\ found \in Seq(Nat)
    BY DEF BoardInv
  <1>2. s \in SUBSET DOMAIN table /\ IsFiniteSet(s)
    BY <1>1, ScopedIs
  <1>3. stream = Boosted(table, s, order)
    BY DEF Stream
  <1> HIDE DEF s
  <1>4. OrdersAll(order, s)
    BY <1>1, <1>2, BeforeOrders
  <1> HIDE DEF order, stream
  <1>5. N = Cardinality(s) /\ N \in Nat
    BY <1>1, <1>2, <1>3, <1>4, BoostedIs, FS_CardinalityType
  <1>6. \A k : Posts(k) = Cardinality(Places(table, stream, k, TRUE))
    BY DEF Places, IsPost
  <1>7. Cardinality(Places(table, stream, N, TRUE)) \in Nat
        /\ N - Posts(N) = Cardinality(Places(table, stream, N, FALSE))
    <2> HIDE DEF Posts
    <2>1. Cardinality(Places(table, stream, N, TRUE)) \in Nat /\ Cardinality(Places(table, stream, N, FALSE)) \in Nat
      BY <1>1, <1>5, PlacesAre
    <2>2. Cardinality(Places(table, stream, N, TRUE)) + Cardinality(Places(table, stream, N, FALSE)) = N
      BY <1>1, <1>5, PlacesAre
    <2>3. Posts(N) = Cardinality(Places(table, stream, N, TRUE))
      BY <1>6
    <2>4. \A a, b \in Nat : \A m, k : a + b = m /\ k = a => m - k = b
      OBVIOUS
    <2> DEFINE a == Cardinality(Places(table, stream, N, TRUE))  b == Cardinality(Places(table, stream, N, FALSE))
               k == Posts(N)
    <2>5. a \in Nat /\ b \in Nat /\ a + b = N /\ k = a
      BY <2>1, <2>2, <2>3
    <2> HIDE DEF a, b, k, N
    <2>6. a \in Nat /\ N - k = b
      BY <2>4, <2>5
    <2> QED
      BY <2>6 DEF a, b, k
  <1> HIDE DEF Posts
  <1>8. ASSUME NEW n \in 1..N
        PROVE  /\ Posts(n) >= Smaller(Posts(N), (n + 1) \div 4)
               /\ n - Posts(n) >= Smaller(N - Posts(N), n - ((n + 1) \div 4))
    <2>1. /\ Cardinality(Places(table, stream, n, TRUE)) >=
                 Smaller(Cardinality(Places(table, stream, N, TRUE)), (n + 1) \div 4)
          /\ n - Cardinality(Places(table, stream, n, TRUE)) >=
                 Smaller(Cardinality(Places(table, stream, N, FALSE)), n - ((n + 1) \div 4))
      BY <1>1, <1>2, <1>3, <1>4, <1>5, CadenceKept
    <2> QED
      BY <1>6, <1>7, <2>1
  <1> QED
    BY <1>8 DEF BOOST_STRIDE, Posts, stream

LEMMA CountsAreTrue == BoardInv => FacetsAgreeWithTheBoard /\ EmployersFillTheirShare
  <1> SUFFICES ASSUME BoardInv PROVE FacetsAgreeWithTheBoard /\ EmployersFillTheirShare
    OBVIOUS
  <1>1. FacetsAgreeWithTheBoard
    <2> SUFFICES ASSUME stage = "read", ~published, NEW t \in Tiers
                 PROVE  tier_counts(table, request)[t] = CountOf(table, [request EXCEPT !.tier = t], found)
      BY DEF FacetsAgreeWithTheBoard
    <2>1. request \in Asked /\ (request.query # "none" => found = matching_rowids(table, request.query))
      BY DEF BoardInv
    <2> QED
      BY <2>1, FacetsAreCounts
  <1>2. EmployersFillTheirShare
    BY ShareIs DEF BoardInv, EmployersFillTheirShare
  <1> QED
    BY <1>1, <1>2

LEMMA RowsAreScoped ==
    ASSUME NEW c \in Seq(Listings), NEW r \in Asked, NEW f \in Seq(Nat), NEW p \in Nat \ {0},
           NEW k \in DOMAIN PageAt(c, r, f, p)
    PROVE  \E i \in Scoped(c, r, f) : c[i] = PageAt(c, r, f, p)[k]
  <1>1. k \in 1..PageSize /\ Offset(p) + k <= CountOf(c, r, f)
        /\ PageAt(c, r, f, p)[k] = c[Stream(c, r, f)[Offset(p) + k]]
    BY PageIs
  <1>2. PageSize \in Nat /\ CountOf(c, r, f) \in Nat /\ Offset(p) \in Nat
    BY BoardReadsAssumption, ScopedIs, Offsets
  <1>3. Offset(p) + k \in 1..CountOf(c, r, f)
    BY <1>1, <1>2
  <1>4. Stream(c, r, f)[Offset(p) + k] \in Scoped(c, r, f)
    BY <1>3, StreamIs
  <1> QED
    BY <1>1, <1>4

LEMMA AnswerStep ==
    BoardInv /\ [ReadNext]_readVars =>
        (stage = "read" /\ stage' = "answered" =>
            \A l \in Range(answered') :
                \E i \in BOARD_WHERE(table) \cap InAudience(table, request.reader) : table[i] = l)
  <1> SUFFICES ASSUME BoardInv, [ReadNext]_readVars, stage = "read", stage' = "answered",
                      NEW l \in Range(answered')
               PROVE  \E i \in BOARD_WHERE(table) \cap InAudience(table, request.reader) : table[i] = l
    OBVIOUS
  <1>1. ReadThePage
    BY DEF ReadNext, readVars, Ask, LookUp, Count, ReadThePage, SignOut, HourPasses, PublishCatalogue, OpenDetail
  <1>2. table \in Seq(Listings) /\ request \in Asked /\ found \in Seq(Nat)
    BY DEF BoardInv
  <1>3. answered' = PageAt(table, request, found, request.page) /\ request.page \in Nat \ {0}
    BY <1>1, <1>2, OwnPage DEF ReadThePage
  <1>4. PICK k \in DOMAIN PageAt(table, request, found, request.page) :
            l = PageAt(table, request, found, request.page)[k]
    BY <1>3 DEF Range
  <1>5. \E i \in Scoped(table, request, found) : table[i] = l
    BY <1>2, <1>3, <1>4, RowsAreScoped
  <1>6. Scoped(table, request, found) \subseteq BOARD_WHERE(table) \cap InAudience(table, request.reader)
    BY DEF Scoped
  <1> QED
    BY <1>5, <1>6

LEMMA DetailStep ==
    [ReadNext]_readVars =>
        (detail' # detail /\ detail' # NoRole =>
            /\ reader = "admin" \/ detail' \in DOMAIN grants
            /\ reader = "public" => detail'.tier \notin MemberTier)
  <1> SUFFICES ASSUME [ReadNext]_readVars, detail' # detail, detail' # NoRole
               PROVE  /\ reader = "admin" \/ detail' \in DOMAIN grants
                      /\ reader = "public" => detail'.tier \notin MemberTier
    OBVIOUS
  <1>1. \E i \in DOMAIN table : OpenDetail(table[i])
    BY DEF ReadNext, readVars, Ask, LookUp, Count, ReadThePage, SignOut, HourPasses, PublishCatalogue
  <1> QED
    BY <1>1 DEF OpenDetail, AccessAllowed

\* What readers are given is the board, for every catalogue, page size and cap: whole in its
\* pages, in its cadence, with counts that are true of it, for nobody it is not for, however
\* publications come between the statements of a request.
THEOREM ReadersSeeTheBoard == ReadSpec => ReadsShowTheBoard
  <1>1. ReadInit => BoardInv
    BY BoardInvInit
  <1>2. BoardInv /\ [ReadNext]_readVars => BoardInv'
    BY BoardInvStep
  <1>3. BoardInv => PagesPartitionTheAnswer /\ PostsKeepTheirCadence /\ FacetsAgreeWithTheBoard /\ EmployersFillTheirShare
    BY PagesAreTheAnswer, PostsKeepCadence, CountsAreTrue
  <1>4. BoardInv /\ [ReadNext]_readVars =>
            [stage = "read" /\ stage' = "answered" =>
                \A l \in Range(answered') :
                    \E i \in BOARD_WHERE(table) \cap InAudience(table, request.reader) : table[i] = l]_readVars
    BY AnswerStep
  <1>5. BoardInv /\ [ReadNext]_readVars =>
            [detail' # detail /\ detail' # NoRole =>
                /\ reader = "admin" \/ detail' \in DOMAIN grants
                /\ reader = "public" => detail'.tier \notin MemberTier]_readVars
    BY DetailStep
  <1> QED
    BY <1>1, <1>2, <1>3, <1>4, <1>5, PTL
       DEF ReadSpec, ReadsShowTheBoard, AnswersAreForTheReader, OnlyDiscoveredRolesAreOpened
===============================================================================
