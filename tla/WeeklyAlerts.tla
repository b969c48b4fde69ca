----------------------------- MODULE WeeklyAlerts -----------------------------
(***************************************************************************)
(* The weekly Alert emails.  Every successful publication, a repeated one   *)
(* included, starts alerts.run_weekly_alerts as a background task of the    *)
(* web process: it reads who is due, and for each of them reads the account *)
(* and the Roles already sent, sends one mail, and then records the Roles   *)
(* and the moment in two transactions of seekers.db.  Seekers opt in and    *)
(* out, verify their address and delete their account meanwhile.            *)
(*                                                                         *)
(* The ranking is any choice of Roles: which of them match is not at issue. *)
(***************************************************************************)
EXTENDS Naturals, Sequences, FiniteSets

CONSTANTS
    Seekers, Roles,
    Runs,           \* background tasks that may be alive at one time
    Interval,       \* ALERT_INTERVAL, in units of the clock
    MaxRoles,       \* MAX_ROLES_PER_EMAIL
    MaxTime,        \* bound: where the clock stops
    MaxMails,       \* bound: mails delivered in a behaviour
    None

ASSUME AlertsAssumption ==
    /\ Interval \in Nat \ {0} /\ MaxRoles \in Nat \ {0}
    /\ MaxTime \in Nat /\ MaxMails \in Nat
    /\ None \notin Seekers \cup Nat

VARIABLES
    clock,
    accounts,       \* rows of seekers
    verified,       \* those whose address is verified
    optedIn,        \* alert_settings.opted_in
    lastSent,       \* alert_settings.last_sent_at, or None
    alerted,        \* alerted_roles
    pc,             \* where each run is
    moment,         \* its `now`, taken once at the start
    before,         \* history: what was kept of each mail when it started
    due,            \* the Seekers it has still to consider
    target,         \* the Seeker it is considering, or None
    selected,       \* the Roles of the mail
    mails           \* history: the mails that left, and what was kept of each

settings == <<accounts, verified, optedIn, lastSent, alerted>>
vars == <<clock, settings, pc, moment, before, due, target, selected, mails>>

Init ==
    /\ clock = 0
    /\ accounts = Seekers /\ verified \in SUBSET Seekers
    /\ optedIn = [s \in Seekers |-> FALSE]
    /\ lastSent = [s \in Seekers |-> None]
    /\ alerted = [s \in Seekers |-> {}]
    /\ pc = [r \in Runs |-> "idle"]
    /\ moment = [r \in Runs |-> 0]
    /\ before = [r \in Runs |-> <<>>]
    /\ due = [r \in Runs |-> {}]
    /\ target = [r \in Runs |-> None]
    /\ selected = [r \in Runs |-> {}]
    /\ mails = <<>>

Tick ==
    /\ clock < MaxTime /\ clock' = clock + 1
    /\ UNCHANGED <<settings, pc, moment, before, due, target, selected, mails>>

----------------------------------------------------------------------------
(* What Seekers do.                                                        *)

SetOptIn(s, choice) ==
    /\ s \in accounts /\ optedIn[s] # choice
    /\ optedIn' = [optedIn EXCEPT ![s] = choice]
    /\ UNCHANGED <<clock, accounts, verified, lastSent, alerted, pc, moment, before,
                   due, target, selected, mails>>

VerifyEmail(s) ==
    /\ s \in accounts \ verified
    /\ verified' = verified \cup {s}
    /\ UNCHANGED <<clock, accounts, optedIn, lastSent, alerted, pc, moment, before,
                   due, target, selected, mails>>

DeleteSeeker(s) ==
    /\ s \in accounts
    /\ accounts' = accounts \ {s} /\ verified' = verified \ {s}
    /\ optedIn' = [optedIn EXCEPT ![s] = FALSE]
    /\ lastSent' = [lastSent EXCEPT ![s] = None]
    /\ alerted' = [alerted EXCEPT ![s] = {}]
    /\ UNCHANGED <<clock, pc, moment, before, due, target, selected, mails>>

----------------------------------------------------------------------------
(* One run, one Seeker at a time.                                          *)

\* A publication has been answered.
Start(r) ==
    /\ pc[r] = "idle"
    /\ pc' = [pc EXCEPT ![r] = "query"]
    /\ moment' = [moment EXCEPT ![r] = clock]
    /\ before' = [before EXCEPT ![r] = [i \in DOMAIN mails |-> mails[i].kept]]
    /\ UNCHANGED <<clock, settings, due, target, selected, mails>>

\* Mutant of IsDue: everybody who opted in.
IsDueAlways(s, now) == optedIn[s]

IsDue(s, now) == optedIn[s] /\ (lastSent[s] = None \/ lastSent[s] + Interval <= now)

Query(r) ==
    /\ pc[r] = "query"
    /\ due' = [due EXCEPT ![r] = {s \in accounts : IsDue(s, moment[r])}]
    /\ pc' = [pc EXCEPT ![r] = "next"]
    /\ UNCHANGED <<clock, settings, moment, before, target, selected, mails>>

\* The next Seeker of the list, in the order the database gave: deleted
\* meanwhile or never verified, and the run goes on to the one after.
Consider(r) ==
    /\ pc[r] = "next"
    /\ \E s \in due[r] :
        /\ due' = [due EXCEPT ![r] = @ \ {s}]
        /\ IF s \in verified
           THEN /\ target' = [target EXCEPT ![r] = s]
                /\ pc' = [pc EXCEPT ![r] = "rank"]
           ELSE UNCHANGED <<target, pc>>
    /\ UNCHANGED <<clock, settings, moment, before, selected, mails>>

\* Done with this Seeker.
GoOn(r) ==
    /\ pc' = [pc EXCEPT ![r] = "next"]
    /\ target' = [target EXCEPT ![r] = None]
    /\ selected' = [selected EXCEPT ![r] = {}]

\* rank_for_seeker.  No evidence (a deleted Seeker has none left), or no match:
\* the Seeker is passed over in silence.
Rank(r) ==
    /\ pc[r] = "rank"
    /\ \/ /\ target[r] \in accounts
          /\ pc' = [pc EXCEPT ![r] = "filter"]
          /\ UNCHANGED <<target, selected>>
       \/ GoOn(r)
    /\ UNCHANGED <<clock, settings, moment, before, due, mails>>

Fresh(s) == {chosen \in SUBSET (Roles \ alerted[s]) : Cardinality(chosen) \in 1 .. MaxRoles}

\* Leave out the Roles already sent, and cap: or nothing new this week.
SelectRoles(r) ==
    /\ pc[r] = "filter"
    /\ \/ /\ \E chosen \in Fresh(target[r]) : selected' = [selected EXCEPT ![r] = chosen]
          /\ pc' = [pc EXCEPT ![r] = "send"]
          /\ UNCHANGED target
       \/ GoOn(r)
    /\ UNCHANGED <<clock, settings, moment, before, due, mails>>

Send(r) ==
    /\ pc[r] = "send"
    /\ Len(mails) < MaxMails
    /\ mails' = Append(mails, [to |-> target[r], roles |-> selected[r],
                               at |-> moment[r], kept |-> "sent", by |-> r,
                               before |-> before[r]])
    /\ pc' = [pc EXCEPT ![r] = "record"]
    /\ UNCHANGED <<clock, settings, moment, before, due, target, selected>>

\* Mail is down: nothing is recorded, the Seeker stays due.
SendFails(r) ==
    /\ pc[r] = "send"
    /\ GoOn(r)
    /\ UNCHANGED <<clock, settings, moment, before, due, mails>>

\* The run is over: done, or an exception that _trigger_weekly_alerts logs.
End(r) ==
    /\ pc' = [pc EXCEPT ![r] = "idle"]
    /\ moment' = [moment EXCEPT ![r] = 0] /\ before' = [before EXCEPT ![r] = <<>>]
    /\ due' = [due EXCEPT ![r] = {}]
    /\ target' = [target EXCEPT ![r] = None]
    /\ selected' = [selected EXCEPT ![r] = {}]

Finish(r) ==
    /\ pc[r] = "next" /\ due[r] = {}
    /\ End(r)
    /\ UNCHANGED <<clock, settings, mails>>

\* The mail a run has sent and is recording.
Mine(r) == CHOOSE i \in DOMAIN mails :
               mails[i].by = r /\ \A j \in i + 1 .. Len(mails) : mails[j].by # r

\* Mutant of Record: the foreign key is not enforced.
RecordAnyway(r) ==
    /\ pc[r] = "record"
    /\ alerted' = [alerted EXCEPT ![target[r]] = @ \cup selected[r]]
    /\ mails' = [mails EXCEPT ![Mine(r)].kept = "recorded"]
    /\ pc' = [pc EXCEPT ![r] = "mark"]
    /\ UNCHANGED <<clock, accounts, verified, optedIn, lastSent, moment, before, due,
                   target, selected>>

\* record_alerted_roles.  The account is gone: the foreign key refuses the rows,
\* and the exception ends the run, whoever was still due.
Record(r) ==
    /\ pc[r] = "record"
    /\ IF target[r] \in accounts
       THEN /\ alerted' = [alerted EXCEPT ![target[r]] = @ \cup selected[r]]
            /\ mails' = [mails EXCEPT ![Mine(r)].kept = "recorded"]
            /\ pc' = [pc EXCEPT ![r] = "mark"]
            /\ UNCHANGED <<moment, before, due, target, selected>>
       ELSE End(r) /\ UNCHANGED <<alerted, mails>>
    /\ UNCHANGED <<clock, accounts, verified, optedIn, lastSent>>

\* mark_alert_sent: an UPDATE, which finds no row when the account is gone.
MarkSent(r) ==
    /\ pc[r] = "mark"
    /\ IF target[r] \in accounts
       THEN lastSent' = [lastSent EXCEPT ![target[r]] = moment[r]]
       ELSE UNCHANGED lastSent
    /\ mails' = [mails EXCEPT ![Mine(r)].kept = "marked"]
    /\ GoOn(r)
    /\ UNCHANGED <<clock, accounts, verified, optedIn, alerted, moment, before, due>>

\* A locked database or any other exception, at any read or write of the run.
Abort(r) ==
    /\ pc[r] \notin {"idle", "send"}
    /\ End(r)
    /\ UNCHANGED <<clock, settings, mails>>

\* The web process dies, and every run with it.
Crash ==
    /\ \E r \in Runs : pc[r] # "idle"
    /\ pc' = [r \in Runs |-> "idle"]
    /\ moment' = [r \in Runs |-> 0] /\ before' = [r \in Runs |-> <<>>]
    /\ due' = [r \in Runs |-> {}]
    /\ target' = [r \in Runs |-> None]
    /\ selected' = [r \in Runs |-> {}]
    /\ UNCHANGED <<clock, settings, mails>>

Step(r) ==
    \/ Query(r) \/ Consider(r) \/ Rank(r) \/ SelectRoles(r) \/ Send(r) \/ SendFails(r)
    \/ Record(r) \/ MarkSent(r) \/ Finish(r)

Next ==
    \/ Tick
    \/ \E s \in Seekers : \E choice \in BOOLEAN : SetOptIn(s, choice)
    \/ \E s \in Seekers : VerifyEmail(s) \/ DeleteSeeker(s)
    \/ \E r \in Runs : Start(r) \/ Step(r) \/ Abort(r)
    \/ Crash

Spec == Init /\ [][Next]_vars

----------------------------------------------------------------------------
(* Properties.                                                             *)

Kept == {"sent", "recorded", "marked"}
Mail == [to: Seekers, roles: SUBSET Roles, at: Nat,
         kept: Kept, by: Runs, before: Seq(Kept)]

TypeOK ==
    /\ clock \in 0 .. MaxTime
    /\ verified \subseteq accounts /\ accounts \subseteq Seekers
    /\ optedIn \in [Seekers -> BOOLEAN]
    /\ lastSent \in [Seekers -> (0 .. clock) \cup {None}]
    /\ alerted \in [Seekers -> SUBSET Roles]
    /\ pc \in [Runs -> {"idle", "query", "next", "rank", "filter", "send", "record", "mark"}]
    /\ moment \in [Runs -> 0 .. clock] /\ before \in [Runs -> Seq(Kept)]
    /\ due \in [Runs -> SUBSET Seekers]
    /\ target \in [Runs -> Seekers \cup {None}]
    /\ selected \in [Runs -> SUBSET Roles]
    /\ mails \in Seq(Mail)

\* A deleted Seeker leaves nothing behind, not even when a run was about to
\* record a mail to them (delete_seeker: "rows gone"; ADR 0007).
DeletedSeekersLeaveNothing ==
    \A s \in Seekers \ accounts :
        ~optedIn[s] /\ lastSent[s] = None /\ alerted[s] = {}

\* Two mails to one Seeker, in order.
Repeats == {p \in (DOMAIN mails) \X (DOMAIN mails) : p[1] < p[2] /\ mails[p[1]].to = mails[p[2]].to}

Marked(mail, i) == i \in DOMAIN mail.before /\ mail.before[i] = "marked"

\* A run heeds what was kept before it started, whichever runs overlap or die: a
\* Role is mailed again only when the earlier mail was not recorded by then; a mail
\* follows another within the interval only when that one was not marked by then
\* (alerts.py:191-197), or a run with an older moment, still at work when that one
\* started, may have marked over it; or the Seeker was deleting the account.
KeptMailsAreHeeded ==
    \A p \in Repeats : LET first == mails[p[1]]  again == mails[p[2]] IN
        first.to \in accounts /\ p[1] \in DOMAIN again.before =>
        /\ again.before[p[1]] # "sent" => first.roles \cap again.roles = {}
        /\ Marked(again, p[1]) =>
            \/ first.at + Interval <= again.at
            \/ \E k \in DOMAIN mails : mails[k].to = first.to /\ mails[k].at < first.at
                                       /\ ~Marked(first, k)
=============================================================================
