------------------------------ MODULE SavedRoles ------------------------------
(***************************************************************************)
(* Saved Roles in the browser.  A visitor's are kept in localStorage, which *)
(* the tabs of a browser share; a Seeker's in the account, which other      *)
(* devices change too.  Signing in lifts what the browser holds into the    *)
(* account; a press of the bookmark is shown at once and taken back when    *)
(* its request fails.  Requests and answers overtake one another and get    *)
(* lost, and every await leaves room for the other tabs.                    *)
(***************************************************************************)
EXTENDS Naturals, FiniteSets

CONSTANTS
    Tabs, Bookmarks,
    MaxPresses      \* bound: presses of the bookmark in a behaviour

ASSUME SavedAssumption == MaxPresses \in Nat

VARIABLES
    signedIn,        \* the browser holds a session cookie
    local,          \* localStorage
    accountRoles,        \* rows of saved_roles
    tab,            \* what each tab shows and is doing
    requests,       \* saves and unsaves under way
    presses,
    pressed,        \* history: Roles a visitor ever saved in this browser
    owed,           \* history: those of them that nobody has unsaved since
    crossed         \* history: saved while a lift was between its read and its write

savedVars == <<signedIn, local, accountRoles, tab, requests, presses, pressed, owed, crossed>>

NoLift == [state |-> "none", roles |-> {}, accepted |-> {}]
NewTab == [as |-> "closed", screen |-> {}, load |-> "none", listed |-> {}, lift |-> NoLift]

SavedInit ==
    /\ signedIn = FALSE /\ local \in SUBSET Bookmarks /\ accountRoles \in SUBSET Bookmarks
    /\ tab = [t \in Tabs |-> NewTab]
    /\ requests = {} /\ presses = 0
    /\ pressed = local /\ owed = local /\ crossed = {}

SignedIn(t) == tab[t].as = "seeker"
Visitor(t) == tab[t].as = "visitor"
Lifting(t) == tab[t].lift.state # "none"
Mine(t) == {q \in requests : q.tab = t}

\* A change of localStorage by one tab reaches the other visitors' screens.
Told(t, roles, changed) ==
    [u \in Tabs |-> IF u # t /\ Visitor(u) /\ roles # local THEN [changed[u] EXCEPT !.screen = roles]
                    ELSE changed[u]]

----------------------------------------------------------------------------
(* A tab opens, signs in or signs out.                                      *)

\* The effect that loads: a Seeker's lifts first, from what localStorage holds now.
Loading(t, as) ==
    [tab[t] EXCEPT !.as = as, !.listed = {},
        !.load = IF as = "seeker" THEN "lift" ELSE "list",
        !.lift = IF as = "seeker" /\ ~Lifting(t)
                 THEN [state |-> "sent", roles |-> local, accepted |-> {}] ELSE @]

TabOpens(t) ==
    /\ tab[t].as = "closed"
    /\ tab' = [tab EXCEPT ![t] = Loading(t, IF signedIn THEN "seeker" ELSE "visitor")]
    /\ UNCHANGED <<signedIn, local, accountRoles, requests, presses, pressed, owed, crossed>>

SignIn(t) ==
    /\ Visitor(t) /\ ~Lifting(t)
    /\ signedIn' = TRUE
    /\ tab' = [tab EXCEPT ![t] = Loading(t, "seeker")]
    /\ UNCHANGED <<local, accountRoles, requests, presses, pressed, owed, crossed>>

\* What the old load has under way is cancelled, except that a lift goes on.
TabSignsOut(t) ==
    /\ SignedIn(t)
    /\ signedIn' = FALSE
    /\ tab' = [tab EXCEPT ![t] = Loading(t, "visitor")]
    /\ UNCHANGED <<local, accountRoles, requests, presses, pressed, owed, crossed>>

----------------------------------------------------------------------------
(* liftLocalRolesIntoAccount.                                              *)

\* POST /api/me/saved/merge: a union of the Roles whose tokens are good.
MergeArrives(t) ==
    /\ tab[t].lift.state = "sent" /\ signedIn
    /\ \E good \in SUBSET tab[t].lift.roles :
           /\ accountRoles' = accountRoles \cup good
           /\ tab' = [tab EXCEPT ![t].lift.state = "merged", ![t].lift.accepted = good]
           /\ UNCHANGED <<signedIn, local, requests, presses, pressed, owed, crossed>>

AfterLift(t) == [tab EXCEPT ![t].lift = NoLift,
                            ![t].load = IF @ = "lift" THEN "list" ELSE @]

\* Mutant of LiftAnswers: the browser forgets before the account confirms.
LiftForgets(t) ==
    /\ Lifting(t)
    /\ local' = {}
    /\ tab' = Told(t, local', AfterLift(t))
    /\ UNCHANGED <<signedIn, accountRoles, requests, presses, pressed, owed, crossed>>

\* The answer: what was not accepted of the Roles read before is written back,
\* over whatever another tab has saved since.
LiftAnswers(t) ==
    /\ tab[t].lift.state = "merged"
    /\ local' = tab[t].lift.roles \ tab[t].lift.accepted
    /\ tab' = Told(t, local', AfterLift(t))
    /\ UNCHANGED <<signedIn, accountRoles, requests, presses, pressed, owed, crossed>>

\* The request or its answer is lost, or the session is gone: the local copy stays.
LiftFails(t) ==
    /\ Lifting(t)
    /\ tab' = [tab EXCEPT ![t].lift = NoLift, ![t].load = IF @ = "lift" THEN "none" ELSE @]
    /\ UNCHANGED <<signedIn, local, accountRoles, requests, presses, pressed, owed, crossed>>

----------------------------------------------------------------------------
(* store.list().                                                           *)

ListLocal(t) ==
    /\ Visitor(t) /\ tab[t].load = "list"
    /\ tab' = [tab EXCEPT ![t].screen = local, ![t].load = "none"]
    /\ UNCHANGED <<signedIn, local, accountRoles, requests, presses, pressed, owed, crossed>>

ListArrives(t) ==
    /\ SignedIn(t) /\ tab[t].load = "list" /\ signedIn
    /\ tab' = [tab EXCEPT ![t].listed = accountRoles, ![t].load = "listed"]
    /\ UNCHANGED <<signedIn, local, accountRoles, requests, presses, pressed, owed, crossed>>

ListAnswers(t) ==
    /\ SignedIn(t) /\ tab[t].load = "listed"
    /\ tab' = [tab EXCEPT ![t].screen = tab[t].listed, ![t].load = "none", ![t].listed = {}]
    /\ UNCHANGED <<signedIn, local, accountRoles, requests, presses, pressed, owed, crossed>>

\* The screen stays as it is.
ListFails(t) ==
    /\ SignedIn(t) /\ tab[t].load \in {"list", "listed"}
    /\ tab' = [tab EXCEPT ![t].load = "none", ![t].listed = {}]
    /\ UNCHANGED <<signedIn, local, accountRoles, requests, presses, pressed, owed, crossed>>

----------------------------------------------------------------------------
(* toggle().                                                               *)

Flip(t, r) == IF r \in tab[t].screen THEN tab[t].screen \ {r} ELSE tab[t].screen \cup {r}

\* A visitor's press is written to localStorage as it is shown.
ToggleLocal(t, r) ==
    /\ Visitor(t) /\ presses < MaxPresses
    /\ LET on == r \notin tab[t].screen IN
       /\ local' = IF on THEN local \cup {r} ELSE local \ {r}
       /\ tab' = Told(t, local', [tab EXCEPT ![t].screen = Flip(t, r)])
       /\ pressed' = IF on THEN pressed \cup {r} ELSE pressed
       /\ owed' = IF on THEN owed \cup {r} ELSE owed \ {r}
       /\ crossed' = IF on /\ \E u \in Tabs : Lifting(u) THEN crossed \cup {r} ELSE crossed
    /\ presses' = presses + 1
    /\ UNCHANGED <<signedIn, accountRoles, requests>>

\* A Seeker's is shown, and sent.
ToggleAccount(t, r) ==
    /\ SignedIn(t) /\ presses < MaxPresses
    /\ tab' = [tab EXCEPT ![t].screen = Flip(t, r)]
    /\ requests' = requests \cup {[tab |-> t, role |-> r, on |-> r \notin tab[t].screen,
                                   state |-> "sent", n |-> presses]}
    /\ presses' = presses + 1
    /\ UNCHANGED <<signedIn, local, accountRoles, pressed, owed, crossed>>

Arrive(q) ==
    /\ q.state = "sent" /\ signedIn
    /\ accountRoles' = IF q.on THEN accountRoles \cup {q.role} ELSE accountRoles \ {q.role}
    /\ owed' = IF q.on THEN owed ELSE owed \ {q.role}
    /\ requests' = (requests \ {q}) \cup {[q EXCEPT !.state = "done"]}
    /\ UNCHANGED <<signedIn, local, tab, presses, pressed, crossed>>

Confirm(q) ==
    /\ q.state = "done"
    /\ requests' = requests \ {q}
    /\ UNCHANGED <<signedIn, local, accountRoles, tab, presses, pressed, owed, crossed>>

\* What the press did is undone on the screen there is by then.
TakenBack(q) == IF q.on THEN tab[q.tab].screen \ {q.role} ELSE tab[q.tab].screen \cup {q.role}

\* Refused or lost: the account may have changed all the same when only the answer was.
Fail(q) ==
    /\ requests' = requests \ {q}
    /\ tab' = [tab EXCEPT ![q.tab].screen = TakenBack(q)]
    /\ UNCHANGED <<signedIn, local, accountRoles, presses, pressed, owed, crossed>>

\* Another device of the Seeker's.
Elsewhere(r) ==
    /\ presses < MaxPresses /\ presses' = presses + 1
    /\ accountRoles' = IF r \in accountRoles THEN accountRoles \ {r} ELSE accountRoles \cup {r}
    /\ owed' = owed \ {r}
    /\ UNCHANGED <<signedIn, local, tab, requests, pressed, crossed>>

SavedNext ==
    \/ \E t \in Tabs :
          \/ TabOpens(t) \/ SignIn(t) \/ TabSignsOut(t)
          \/ MergeArrives(t) \/ LiftAnswers(t) \/ LiftFails(t)
          \/ ListLocal(t) \/ ListArrives(t) \/ ListAnswers(t) \/ ListFails(t)
          \/ \E r \in Bookmarks : ToggleLocal(t, r) \/ ToggleAccount(t, r)
    \/ \E q \in requests : Arrive(q) \/ Confirm(q) \/ Fail(q)
    \/ \E r \in Bookmarks : Elsewhere(r)

SavedSpec == SavedInit /\ [][SavedNext]_savedVars

----------------------------------------------------------------------------
(* Properties.                                                             *)

\* Nothing of an account is left in the browser for the next visitor: what is in
\* localStorage a visitor has saved there (store.ts: "the next visitor inherited them").
AccountRolesStayInTheAccount == local \subseteq pressed

\* A Role a visitor saved is in the browser or in the account until somebody unsaves
\* it, however often the lift fails, unless it was saved while a lift was between
\* reading and writing localStorage (liftLocalRolesIntoAccount: "cannot ... drop").
VisitorSavesAreKept == owed \subseteq local \cup accountRoles \cup crossed
\* A browser and an account keep their Saved Roles apart, and between them lose none.
SavedRolesAreKept == AccountRolesStayInTheAccount /\ VisitorSavesAreKept
=============================================================================
