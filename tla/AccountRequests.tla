---------------------------- MODULE AccountRequests ----------------------------
(***************************************************************************)
(* Accounts, their sessions, single-use mail links and provider identities. *)
(* Every route is a synchronous handler on a thread of the web process, and *)
(* every call it makes of the account store is a statement or transaction   *)
(* of its own: two requests interleave between those calls, and a restart   *)
(* may come between any two.  auth.py serves two stores that differ little: *)
(* the Seekers' and the Employers'; `realm` says which one this is.         *)
(*                                                                         *)
(* Left out: audit events, last_login_at, names, and what a mail says.      *)
(***************************************************************************)
EXTENDS Naturals, FiniteSets

CONSTANTS
    Threads, Ids, Emails, Passwords, Subjects, Links, Sessions,
    Nil

ASSUME AccountsAssumption ==
    Nil \notin Ids \cup Emails \cup Passwords \cup Subjects \cup Links \cup Sessions

VARIABLES
    realm,          \* "seeker" or "employer"
    account,        \* rows of seekers / employers
    identity,       \* rows of seeker_identities: the account of a subject
    link,           \* rows of email_tokens
    session,        \* rows of sessions
    request,        \* what each thread is at
    halfway         \* history: accounts whose reset died before signing out

rows == <<account, identity, link, session>>
accountVars == <<realm, rows, request, halfway>>

NoRequest == [at |-> "idle", for |-> "none", account |-> Nil, email |-> Nil,
              password |-> Nil, link |-> Nil, subject |-> Nil, session |-> Nil,
              vouched |-> FALSE]
NoAccount == [state |-> "none", email |-> Nil, password |-> Nil, weak |-> FALSE,
              era |-> 0]
NoIdentity == [account |-> Nil, vouched |-> FALSE, founder |-> FALSE]
NoLink == [state |-> "none", account |-> Nil, purpose |-> "none", lapsed |-> FALSE,
           honoured |-> 0, rival |-> FALSE]
NoSession == [state |-> "none", account |-> Nil, age |-> "fresh", made |-> 0]

Open(i) == account[i].state = "open"
Holders(e) == {i \in Ids : Open(i) /\ account[i].email = e}
Fresh(table) == {x \in DOMAIN table : table[x].state = "none"}

\* The store may hold an account from before Argon2 was strengthened.
AccountsInit ==
    /\ realm \in {"seeker", "employer"}
    /\ \E old \in {{}} \cup {{i} : i \in Ids} : \E e \in Emails : \E p \in Passwords :
           account = [i \in Ids |->
               IF i \in old
               THEN [NoAccount EXCEPT !.state = "open", !.email = e, !.password = p,
                                      !.weak = TRUE]
               ELSE NoAccount]
    /\ identity = [g \in Subjects |-> NoIdentity]
    /\ link = [l \in Links |-> NoLink]
    /\ session = [s \in Sessions |-> NoSession]
    /\ request = [t \in Threads |-> NoRequest]
    /\ halfway = {}

Idle(t) == request[t].at = "idle"
\* Bound: a request begins while what it may mint is left, for every request.
Room(table) == Cardinality(Fresh(table)) > Cardinality({u \in Threads : ~Idle(u)})
At(t, step) == request[t].at = step
Begin(t, r) == request' = [request EXCEPT ![t] = r]
GoTo(t, step) == request' = [request EXCEPT ![t].at = step]
Answer(t) == request' = [request EXCEPT ![t] = NoRequest]
Quiet == UNCHANGED <<realm, halfway>>

----------------------------------------------------------------------------
(* Registration and sign-in with a password.                                *)

\* INSERT INTO seekers / employers.
Insert(i, e, p) ==
    account' = [account EXCEPT ![i] = [NoAccount EXCEPT !.state = "open", !.email = e,
                                           !.password = p]]

\* The UNIQUE address refuses a second account, whatever was read before.
SignUp(t) ==
    /\ Idle(t) /\ Room(account) /\ Room(session) /\ Room(link)
    /\ \E e \in Emails : \E p \in Passwords :
           IF Holders(e) = {}
           THEN \E i \in Fresh(account) :
                    /\ Insert(i, e, p)
                    /\ Begin(t, [NoRequest EXCEPT !.at = "session", !.for = "verify", !.account = i])
           ELSE UNCHANGED <<account, request>>
    /\ UNCHANGED <<identity, link, session>> /\ Quiet

\* verify_password; a wrong one (None) is answered 401.
CheckPassword(t) ==
    /\ Idle(t)
    /\ \E e \in Emails : \E p \in Passwords \cup {Nil} :
           LET known == {i \in Holders(e) : p # Nil /\ account[i].password = p} IN
           IF known = {} THEN UNCHANGED request
           ELSE /\ Room(session)
                /\ \E i \in known :
                    Begin(t, [NoRequest EXCEPT
                                  !.at = IF account[i].weak THEN "rehash" ELSE "session",
                                  !.for = "login", !.account = i, !.password = p])
    /\ UNCHANGED rows /\ Quiet

\* set_password_hash: an UPDATE, which finds no row when the account is gone.
SetPassword(i, p, era) ==
    account' = [account EXCEPT ![i] =
        IF Open(i) THEN [@ EXCEPT !.password = p, !.weak = FALSE, !.era = era] ELSE @]

Rehash(t) ==
    /\ At(t, "rehash")
    /\ LET r == request[t] IN SetPassword(r.account, r.password, account[r.account].era)
    /\ GoTo(t, "session")
    /\ UNCHANGED <<identity, link, session>> /\ Quiet

\* `made`: the era of the password it begins in.
NewSession(r) ==
    [NoSession EXCEPT !.state = "open", !.account = r.account, !.made = account[r.account].era]

\* Mutant of IssueSession: sessions do not reference their account.
IssueAnyway(t) ==
    /\ At(t, "session")
    /\ LET r == request[t] IN
       \E s \in Fresh(session) :
           /\ session' = [session EXCEPT ![s] = NewSession(r)]
           /\ IF r.for = "verify" THEN GoTo(t, "drop") ELSE Answer(t)
    /\ UNCHANGED <<account, identity, link>> /\ Quiet

\* issue_session.  The account is gone: the foreign key refuses, a 500.
IssueSession(t) ==
    /\ At(t, "session")
    /\ LET r == request[t] IN
       IF Open(r.account)
       THEN \E s \in Fresh(session) :
                /\ session' = [session EXCEPT ![s] = NewSession(r)]
                /\ IF r.for = "verify" THEN GoTo(t, "drop") ELSE Answer(t)
       ELSE Answer(t) /\ UNCHANGED session
    /\ UNCHANGED <<account, identity, link>> /\ Quiet

----------------------------------------------------------------------------
(* Mail links: verify-email and reset-password.                             *)

\* An unknown address changes nothing, and is answered alike.
AskForReset(t) ==
    /\ Idle(t) /\ Room(link)
    /\ \E e \in Emails :
           IF Holders(e) = {} THEN UNCHANGED request
           ELSE \E i \in Holders(e) :
                    Begin(t, [NoRequest EXCEPT !.at = "drop", !.for = "reset", !.account = i])
    /\ UNCHANGED rows /\ Quiet

Tokens(i, purpose) ==
    {l \in Links : link[l].state \in {"unspent", "spent"} /\ link[l].account = i
                   /\ (purpose = "any" \/ link[l].purpose = purpose)}

Gone(l) == [NoLink EXCEPT !.state = "dropped", !.honoured = link[l].honoured]

\* delete_email_tokens, the first half of issue_email_token.
DropTokens(t) ==
    /\ At(t, "drop")
    /\ LET old == Tokens(request[t].account, request[t].for) IN
       link' = [l \in Links |-> IF l \in old THEN Gone(l) ELSE link[l]]
    /\ GoTo(t, "mint")
    /\ UNCHANGED <<account, identity, session>> /\ Quiet

\* insert_email_token, the second half.
MintToken(t) ==
    /\ At(t, "mint")
    /\ LET r == request[t] IN
       IF Open(r.account)
       THEN \E l \in Fresh(link) :
                link' = [link EXCEPT ![l] =
                    [NoLink EXCEPT !.state = "unspent", !.account = r.account, !.purpose = r.for,
                                   !.rival = \E u \in Threads \ {t} :
                                       request[u].at = "mint" /\ request[u].account = r.account
                                       /\ request[u].for = r.for]]
       ELSE UNCHANGED link
    /\ Answer(t)
    /\ UNCHANGED <<account, identity, session>> /\ Quiet

\* consume_email_token, as far as its reads: known, right purpose, unused, in time.
Follow(t, purpose) ==
    /\ Idle(t)
    /\ \E l \in Links : \E p \in Passwords :
           /\ link[l].state = "unspent" /\ ~link[l].lapsed
           /\ link[l].purpose = purpose /\ Room(session)
           /\ Begin(t, [NoRequest EXCEPT !.at = "claim", !.for = purpose, !.link = l,
                                         !.account = link[l].account, !.password = p])
    /\ UNCHANGED rows /\ Quiet

\* Mutant of Claim: what the reads said is trusted.
ClaimAnyway(t) ==
    /\ At(t, "claim")
    /\ LET l == request[t].link IN
       IF link[l].state # "dropped"
       THEN /\ link' = [link EXCEPT ![l].state = "spent", ![l].honoured = @ + 1]
            /\ GoTo(t, "apply")
       ELSE Answer(t) /\ UNCHANGED link
    /\ UNCHANGED <<account, identity, session>> /\ Quiet

\* claim_email_token: UPDATE ... WHERE used_at IS NULL.
Claim(t) ==
    /\ At(t, "claim")
    /\ LET l == request[t].link IN
       IF link[l].state = "unspent"
       THEN /\ link' = [link EXCEPT ![l].state = "spent", ![l].honoured = @ + 1]
            /\ GoTo(t, "apply")
       ELSE Answer(t) /\ UNCHANGED link
    /\ UNCHANGED <<account, identity, session>> /\ Quiet

\* set_email_verified, which nothing here depends on.
MarkVerified(t) ==
    /\ At(t, "apply") /\ request[t].for = "verify"
    /\ Answer(t)
    /\ UNCHANGED rows /\ Quiet

\* The first write of a reset.
SetNewPassword(t) ==
    /\ At(t, "apply") /\ request[t].for = "reset"
    /\ LET r == request[t] IN SetPassword(r.account, r.password, account[r.account].era + 1)
    /\ GoTo(t, "revoke")
    /\ UNCHANGED <<identity, link, session>> /\ Quiet

Signed(i) == {s \in Sessions : session[s].state = "open" /\ session[s].account = i}
Closed(set) == [s \in Sessions |-> IF s \in set THEN [NoSession EXCEPT !.state = "closed"]
                                   ELSE session[s]]

\* Mutant of RevokeAll: the sessions the reset signs out are those that lapsed.
RevokeLapsed(t) ==
    /\ At(t, "revoke")
    /\ session' = Closed({s \in Signed(request[t].account) : session[s].age = "lapsed"})
    /\ halfway' = halfway \ {request[t].account}
    /\ GoTo(t, "session")
    /\ UNCHANGED <<realm, account, identity, link>>

\* revoke_all_sessions; then the caller is signed in again.
RevokeAll(t) ==
    /\ At(t, "revoke")
    /\ session' = Closed(Signed(request[t].account))
    /\ halfway' = halfway \ {request[t].account}
    /\ GoTo(t, "session")
    /\ UNCHANGED <<realm, account, identity, link>>

----------------------------------------------------------------------------
(* Sign-in with a provider: auth.link_or_create_seeker / _employer.           *)

\* What a provider may claim of a subject: an address or none, vouched for or
\* not; only an explicit true counts as vouched.
Claims == {c \in [subject: Subjects, email: Emails \cup {Nil}, vouched: BOOLEAN] :
               c.email = Nil => ~c.vouched}

\* A subject that is linked already is recognised, and its address not looked at.
Recognise(t) ==
    /\ Idle(t) /\ Room(account) /\ Room(session)
    /\ \E c \in Claims : LET known == identity[c.subject].account IN
           Begin(t, [NoRequest EXCEPT
               !.at = IF known = Nil THEN "match" ELSE "session", !.for = "provider",
               !.account = known, !.subject = c.subject, !.email = c.email, !.vouched = c.vouched])
    /\ UNCHANGED rows /\ Quiet

\* An account on that address is linked on the provider's evidence only.
Known(t) ==
    LET r == request[t] IN
    /\ Holders(r.email) # {}
    /\ IF ~r.vouched THEN Answer(t)
       ELSE \E i \in Holders(r.email) :
                request' = [request EXCEPT ![t].at = "link", ![t].account = i]

\* None: a Seeker is created, if there is an address to keep.
MatchSeeker(t) ==
    /\ realm = "seeker" /\ At(t, "match")
    /\ \/ Known(t)
       \/ /\ Holders(request[t].email) = {}
          /\ IF request[t].email = Nil THEN Answer(t) ELSE GoTo(t, "create")
    /\ UNCHANGED rows /\ Quiet

\* None: an Employer is never created from a claim, which names no company.
MatchEmployer(t) ==
    /\ realm = "employer" /\ At(t, "match")
    /\ Known(t) \/ (Holders(request[t].email) = {} /\ Answer(t))
    /\ UNCHANGED rows /\ Quiet

\* create_seeker; the address was taken meanwhile: refused, and never linked.
Create(t) ==
    /\ At(t, "create")
    /\ LET r == request[t] IN
       IF Holders(r.email) = {}
       THEN \E i \in Fresh(account) :
                /\ Insert(i, r.email, Nil)
                /\ request' = [request EXCEPT ![t].at = "link", ![t].for = "founder",
                                              ![t].account = i]
       ELSE Answer(t) /\ UNCHANGED account
    /\ UNCHANGED <<identity, link, session>> /\ Quiet

Attach(r) == identity' = [identity EXCEPT ![r.subject] =
                 [account |-> r.account, vouched |-> r.vouched, founder |-> r.for = "founder"]]

\* link_identity.  The account is gone: the foreign key refuses.  The subject was
\* linked meanwhile: the Seekers' INSERT OR IGNORE leaves that link and signs in
\* all the same; the Employers' INSERT fails.
LinkSeeker(t) ==
    /\ realm = "seeker" /\ At(t, "link")
    /\ LET r == request[t] IN
       IF ~Open(r.account) THEN Answer(t) /\ UNCHANGED identity
       ELSE /\ IF identity[r.subject].account = Nil THEN Attach(r) ELSE UNCHANGED identity
            /\ GoTo(t, "session")
    /\ UNCHANGED <<account, link, session>> /\ Quiet

LinkEmployer(t) ==
    /\ realm = "employer" /\ At(t, "link")
    /\ LET r == request[t] IN
       IF Open(r.account) /\ identity[r.subject].account = Nil
       THEN Attach(r) /\ GoTo(t, "session")
       ELSE Answer(t) /\ UNCHANGED identity
    /\ UNCHANGED <<account, link, session>> /\ Quiet

----------------------------------------------------------------------------
(* A request that carries a session.                                        *)

\* verify_session: a lapsed row is dropped on the way past; one that has aged is
\* rolled forward by a second statement.  A page that is only read changes nothing.
Present(t) ==
    /\ Idle(t)
    /\ \E s \in Sessions : \E wish \in {"look", "delete"} :
           /\ session[s].state = "open"
           /\ IF session[s].age = "lapsed"
              THEN session' = Closed({s}) /\ UNCHANGED request
              ELSE /\ UNCHANGED session
                   /\ LET r == [NoRequest EXCEPT !.for = wish, !.session = s,
                                                 !.account = session[s].account] IN
                      \/ session[s].age = "aged" /\ Begin(t, [r EXCEPT !.at = "extend"])
                      \/ session[s].age = "fresh" /\ wish = "delete" /\ Begin(t, [r EXCEPT !.at = "delete"])
                      \/ session[s].age = "fresh" /\ wish = "look" /\ UNCHANGED request
    /\ UNCHANGED <<account, identity, link>> /\ Quiet

\* extend_session: an UPDATE; a session closed meanwhile stays closed.
Extend(t) ==
    /\ At(t, "extend")
    /\ LET s == request[t].session IN
       session' = IF session[s].state = "open" THEN [session EXCEPT ![s].age = "fresh"]
                  ELSE session
    /\ IF request[t].for = "delete" THEN GoTo(t, "delete") ELSE Answer(t)
    /\ UNCHANGED <<account, identity, link>> /\ Quiet

\* One transaction, whatever else is under way for the account.
Erase(t) ==
    /\ At(t, "delete")
    /\ LET i == request[t].account IN
       /\ account' = [account EXCEPT ![i] = [NoAccount EXCEPT !.state = "deleted"]]
       /\ identity' = [g \in Subjects |-> IF identity[g].account = i THEN NoIdentity
                                          ELSE identity[g]]
       /\ link' = [l \in Links |-> IF l \in Tokens(i, "any") THEN Gone(l) ELSE link[l]]
       /\ session' = Closed(Signed(i))
       /\ halfway' = halfway \ {i}
    /\ Answer(t)
    /\ UNCHANGED realm

\* One statement, whatever session the cookie names.
SignOut ==
    /\ \E s \in Sessions : session[s].state = "open" /\ session' = Closed({s})
    /\ UNCHANGED <<account, identity, link, request>> /\ Quiet

----------------------------------------------------------------------------
(* Time and restarts.  Era: how many passwords a reset has set.             *)

Age ==
    /\ \E s \in Sessions :
           /\ session[s].state = "open" /\ session[s].age # "lapsed"
           /\ session' = [session EXCEPT ![s].age = IF @ = "fresh" THEN "aged" ELSE "lapsed"]
    /\ UNCHANGED <<account, identity, link, request>> /\ Quiet

Lapse ==
    /\ \E l \in Links : /\ link[l].state = "unspent" /\ ~link[l].lapsed
                        /\ link' = [link EXCEPT ![l].lapsed = TRUE]
    /\ UNCHANGED <<account, identity, session, request>> /\ Quiet

Lapsed == {s \in Sessions : session[s].state = "open" /\ session[s].age = "lapsed"}

\* purge_expired_sessions, once a day.
Purge ==
    /\ Lapsed # {} /\ session' = Closed(Lapsed)
    /\ UNCHANGED <<account, identity, link, request>> /\ Quiet

\* A restart, which purges as it starts.
Crash ==
    /\ request' = [t \in Threads |-> NoRequest]
    /\ halfway' = halfway \cup {request[t].account : t \in {t \in Threads : At(t, "revoke")}}
    /\ session' = Closed(Lapsed)
    /\ UNCHANGED <<realm, account, identity, link>>

----------------------------------------------------------------------------
(* The routes of main.py: what each does first on its thread, or alone.  The  *)
(* calls they share follow, each on the thread that has come to it.           *)

Seeker == realm = "seeker"
Employer == realm = "employer"

register(t) == Seeker /\ SignUp(t)
employer_register(t) == Employer /\ SignUp(t)
login(t) == Seeker /\ CheckPassword(t)
employer_login(t) == Employer /\ CheckPassword(t)
forgot_password(t) == Seeker /\ AskForReset(t)
employer_forgot_password(t) == Employer /\ AskForReset(t)
verify_email(t) == Seeker /\ (Follow(t, "verify") \/ MarkVerified(t))
employer_verify_email(t) == Employer /\ (Follow(t, "verify") \/ MarkVerified(t))
reset_password(t) == Seeker /\ (Follow(t, "reset") \/ SetNewPassword(t))
employer_reset_password(t) == Employer /\ (Follow(t, "reset") \/ SetNewPassword(t))
google_callback(t) == Seeker /\ Recognise(t)
employer_google_callback(t) == Employer /\ Recognise(t)
current_seeker(t) == Seeker /\ Present(t)
current_employer(t) == Employer /\ Present(t)
delete_account(t) == Seeker /\ Erase(t)
delete_employer(t) == Employer /\ Erase(t)
logout == Seeker /\ SignOut
employer_logout == Employer /\ SignOut

Step(t) ==
    \/ register(t) \/ login(t) \/ forgot_password(t) \/ verify_email(t) \/ reset_password(t)
    \/ google_callback(t) \/ current_seeker(t) \/ delete_account(t)
    \/ MatchSeeker(t) \/ Create(t) \/ LinkSeeker(t)
    \/ employer_register(t) \/ employer_login(t) \/ employer_forgot_password(t)
    \/ employer_verify_email(t) \/ employer_reset_password(t)
    \/ employer_google_callback(t) \/ current_employer(t) \/ delete_employer(t)
    \/ MatchEmployer(t) \/ LinkEmployer(t)
    \/ Rehash(t) \/ IssueSession(t) \/ DropTokens(t) \/ MintToken(t) \/ Claim(t)
    \/ RevokeAll(t) \/ Extend(t)

AccountsNext ==
    \/ \E t \in Threads : Step(t)
    \/ logout \/ employer_logout
    \/ Age \/ Lapse \/ Purge \/ Crash

AccountsSpec == AccountsInit /\ [][AccountsNext]_accountVars

----------------------------------------------------------------------------
(* Properties.                                                             *)

Maybe(set) == set \cup {Nil}
Account == [state: {"none", "open", "deleted"}, email: Maybe(Emails), password: Maybe(Passwords),
            weak: BOOLEAN, era: Nat]
Identity == [account: Maybe(Ids), vouched: BOOLEAN, founder: BOOLEAN]
Link == [state: {"none", "unspent", "spent", "dropped"}, account: Maybe(Ids),
         purpose: {"none", "verify", "reset"}, lapsed: BOOLEAN, honoured: Nat, rival: BOOLEAN]
Session == [state: {"none", "open", "closed"}, account: Maybe(Ids),
            age: {"fresh", "aged", "lapsed"}, made: Nat]
Request == [at: {"idle", "rehash", "session", "drop", "mint", "claim", "apply", "revoke",
                 "match", "create", "link", "extend", "delete"},
            for: {"none", "login", "verify", "reset", "provider", "founder", "look", "delete"},
            account: Maybe(Ids), email: Maybe(Emails), password: Maybe(Passwords),
            link: Maybe(Links), subject: Maybe(Subjects), session: Maybe(Sessions),
            vouched: BOOLEAN]

AccountsTypeOK ==
    /\ realm \in {"seeker", "employer"}
    /\ account \in [Ids -> Account] /\ identity \in [Subjects -> Identity]
    /\ link \in [Links -> Link] /\ session \in [Sessions -> Session]
    /\ request \in [Threads -> Request]
    /\ halfway \subseteq Ids

\* Two clicks on one link, a click and a newer link, a click and a deletion: a
\* link works once at most (claim_email_token: "exactly one of them").
LinksWorkOnce == \A l \in Links : link[l].honoured <= 1

\* Whatever was under way when an account was deleted, nothing refers to it
\* afterwards: no session, no link, no identity (delete_seeker; ADR 0007).
NothingOutlivesItsAccount ==
    /\ \A s \in Sessions : session[s].state = "open" => Open(session[s].account)
    /\ \A l \in Links : link[l].state \in {"unspent", "spent"} => Open(link[l].account)
    /\ \A g \in Subjects : identity[g].account # Nil => Open(identity[g].account)

\* Registrations and provider sign-ins that race leave one account per address.
OneAccountPerAddress == \A e \in Emails : Cardinality(Holders(e)) <= 1

\* A reset signs out every session that was begun before it, unless it is still
\* on its way to do so or died before it could.
ResetSignsOut ==
    \A s \in Sessions : LET i == session[s].account IN
        session[s].state = "open" /\ session[s].made < account[i].era =>
            \/ i \in halfway
            \/ \E t \in Threads : At(t, "revoke") /\ request[t].account = i

\* Of two links that still work for one purpose, the older was minted while the
\* newer request was between dropping the old links and minting its own
\* (issue_email_token: "immediately kills the old one").
OneLinkAtATime ==
    \A k, l \in Links :
        /\ k # l /\ link[k].state = "unspent" /\ link[l].state = "unspent"
        /\ link[k].account = link[l].account /\ link[k].purpose = link[l].purpose
        => link[k].rival \/ link[l].rival

\* A subject is attached to an account it did not found only when its provider
\* vouched for the address, races included (link_or_create_seeker).
LinkedOnEvidence ==
    \A g \in Subjects :
        identity[g].account # Nil => identity[g].vouched \/ identity[g].founder

\* A session that was revoked, lapsed or deleted never comes back, not even by a
\* request that was using it at the time.
ClosedSessionsStayClosed ==
    [][\A s \in Sessions : session[s].state = "closed" => session'[s].state = "closed"]_accountVars

\* One account per address, opened to nobody but by evidence, and given up to nobody who signed
\* in before its password was reset.
AccountsStayWithTheirOwners ==
    /\ [](AccountsTypeOK /\ OneAccountPerAddress /\ LinkedOnEvidence /\ ResetSignsOut /\ OneLinkAtATime)
    /\ ClosedSessionsStayClosed
=============================================================================
