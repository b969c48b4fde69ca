---------------------------- MODULE Seekers_proofs ----------------------------
(* What the routes of an account promise, proved for every set of threads,   *)
(* accounts, addresses, subjects, links and sessions, and for both stores; and*)
(* what is kept of a Seeker, for any Seekers, desks, courses, Roles, tabs and*)
(* bookmarks: the records of the account and the Saved Roles of a browser.   *)
EXTENDS AccountRequests, SeekerRecords, SavedRoles, FiniteSetTheorems, TLAPS

-----------------------------------------------------------------------------
(* The routes of an account (AccountRequests).                             *)

----------------------------------------------------------------------------
(* The inductive invariant.                                                *)

\* Steps that are about an account; it was there when the request came to it.
Knowing == {"rehash", "session", "drop", "mint", "claim", "apply", "revoke", "link", "extend", "delete"}

RequestsKnowTheirAccount == \A t \in Threads : request[t].at \in Knowing => request[t].account \in Ids

\* A drop or mint is of a purpose that links have.
RequestsHaveAPurpose ==
    \A t \in Threads :
        request[t].at \in {"drop", "mint"} => request[t].for \in {"verify", "reset"}

\* One that comes to linking was vouched for, or created the account itself.
LinkingIsEarned ==
    \A t \in Threads : At(t, "link") => request[t].vouched \/ request[t].for = "founder"

OneHolder == \A i, j \in Ids : Open(i) /\ Open(j) /\ account[i].email = account[j].email => i = j

\* A link that works has not worked yet.
UnspentIsUnused == \A l \in Links : link[l].state \in {"none", "unspent"} => link[l].honoured = 0

RowsHaveAccounts ==
    /\ \A s \in Sessions : session[s].state = "open" => session[s].account \in Ids
    /\ \A l \in Links : link[l].state \in {"unspent", "spent"} => link[l].account \in Ids

\* Between dropping the old links and minting its own, a request meets only
\* links that were minted meanwhile, and those knew of it.
MintersAreRivals ==
    \A t \in Threads : \A l \in Links :
        At(t, "mint") /\ link[l].state = "unspent" /\ link[l].account = request[t].account
        /\ link[l].purpose = request[t].for => link[l].rival

AccountsInv ==
    /\ AccountsTypeOK /\ RequestsKnowTheirAccount /\ RequestsHaveAPurpose /\ LinkingIsEarned
    /\ OneHolder /\ UnspentIsUnused /\ LinksWorkOnce /\ RowsHaveAccounts
    /\ NothingOutlivesItsAccount /\ MintersAreRivals /\ OneLinkAtATime /\ ResetSignsOut
    /\ LinkedOnEvidence

----------------------------------------------------------------------------
(* What a step may do to each table.                                         *)

\* Every route, by the part of it that this step is.
Action(t) ==
    \/ SignUp(t) \/ CheckPassword(t) \/ Rehash(t) \/ IssueSession(t) \/ AskForReset(t)
    \/ DropTokens(t) \/ MintToken(t) \/ Follow(t, "verify") \/ Follow(t, "reset") \/ Claim(t)
    \/ MarkVerified(t) \/ SetNewPassword(t) \/ RevokeAll(t) \/ Recognise(t) \/ MatchSeeker(t)
    \/ MatchEmployer(t) \/ Create(t) \/ LinkSeeker(t) \/ LinkEmployer(t) \/ Present(t)
    \/ Extend(t) \/ Erase(t)

LEMMA Actions ==
    ASSUME [AccountsNext]_accountVars
    PROVE  \/ UNCHANGED accountVars
           \/ \E t \in Threads : Action(t)
           \/ SignOut \/ Age \/ Lapse \/ Purge \/ Crash
BY DEF AccountsNext, Step, Action, register, employer_register, login, employer_login,
   forgot_password, employer_forgot_password, verify_email, employer_verify_email, reset_password,
   employer_reset_password, google_callback, employer_google_callback, current_seeker,
   current_employer, delete_account, delete_employer, logout, employer_logout

LEMMA RequestAt ==
    ASSUME AccountsTypeOK, NEW t \in Threads
    PROVE  /\ request \in [Threads -> Request] /\ request[t] \in Request /\ NoRequest \in Request
           /\ request[t].account \in Maybe(Ids) /\ request[t].email \in Maybe(Emails)
           /\ request[t].password \in Maybe(Passwords) /\ request[t].link \in Maybe(Links)
           /\ request[t].subject \in Maybe(Subjects) /\ request[t].session \in Maybe(Sessions)
BY DEF AccountsTypeOK, Request, NoRequest, Maybe

\* A request goes on to its next step: the rest of it, and the others, stay.
LEMMA GoesTo ==
    ASSUME AccountsTypeOK, NEW t \in Threads, NEW step, GoTo(t, step),
           step \in {"session", "drop", "mint", "apply", "revoke", "create", "delete"}
    PROVE  /\ request' \in [Threads -> Request] /\ request'[t].at = step
           /\ request'[t].account = request[t].account /\ request'[t].for = request[t].for
           /\ \A u \in Threads : u # t => request'[u] = request[u]
<1>1. request[t] \in Request
  BY RequestAt
<1>2. PICK r : r = [request[t] EXCEPT !.at = step]
  OBVIOUS
<1>3. r \in Request /\ r.at = step /\ r.account = request[t].account /\ r.for = request[t].for
  BY <1>1, <1>2 DEF Request
<1>4. request' = [request EXCEPT ![t] = r]
  BY <1>2 DEF GoTo
<1> QED
  BY <1>3, <1>4, RequestAt

LEMMA Begins ==
    ASSUME AccountsTypeOK, NEW t \in Threads, NEW r \in Request, request' = [request EXCEPT ![t] = r]
    PROVE  /\ request' \in [Threads -> Request] /\ request'[t] = r
           /\ \A u \in Threads : u # t => request'[u] = request[u]
BY RequestAt

\* Where a request has come to, and what brought it there.
Arrived(t) ==
    /\ request' \in [Threads -> Request]
    /\ \A u \in Threads : u # t => request'[u] = request[u]
    /\ request'[t].at \in Knowing => request'[t].account \in Ids
    /\ request'[t].at \in {"drop", "mint"} => request'[t].for \in {"verify", "reset"}
    /\ request'[t].at = "link" => request'[t].vouched \/ request'[t].for = "founder"
    /\ request'[t].at = "mint" => request'[t] = request[t] \/ DropTokens(t)
    /\ At(t, "revoke") => request'[t] = request[t] \/ RevokeAll(t)

LEMMA Answers ==
    ASSUME AccountsTypeOK, NEW t \in Threads, Answer(t), At(t, "revoke") => RevokeAll(t)
    PROVE  Arrived(t)
<1>1. NoRequest \in Request
  BY RequestAt
<1> QED
  BY <1>1, Begins DEF Answer, Arrived, NoRequest, Knowing

LEMMA RequestSteps ==
    ASSUME AccountsInv, NEW t \in Threads, Action(t)
    PROVE  Arrived(t)
<1> USE DEF Knowing, At, Idle
<1>0. /\ AccountsTypeOK /\ RequestsKnowTheirAccount /\ RequestsHaveAPurpose /\ LinkingIsEarned
      /\ RowsHaveAccounts
  BY DEF AccountsInv
<1>1. ASSUME request' = request PROVE Arrived(t)
  BY <1>0, <1>1, RequestAt DEF Arrived, RequestsKnowTheirAccount, RequestsHaveAPurpose, LinkingIsEarned
<1>2. ASSUME NEW r \in Request, request' = [request EXCEPT ![t] = r], request[t].at # "revoke",
             r.at \in Knowing => r.account \in Ids, r.at \in {"drop", "mint"} => r.for \in {"verify", "reset"},
             r.at # "mint", r.at = "link" => r.vouched \/ r.for = "founder"
      PROVE  Arrived(t)
  BY <1>0, <1>2, Begins DEF Arrived
<1>3. ASSUME NEW step \in {"session", "drop", "mint", "apply", "revoke", "create", "delete"},
             GoTo(t, step), request[t].at # "revoke" \/ RevokeAll(t),
             request[t].account \in Ids \/ step = "create",
             step \in {"drop", "mint"} => request[t].for \in {"verify", "reset"},
             step = "mint" => DropTokens(t)
      PROVE  Arrived(t)
  BY <1>0, <1>3, GoesTo DEF Arrived
<1>4. CASE SignUp(t)
  <2>1. CASE request' = request
    BY <1>1, <2>1
  <2>2. CASE \E i \in Ids : Begin(t, [NoRequest EXCEPT !.at = "session", !.for = "verify", !.account = i])
    <3>1. PICK i \in Ids : Begin(t, [NoRequest EXCEPT !.at = "session", !.for = "verify", !.account = i])
      BY <2>2
    <3>2. PICK r : r = [NoRequest EXCEPT !.at = "session", !.for = "verify", !.account = i]
      OBVIOUS
    <3>3. r \in Request /\ r.at = "session" /\ r.account = i
      BY <3>2 DEF NoRequest, Request, Maybe
    <3> QED
      BY <1>2, <1>4, <3>1, <3>2, <3>3 DEF Begin, SignUp
  <2> QED
    BY <1>0, <1>4, <2>1, <2>2 DEF SignUp, Fresh, AccountsTypeOK
<1>5. CASE CheckPassword(t)
  <2>1. CASE request' = request
    BY <1>1, <2>1
  <2>2. ASSUME NEW i \in Ids, NEW p \in Maybe(Passwords), NEW at \in {"rehash", "session"},
               Begin(t, [NoRequest EXCEPT !.at = at, !.for = "login", !.account = i, !.password = p])
        PROVE  Arrived(t)
    <3>2. PICK r : r = [NoRequest EXCEPT !.at = at, !.for = "login", !.account = i, !.password = p]
      OBVIOUS
    <3>3. r \in Request /\ r.at \in {"rehash", "session"} /\ r.account = i
      BY <3>2 DEF NoRequest, Request, Maybe
    <3> QED
      BY <1>2, <1>5, <2>2, <3>2, <3>3 DEF Begin, CheckPassword
  <2> QED
    BY <1>5, <2>1, <2>2 DEF CheckPassword, Holders, Maybe
<1>6. CASE Rehash(t)
  BY <1>0, <1>3, <1>6 DEF Rehash, RequestsKnowTheirAccount
<1>7. CASE IssueSession(t)
  <2>1. (GoTo(t, "drop") /\ request[t].for = "verify") \/ Answer(t)
    BY <1>7 DEF IssueSession
  <2>2. request[t].at = "session" /\ request[t].account \in Ids
    BY <1>0, <1>7 DEF IssueSession, RequestsKnowTheirAccount
  <2> QED
    BY <1>0, <1>3, <2>1, <2>2, Answers
<1>8. CASE AskForReset(t)
  <2>1. CASE request' = request
    BY <1>1, <2>1
  <2>2. ASSUME NEW i \in Ids,
               Begin(t, [NoRequest EXCEPT !.at = "drop", !.for = "reset", !.account = i])
        PROVE  Arrived(t)
    <3>2. PICK r : r = [NoRequest EXCEPT !.at = "drop", !.for = "reset", !.account = i]
      OBVIOUS
    <3>3. r \in Request /\ r.at = "drop" /\ r.account = i /\ r.for = "reset"
      BY <3>2 DEF NoRequest, Request, Maybe
    <3> QED
      BY <1>2, <1>8, <2>2, <3>2, <3>3 DEF Begin, AskForReset
  <2> QED
    BY <1>8, <2>1, <2>2 DEF AskForReset, Holders
<1>9. CASE DropTokens(t)
  BY <1>0, <1>3, <1>9 DEF DropTokens, RequestsKnowTheirAccount, RequestsHaveAPurpose
<1>10. CASE MintToken(t) \/ MarkVerified(t) \/ Erase(t)
  BY <1>0, <1>10, Answers DEF MintToken, MarkVerified, Erase
<1>11. ASSUME NEW purpose \in {"verify", "reset"}, Follow(t, purpose) PROVE Arrived(t)
  <2>1. PICK l \in Links, p \in Passwords :
          /\ link[l].state = "unspent"
          /\ Begin(t, [NoRequest EXCEPT !.at = "claim", !.for = purpose, !.link = l,
                                        !.account = link[l].account, !.password = p])
    BY <1>11 DEF Follow
  <2>2. link[l].account \in Ids
    BY <1>0, <2>1 DEF RowsHaveAccounts
  <2>3. PICK r : r = [NoRequest EXCEPT !.at = "claim", !.for = purpose, !.link = l,
                                        !.account = link[l].account, !.password = p]
    OBVIOUS
  <2>4. r \in Request /\ r.at = "claim" /\ r.account \in Ids
    BY <2>2, <2>3 DEF NoRequest, Request, Maybe
  <2> QED
    BY <1>2, <1>11, <2>1, <2>3, <2>4 DEF Begin, Follow
<1>12. CASE Claim(t)
  BY <1>0, <1>3, <1>12, Answers DEF Claim, RequestsKnowTheirAccount
<1>13. CASE SetNewPassword(t)
  BY <1>0, <1>3, <1>13 DEF SetNewPassword, RequestsKnowTheirAccount
<1>14. CASE RevokeAll(t)
  BY <1>0, <1>3, <1>14 DEF RevokeAll, RequestsKnowTheirAccount
<1>15. CASE Recognise(t)
  <2>1. PICK c \in Claims :
          Begin(t, [NoRequest EXCEPT
               !.at = IF identity[c.subject].account = Nil THEN "match" ELSE "session", !.for = "provider",
               !.account = identity[c.subject].account, !.subject = c.subject, !.email = c.email,
               !.vouched = c.vouched])
    BY <1>15 DEF Recognise
  <2>2. c.subject \in Subjects /\ c.email \in Maybe(Emails) /\ c.vouched \in BOOLEAN
        /\ identity[c.subject].account \in Maybe(Ids)
    BY <1>0 DEF Claims, AccountsTypeOK, Identity, Maybe
  <2>3. PICK at, who : who = identity[c.subject].account /\ at = IF who = Nil THEN "match" ELSE "session"
    OBVIOUS
  <2>4. who \in Maybe(Ids) /\ (at = "match" \/ (at = "session" /\ who \in Ids))
    BY <2>2, <2>3 DEF Maybe
  <2>5. PICK r : r = [NoRequest EXCEPT !.at = at, !.for = "provider", !.account = who,
                          !.subject = c.subject, !.email = c.email, !.vouched = c.vouched]
    OBVIOUS
  <2>6. r.at = at /\ r.account = who
    BY <2>5 DEF NoRequest
  <2>7. r \in Request
    BY <2>2, <2>4, <2>5 DEF NoRequest, Request, Maybe
  <2>8. request' = [request EXCEPT ![t] = r]
    BY <2>1, <2>3, <2>5 DEF Begin
  <2>9. request[t].at # "revoke"
    BY <1>15 DEF Recognise
  <2> QED
    BY <1>2, <2>4, <2>6, <2>7, <2>8, <2>9
<1>16. CASE MatchSeeker(t) \/ MatchEmployer(t)
  <2>1. request[t].at = "match"
    BY <1>16 DEF MatchSeeker, MatchEmployer
  <2>2. CASE Known(t) /\ ~Answer(t)
    <3>1. PICK i \in Ids : request[t].vouched /\ request' = [request EXCEPT ![t].at = "link", ![t].account = i]
      BY <2>2 DEF Known, Holders
    <3>2. PICK r : r = [request[t] EXCEPT !.at = "link", !.account = i]
      OBVIOUS
    <3>0. request[t] \in Request /\ i \in Maybe(Ids)
      BY <1>0, RequestAt DEF Maybe
    <3>3. r \in Request /\ r.at = "link" /\ r.account = i /\ r.vouched
      BY <3>0, <3>1, <3>2 DEF Request
    <3>4. request' = [request EXCEPT ![t] = r]
      BY <1>0, <3>1, <3>2, RequestAt
    <3> QED
      BY <1>2, <2>1, <3>3, <3>4
  <2>3. CASE GoTo(t, "create")
    BY <1>3, <2>1, <2>3
  <2>4. CASE Answer(t)
    BY <1>0, <2>1, <2>4, Answers
  <2> QED
    BY <1>16, <2>2, <2>3, <2>4 DEF MatchSeeker, MatchEmployer
<1>17. CASE Create(t)
  <2>1. request[t].at = "create"
    BY <1>17 DEF Create
  <2>2. CASE ~Answer(t)
    <3>1. PICK i \in Ids :
            request' = [request EXCEPT ![t].at = "link", ![t].for = "founder", ![t].account = i]
      BY <1>0, <1>17, <2>2 DEF Create, Fresh, AccountsTypeOK
    <3>2. PICK r : r = [request[t] EXCEPT !.at = "link", !.for = "founder", !.account = i]
      OBVIOUS
    <3>3. r \in Request /\ r.at = "link" /\ r.account = i /\ r.for = "founder"
      BY <1>0, <3>2, RequestAt, ZenonT(60) DEF Request, Maybe
    <3>4. request' = [request EXCEPT ![t] = r]
      BY <1>0, <3>1, <3>2, RequestAt
    <3> QED
      BY <1>2, <2>1, <3>3, <3>4
  <2> QED
    BY <1>0, <2>1, <2>2, Answers
<1>18. CASE LinkSeeker(t) \/ LinkEmployer(t)
  <2>1. request[t].at = "link" /\ request[t].account \in Ids /\ (GoTo(t, "session") \/ Answer(t))
    BY <1>0, <1>18 DEF LinkSeeker, LinkEmployer, RequestsKnowTheirAccount
  <2> QED
    BY <1>0, <1>3, <2>1, Answers
<1>19. CASE Present(t)
  <2>1. CASE request' = request
    BY <1>1, <2>1
  <2>2. ASSUME NEW s \in Sessions, session[s].state = "open", NEW wish \in {"look", "delete"},
               NEW at \in {"extend", "delete"},
               request' = [request EXCEPT ![t] =
                   [[NoRequest EXCEPT !.for = wish, !.session = s, !.account = session[s].account]
                       EXCEPT !.at = at]]
        PROVE  Arrived(t)
    <3>1. session[s].account \in Ids
      BY <1>0, <2>2 DEF RowsHaveAccounts
    <3>2. PICK r : r = [[NoRequest EXCEPT !.for = wish, !.session = s, !.account = session[s].account]
                       EXCEPT !.at = at]
      OBVIOUS
    <3>3. r \in Request /\ r.at \in {"extend", "delete"} /\ r.account \in Ids
      BY <3>1, <3>2 DEF NoRequest, Request, Maybe
    <3> QED
      BY <1>2, <1>19, <2>2, <3>2, <3>3 DEF Present
  <2> QED
    BY <1>19, <2>1, <2>2 DEF Present, Begin
<1>20. CASE Extend(t)
  <2>1. request[t].at = "extend" /\ request[t].account \in Ids /\ (GoTo(t, "delete") \/ Answer(t))
    BY <1>0, <1>20 DEF Extend, RequestsKnowTheirAccount
  <2> QED
    BY <1>0, <1>3, <2>1, Answers
<1>21. CASE Follow(t, "verify") \/ Follow(t, "reset")
  BY <1>11, <1>21
<1> HIDE DEF Knowing, At, Idle
<1> QED
  BY <1>4, <1>5, <1>6, <1>7, <1>8, <1>9, <1>10, <1>12, <1>13, <1>14, <1>15, <1>16, <1>17,
     <1>18, <1>19, <1>20, <1>21 DEF Action

\* What becomes of a link.
LinkKept(l) == link'[l] = link[l]
LinkDropped(l) ==
    link'[l].state = "dropped" /\ link'[l].honoured = link[l].honoured
LinkAged(l) ==
    link[l].state = "unspent" /\ link'[l].state = "unspent" /\ link'[l].account = link[l].account
    /\ link'[l].purpose = link[l].purpose /\ link'[l].rival = link[l].rival
    /\ link'[l].honoured = link[l].honoured
LinkSpent(l) ==
    link[l].state = "unspent" /\ link'[l].state = "spent" /\ link'[l].account = link[l].account
    /\ link'[l].honoured = link[l].honoured + 1
LinkMinted(l) == \E t \in Threads :
    /\ MintToken(t) /\ link[l].state = "none" /\ link'[l].state = "unspent" /\ link'[l].honoured = 0
    /\ link'[l].account = request[t].account /\ link'[l].purpose = request[t].for
    /\ Open(request[t].account)
    /\ link'[l].rival = \E u \in Threads \ {t} :
           request[u].at = "mint" /\ request[u].account = request[t].account
           /\ request[u].for = request[t].for
    /\ \A k \in Links : k # l => link'[k] = link[k]

LEMMA GoneLinks ==
    ASSUME AccountsTypeOK, NEW set, link' = [l \in Links |-> IF l \in set THEN Gone(l) ELSE link[l]]
    PROVE  link' \in [Links -> Link] /\ \A l \in Links : IF l \in set THEN LinkDropped(l) ELSE LinkKept(l)
<1>1. \A l \in Links : link[l] \in Link /\ Gone(l) \in Link /\ Gone(l).state = "dropped"
                       /\ Gone(l).honoured = link[l].honoured
  BY DEF AccountsTypeOK, Link, Gone, NoLink, Maybe
<1> QED
  BY <1>1 DEF LinkDropped, LinkKept

LEMMA LinkSteps ==
    ASSUME AccountsInv, [AccountsNext]_accountVars
    PROVE  /\ link' \in [Links -> Link]
           /\ \A l \in Links : LinkKept(l) \/ LinkDropped(l) \/ LinkAged(l) \/ LinkSpent(l) \/ LinkMinted(l)
<1>0. AccountsTypeOK /\ RequestsKnowTheirAccount /\ RequestsHaveAPurpose
      /\ link \in [Links -> Link] /\ \A l \in Links : link[l] \in Link
  BY DEF AccountsInv, AccountsTypeOK
<1>1. CASE link' = link
  BY <1>0, <1>1 DEF LinkKept
<1>2. ASSUME NEW t \in Threads, DropTokens(t) \/ Erase(t)
      PROVE  /\ link' \in [Links -> Link]
             /\ \A l \in Links : LinkKept(l) \/ LinkDropped(l)
  BY <1>0, <1>2, GoneLinks DEF DropTokens, Erase
<1>3. ASSUME NEW t \in Threads, MintToken(t), link' # link
      PROVE  /\ link' \in [Links -> Link]
             /\ \A l \in Links : LinkKept(l) \/ LinkMinted(l)
  <2>1. PICK rival \in BOOLEAN : rival = \E u \in Threads \ {t} :
                 request[u].at = "mint" /\ request[u].account = request[t].account
                 /\ request[u].for = request[t].for
    OBVIOUS
  <2>2. PICK new : new = [NoLink EXCEPT !.state = "unspent", !.account = request[t].account,
                              !.purpose = request[t].for, !.rival = rival]
    OBVIOUS
  <2>3. PICK l \in Links : link[l].state = "none" /\ link' = [link EXCEPT ![l] = new] /\ Open(request[t].account)
    BY <1>0, <1>3, <2>1, <2>2 DEF MintToken, Fresh
  <2>4. request[t].account \in Ids /\ request[t].for \in {"verify", "reset"}
    BY <1>0, <1>3 DEF MintToken, At, RequestsKnowTheirAccount, RequestsHaveAPurpose, Knowing
  <2>5. new.state = "unspent" /\ new.honoured = 0 /\ new.account = request[t].account
        /\ new.purpose = request[t].for /\ new.rival = rival /\ new \in Link
    BY <2>2, <2>4 DEF NoLink, Link, Maybe
  <2>6. link' \in [Links -> Link] /\ link'[l] = new /\ \A k \in Links : k # l => link'[k] = link[k]
    BY <1>0, <2>3, <2>5
  <2>7. LinkMinted(l)
    BY <1>3, <2>1, <2>3, <2>5, <2>6 DEF LinkMinted
  <2> QED
    BY <2>6, <2>7 DEF LinkKept
<1>4. ASSUME NEW t \in Threads, Claim(t), link' # link
      PROVE  /\ link' \in [Links -> Link]
             /\ \A l \in Links : LinkKept(l) \/ LinkSpent(l)
  <2>1. PICK l : l = request[t].link /\ link[l].state = "unspent"
                 /\ link' = [link EXCEPT ![l].state = "spent", ![l].honoured = @ + 1]
    BY <1>4 DEF Claim
  <2>2. l \in Links
    BY <1>0, <1>4, <2>1
  <2>6. link[l].honoured \in Nat
    BY <1>0, <2>2 DEF Link
  <2>7. PICK n \in Nat : n = link[l].honoured + 1
    BY <2>6
  <2>3. PICK new : new = [link[l] EXCEPT !.state = "spent", !.honoured = n]
    OBVIOUS
  <2>4. new \in Link /\ new.state = "spent" /\ new.account = link[l].account /\ new.honoured = n
    BY <1>0, <2>2, <2>3 DEF Link
  <2>5. link' = [link EXCEPT ![l] = new]
    BY <1>0, <2>1, <2>2, <2>3, <2>7
  <2> QED
    BY <1>0, <2>1, <2>2, <2>4, <2>5, <2>7, ZenonT(60) DEF LinkKept, LinkSpent
<1>5. CASE Lapse
  <2>1. PICK l \in Links : link[l].state = "unspent" /\ link' = [link EXCEPT ![l].lapsed = TRUE]
    BY <1>5 DEF Lapse
  <2>2. PICK new : new = [link[l] EXCEPT !.lapsed = TRUE]
    OBVIOUS
  <2>3. new \in Link /\ new.state = "unspent" /\ new.account = link[l].account
        /\ new.honoured = link[l].honoured /\ new.rival = link[l].rival /\ new.purpose = link[l].purpose
    BY <1>0, <2>1, <2>2 DEF Link
  <2>4. link' = [link EXCEPT ![l] = new]
    BY <1>0, <2>1, <2>2
  <2> QED
    BY <1>0, <2>1, <2>3, <2>4 DEF LinkKept, LinkAged
<1>6. ASSUME NEW t \in Threads, Action(t)
      PROVE  link' = link \/ MintToken(t) \/ DropTokens(t) \/ Claim(t) \/ Erase(t)
  BY <1>6 DEF Action, SignUp, CheckPassword, Rehash, IssueSession, AskForReset, Follow, MarkVerified,
     SetNewPassword, RevokeAll, Recognise, MatchSeeker, MatchEmployer, Create, LinkSeeker,
     LinkEmployer, Present, Extend, rows
<1>7. SignOut \/ Age \/ Purge \/ Crash \/ UNCHANGED accountVars => link' = link
  BY DEF SignOut, Age, Purge, Crash, accountVars, rows
<1> QED
  BY <1>1, <1>2, <1>3, <1>4, <1>5, <1>6, <1>7, Actions

\* What becomes of a session.
SessionKept(s) == session'[s] = session[s]
SessionClosed(s) == session'[s].state = "closed"
SessionAged(s) ==
    session[s].state = "open" /\ session'[s].state = "open"
    /\ session'[s].account = session[s].account /\ session'[s].made = session[s].made
SessionIssued(s) ==
    /\ session[s].state = "none" /\ session'[s].state = "open"
    /\ session'[s].account \in Ids /\ Open(session'[s].account)
    /\ session'[s].made = account[session'[s].account].era
    /\ account' = account

LEMMA ClosedSessions ==
    ASSUME AccountsTypeOK, NEW set, session' = Closed(set)
    PROVE  /\ session' \in [Sessions -> Session]
           /\ \A s \in Sessions : IF s \in set THEN SessionClosed(s) ELSE SessionKept(s)
<1>1. PICK none : none = [NoSession EXCEPT !.state = "closed"]
  OBVIOUS
<1>2. none \in Session /\ none.state = "closed" /\ \A s \in Sessions : session[s] \in Session
  BY <1>1 DEF AccountsTypeOK, Session, NoSession, Maybe
<1> QED
  BY <1>1, <1>2 DEF Closed, SessionClosed, SessionKept

LEMMA SessionSteps ==
    ASSUME AccountsInv, [AccountsNext]_accountVars
    PROVE  /\ session' \in [Sessions -> Session]
           /\ \A s \in Sessions : SessionKept(s) \/ SessionClosed(s) \/ SessionAged(s) \/ SessionIssued(s)
<1>0. AccountsTypeOK /\ RequestsKnowTheirAccount
      /\ session \in [Sessions -> Session] /\ \A s \in Sessions : session[s] \in Session
  BY DEF AccountsInv, AccountsTypeOK
<1>1. CASE session' = session
  BY <1>0, <1>1 DEF SessionKept
<1>2. CASE \E set : session' = Closed(set)
  BY <1>0, <1>2, ClosedSessions
<1>3. ASSUME NEW s \in Sessions, session[s].state = "open", NEW age \in {"fresh", "aged", "lapsed"},
             session' = [session EXCEPT ![s].age = age]
      PROVE  /\ session' \in [Sessions -> Session]
             /\ \A q \in Sessions : SessionKept(q) \/ SessionAged(q)
  <2>1. PICK new : new = [session[s] EXCEPT !.age = age]
    OBVIOUS
  <2>2. new \in Session /\ new.state = "open" /\ new.account = session[s].account
        /\ new.made = session[s].made
    BY <1>0, <1>3, <2>1 DEF Session
  <2>3. session' = [session EXCEPT ![s] = new]
    BY <1>0, <1>3, <2>1
  <2> QED
    BY <1>0, <1>3, <2>2, <2>3 DEF SessionKept, SessionAged
<1>4. ASSUME NEW t \in Threads, Extend(t), session' # session
      PROVE  /\ session' \in [Sessions -> Session]
             /\ \A q \in Sessions : SessionKept(q) \/ SessionAged(q)
  <2>1. PICK s : s = request[t].session /\ session[s].state = "open"
                 /\ session' = [session EXCEPT ![s].age = "fresh"]
    BY <1>4 DEF Extend
  <2>2. s \in Sessions
    BY <1>0, <1>4, <2>1
  <2> QED
    BY <1>3, <2>1, <2>2
<1>5. CASE Age
  <2>1. PICK s \in Sessions : session[s].state = "open"
          /\ session' = [session EXCEPT ![s].age = IF @ = "fresh" THEN "aged" ELSE "lapsed"]
    BY <1>5 DEF Age
  <2>2. PICK age \in {"aged", "lapsed"} : age = IF session[s].age = "fresh" THEN "aged" ELSE "lapsed"
    OBVIOUS
  <2>3. session' = [session EXCEPT ![s].age = age]
    BY <1>0, <2>1, <2>2
  <2> QED
    BY <1>3, <2>1, <2>3
<1>6. ASSUME NEW t \in Threads, IssueSession(t), session' # session
      PROVE  /\ session' \in [Sessions -> Session]
             /\ \A q \in Sessions : SessionKept(q) \/ SessionIssued(q)
  <2>1. PICK r : r = request[t]
    OBVIOUS
  <2>2. PICK s \in Sessions : session[s].state = "none" /\ session' = [session EXCEPT ![s] = NewSession(r)]
                              /\ Open(r.account) /\ account' = account
    BY <1>0, <1>6, <2>1 DEF IssueSession, Fresh
  <2>3. r.account \in Ids
    BY <1>0, <1>6, <2>1 DEF IssueSession, At, RequestsKnowTheirAccount, Knowing
  <2>4. account[r.account].era \in Nat
    BY <1>0, <2>3 DEF AccountsTypeOK, Account
  <2>5. NewSession(r) \in Session /\ NewSession(r).state = "open" /\ NewSession(r).account = r.account
        /\ NewSession(r).made = account[r.account].era
    BY <2>3, <2>4 DEF NewSession, NoSession, Session, Maybe
  <2> QED
    BY <1>0, <2>2, <2>3, <2>5 DEF SessionKept, SessionIssued
<1>7. ASSUME NEW t \in Threads, Action(t)
      PROVE  \/ session' = session \/ IssueSession(t) \/ Extend(t)
             \/ \E set : session' = Closed(set)
  <2>1. CASE Present(t)
    <3>1. session' = session \/ \E s \in Sessions : session' = Closed({s})
      BY <2>1 DEF Present
    <3> QED
      BY <3>1
  <2> QED
    BY <1>7, <2>1 DEF Action, SignUp, CheckPassword, Rehash, AskForReset, DropTokens, MintToken, Follow, Claim,
     MarkVerified, SetNewPassword, RevokeAll, Recognise, MatchSeeker, MatchEmployer, Create, LinkSeeker,
     LinkEmployer, Erase, rows
<1>8. SignOut \/ Purge \/ Crash => \E set : session' = Closed(set)
  BY DEF SignOut, Purge, Crash
<1>9. Lapse \/ UNCHANGED accountVars => session' = session
  BY DEF Lapse, accountVars, rows
<1> QED
  BY <1>1, <1>2, <1>4, <1>5, <1>6, <1>7, <1>8, <1>9, Actions

\* What becomes of the accounts.
Registered == \E i \in Ids, e \in Maybe(Emails), p \in Maybe(Passwords) :
    account[i].state = "none" /\ Holders(e) = {} /\ Insert(i, e, p)
    /\ UNCHANGED <<identity, link, session, halfway>>
\* The rows but one are as they were, and that one but for its password.
Repassworded(i, era) ==
    /\ Open(i) /\ account'[i].state = "open" /\ account'[i].email = account[i].email
    /\ account'[i].era = era
    /\ \A j \in Ids : j # i => account'[j] = account[j]
    /\ UNCHANGED <<identity, link, session, halfway>>

LEMMA AccountSteps ==
    ASSUME AccountsInv, [AccountsNext]_accountVars
    PROVE  /\ account' \in [Ids -> Account]
           /\ \/ account' = account
              \/ Registered
              \/ \E i \in Ids : Repassworded(i, account[i].era)
              \/ \E t \in Threads : SetNewPassword(t) /\ request[t].account \in Ids
                     /\ Repassworded(request[t].account, account[request[t].account].era + 1)
              \/ \E t \in Threads : Erase(t)
<1>0. AccountsTypeOK /\ RequestsKnowTheirAccount
      /\ account \in [Ids -> Account] /\ \A i \in Ids : account[i] \in Account /\ account[i].era \in Nat
  BY DEF AccountsInv, AccountsTypeOK, Account
<1>1. ASSUME NEW i \in Ids, NEW e \in Maybe(Emails), NEW p \in Maybe(Passwords), Insert(i, e, p)
      PROVE  account' \in [Ids -> Account]
  <2>1. PICK new : new = [NoAccount EXCEPT !.state = "open", !.email = e, !.password = p]
    OBVIOUS
  <2>2. new \in Account
    BY <2>1 DEF NoAccount, Account, Maybe
  <2> QED
    BY <1>0, <1>1, <2>1, <2>2 DEF Insert
<1>2. ASSUME NEW i \in Ids, NEW p \in Maybe(Passwords), NEW era \in Nat, SetPassword(i, p, era), account' # account,
             UNCHANGED <<identity, link, session, halfway>>
      PROVE  account' \in [Ids -> Account] /\ Repassworded(i, era)
  <2>1. Open(i)
    <3>1. ~Open(i) => account' = [account EXCEPT ![i] = account[i]]
      BY <1>2 DEF SetPassword
    <3> QED
      BY <1>0, <1>2, <3>1
  <2>2. PICK new : new = [account[i] EXCEPT !.password = p, !.weak = FALSE, !.era = era]
    OBVIOUS
  <2>3. new \in Account /\ new.state = "open" /\ new.email = account[i].email /\ new.era = era
    BY <1>0, <2>1, <2>2 DEF Account, Open
  <2>4. account' = [account EXCEPT ![i] = new]
    BY <1>0, <1>2, <2>1, <2>2 DEF SetPassword
  <2> QED
    BY <1>0, <1>2, <2>1, <2>3, <2>4 DEF Repassworded
<1>3. ASSUME NEW t \in Threads, SignUp(t), account' # account
      PROVE  account' \in [Ids -> Account] /\ Registered
  <2>1. PICK e \in Emails, p \in Passwords, i \in Ids : Holders(e) = {} /\ account[i].state = "none" /\ Insert(i, e, p)
    BY <1>0, <1>3 DEF SignUp, Fresh
  <2>2. UNCHANGED <<identity, link, session, halfway>>
    BY <1>3 DEF SignUp, Quiet
  <2>3. e \in Maybe(Emails) /\ p \in Maybe(Passwords)
    BY DEF Maybe
  <2> QED
    BY <1>1, <2>1, <2>2, <2>3 DEF Registered
<1>4. ASSUME NEW t \in Threads, Create(t), account' # account
      PROVE  account' \in [Ids -> Account] /\ Registered
  <2>1. PICK i \in Ids : Holders(request[t].email) = {} /\ account[i].state = "none" /\ Insert(i, request[t].email, Nil)
    BY <1>0, <1>4 DEF Create, Fresh
  <2>2. UNCHANGED <<identity, link, session, halfway>>
    BY <1>4 DEF Create, Quiet
  <2>3. request[t].email \in Maybe(Emails) /\ Nil \in Maybe(Passwords)
    BY <1>0, RequestAt DEF Maybe
  <2> QED
    BY <1>1, <2>1, <2>2, <2>3 DEF Registered
<1>5. ASSUME NEW t \in Threads, Rehash(t), account' # account
      PROVE  account' \in [Ids -> Account] /\ \E i \in Ids : Repassworded(i, account[i].era)
  <2>1. PICK i \in Ids : i = request[t].account
    BY <1>0, <1>5 DEF Rehash, At, RequestsKnowTheirAccount, Knowing
  <2>2. SetPassword(i, request[t].password, account[i].era) /\ UNCHANGED <<identity, link, session, halfway>>
    BY <1>5, <2>1 DEF Rehash, Quiet
  <2> QED
    BY <1>0, <1>2, <1>5, <2>2, RequestAt
<1>6. ASSUME NEW t \in Threads, SetNewPassword(t), account' # account
      PROVE  account' \in [Ids -> Account] /\ request[t].account \in Ids
             /\ Repassworded(request[t].account, account[request[t].account].era + 1)
  <2>1. PICK i \in Ids : i = request[t].account
    BY <1>0, <1>6 DEF SetNewPassword, At, RequestsKnowTheirAccount, Knowing
  <2>2. SetPassword(i, request[t].password, account[i].era + 1) /\ UNCHANGED <<identity, link, session, halfway>>
    BY <1>6, <2>1 DEF SetNewPassword, Quiet
  <2>3. account[i].era + 1 \in Nat
    BY <1>0
  <2> QED
    BY <1>0, <1>2, <1>6, <2>1, <2>2, <2>3, RequestAt
<1>7. ASSUME NEW t \in Threads, Erase(t) PROVE account' \in [Ids -> Account]
  <2>1. PICK none, i : none = [NoAccount EXCEPT !.state = "deleted"] /\ i = request[t].account
    OBVIOUS
  <2>2. none \in Account
    BY <2>1 DEF NoAccount, Account, Maybe
  <2>3. account' = [account EXCEPT ![i] = none]
    BY <1>7, <2>1 DEF Erase
  <2> QED
    BY <1>0, <2>2, <2>3
<1>8. ASSUME NEW t \in Threads, Action(t)
      PROVE  account' = account \/ SignUp(t) \/ Create(t) \/ Rehash(t) \/ SetNewPassword(t) \/ Erase(t)
  BY <1>8 DEF Action, CheckPassword, IssueSession, AskForReset, DropTokens, MintToken, Follow, Claim, MarkVerified,
     RevokeAll, Recognise, MatchSeeker, MatchEmployer, LinkSeeker, LinkEmployer, Present, Extend, rows
<1>9. SignOut \/ Age \/ Lapse \/ Purge \/ Crash \/ UNCHANGED accountVars => account' = account
  BY DEF SignOut, Age, Lapse, Purge, Crash, accountVars, rows
<1>10. CASE account' = account
  BY <1>0, <1>10
<1>11. CASE account' # account
  BY <1>3, <1>4, <1>5, <1>6, <1>7, <1>8, <1>9, <1>11, Actions
<1> QED
  BY <1>10, <1>11

----------------------------------------------------------------------------
(* The invariant, part by part.                                            *)

LEMMA IdentityNext ==
    ASSUME AccountsInv, [AccountsNext]_accountVars
    PROVE  /\ identity' \in [Subjects -> Identity] /\ LinkedOnEvidence'
           /\ \A g \in Subjects : identity'[g].account # Nil =>
                  (identity'[g] = identity[g] /\ ~\E t \in Threads : Erase(t) /\ request[t].account = identity[g].account)
                  \/ (Open(identity'[g].account) /\ account' = account)
<1>0. AccountsTypeOK /\ RequestsKnowTheirAccount /\ LinkingIsEarned /\ LinkedOnEvidence
      /\ identity \in [Subjects -> Identity] /\ \A g \in Subjects : identity[g] \in Identity
  BY DEF AccountsInv, AccountsTypeOK
<1>1. CASE identity' = identity /\ ~\E t \in Threads : Erase(t)
  BY <1>0, <1>1 DEF LinkedOnEvidence
<1>2. ASSUME NEW t \in Threads, Erase(t)
      PROVE  /\ identity' \in [Subjects -> Identity] /\ LinkedOnEvidence'
             /\ \A g \in Subjects : identity'[g].account # Nil =>
                    identity'[g] = identity[g] /\ request[t].account # identity[g].account
  <2>1. identity' = [g \in Subjects |-> IF identity[g].account = request[t].account THEN NoIdentity ELSE identity[g]]
    BY <1>2 DEF Erase
  <2>2. NoIdentity \in Identity /\ NoIdentity.account = Nil
    BY DEF NoIdentity, Identity, Maybe
  <2> QED
    BY <1>0, <2>1, <2>2 DEF LinkedOnEvidence
<1>3. ASSUME NEW t \in Threads, LinkSeeker(t) \/ LinkEmployer(t), identity' # identity
      PROVE  /\ identity' \in [Subjects -> Identity] /\ LinkedOnEvidence' /\ account' = account
             /\ \A g \in Subjects : identity'[g] = identity[g] \/ Open(identity'[g].account)
  <2>1. PICK r : r = request[t]
    OBVIOUS
  <2>2. At(t, "link") /\ Open(r.account) /\ Attach(r) /\ account' = account
    BY <1>3, <2>1 DEF LinkSeeker, LinkEmployer
  <2>3. r.account \in Ids /\ r.vouched \in BOOLEAN /\ (r.vouched \/ r.for = "founder")
    BY <1>0, <2>1, <2>2, RequestAt DEF At, RequestsKnowTheirAccount, LinkingIsEarned, Knowing, Request
  <2>4. PICK new : new = [account |-> r.account, vouched |-> r.vouched, founder |-> r.for = "founder"]
    OBVIOUS
  <2>5. new \in Identity /\ new.account = r.account /\ (new.vouched \/ new.founder)
    BY <2>3, <2>4 DEF Identity, Maybe
  <2>6. identity' = [identity EXCEPT ![r.subject] = new]
    BY <2>2, <2>4 DEF Attach
  <2> QED
    BY <1>0, <2>2, <2>5, <2>6 DEF LinkedOnEvidence
<1>4. ASSUME NEW t \in Threads, Action(t)
      PROVE  identity' = identity \/ LinkSeeker(t) \/ LinkEmployer(t) \/ Erase(t)
  BY <1>4 DEF Action, SignUp, CheckPassword, Rehash, IssueSession, AskForReset, DropTokens, MintToken, Follow,
     Claim, MarkVerified, SetNewPassword, RevokeAll, Recognise, MatchSeeker, MatchEmployer, Create, Present,
     Extend, rows
<1>5. SignOut \/ Age \/ Lapse \/ Purge \/ Crash \/ UNCHANGED accountVars => identity' = identity
  BY DEF SignOut, Age, Lapse, Purge, Crash, accountVars, rows
<1>6. CASE \E t \in Threads : Erase(t)
  <2>1. PICK t \in Threads : Erase(t)
    BY <1>6
  <2>2. ASSUME NEW u \in Threads, Erase(u), NEW g \in Subjects, identity'[g].account # Nil
        PROVE  identity'[g] = identity[g] /\ request[u].account # identity[g].account
    BY <1>2, <2>2
  <2>3. identity' \in [Subjects -> Identity] /\ LinkedOnEvidence'
    BY <1>2, <2>1
  <2>4. ASSUME NEW g \in Subjects, identity'[g].account # Nil
        PROVE  identity'[g] = identity[g]
               /\ ~\E u \in Threads : Erase(u) /\ request[u].account = identity[g].account
    BY <2>1, <2>2, <2>4
  <2> QED
    BY <2>3, <2>4
<1>7. CASE ~\E t \in Threads : Erase(t)
  <2>1. identity' = identity \/ \E t \in Threads : LinkSeeker(t) \/ LinkEmployer(t)
    BY <1>4, <1>5, <1>7, Actions
  <2>2. CASE identity' = identity
    BY <1>1, <1>7, <2>2
  <2>3. CASE identity' # identity
    <3>1. PICK t \in Threads : LinkSeeker(t) \/ LinkEmployer(t)
      BY <2>1, <2>3
    <3>2. /\ identity' \in [Subjects -> Identity] /\ LinkedOnEvidence' /\ account' = account
          /\ \A g \in Subjects : identity'[g] = identity[g] \/ Open(identity'[g].account)
      BY <1>3, <2>3, <3>1
    <3> QED
      BY <1>7, <3>2
  <2> QED
    BY <2>2, <2>3
<1> QED
  BY <1>6, <1>7

\* What was under way survives a step, but for a restart.
LEMMA RequestsNext ==
    ASSUME AccountsInv, [AccountsNext]_accountVars
    PROVE  /\ request' \in [Threads -> Request]
           /\ RequestsKnowTheirAccount' /\ RequestsHaveAPurpose' /\ LinkingIsEarned'
           /\ \A t \in Threads :
                /\ request'[t].at = "mint" => request'[t] = request[t] \/ DropTokens(t)
                /\ At(t, "revoke") => request'[t] = request[t] \/ RevokeAll(t) \/ Crash
<1>0. /\ AccountsTypeOK /\ RequestsKnowTheirAccount /\ RequestsHaveAPurpose /\ LinkingIsEarned
      /\ request \in [Threads -> Request]
  BY DEF AccountsInv, AccountsTypeOK
<1>1. CASE request' = request
  BY <1>0, <1>1 DEF RequestsKnowTheirAccount, RequestsHaveAPurpose, LinkingIsEarned, At
<1>2. CASE Crash
  <2>1. request' = [t \in Threads |-> NoRequest] /\ NoRequest.at = "idle" /\ NoRequest \in Request
    BY <1>2 DEF Crash, NoRequest, Request, Maybe
  <2> QED
    BY <1>2, <2>1 DEF RequestsKnowTheirAccount, RequestsHaveAPurpose, LinkingIsEarned, At, Knowing
<1>3. ASSUME NEW u \in Threads, Action(u)
      PROVE  /\ request' \in [Threads -> Request]
             /\ RequestsKnowTheirAccount' /\ RequestsHaveAPurpose' /\ LinkingIsEarned'
             /\ \A t \in Threads :
                  /\ request'[t].at = "mint" => request'[t] = request[t] \/ DropTokens(t)
                  /\ At(t, "revoke") => request'[t] = request[t] \/ RevokeAll(t) \/ Crash
  <2>1. Arrived(u)
    BY <1>3, RequestSteps
  <2> QED
    BY <1>0, <2>1 DEF Arrived, RequestsKnowTheirAccount, RequestsHaveAPurpose, LinkingIsEarned, At
<1>4. SignOut \/ Age \/ Lapse \/ Purge \/ UNCHANGED accountVars => request' = request
  BY DEF SignOut, Age, Lapse, Purge, accountVars
<1> QED
  BY <1>1, <1>2, <1>3, <1>4, Actions

\* Which accounts a step leaves open.
LEMMA StaysOpen ==
    ASSUME AccountsInv, [AccountsNext]_accountVars, NEW i \in Ids, Open(i),
           ~\E t \in Threads : Erase(t) /\ request[t].account = i
    PROVE  account'[i].state = "open"
<1>0. account \in [Ids -> Account]
  BY DEF AccountsInv, AccountsTypeOK
<1>1. CASE account' = account
  BY <1>1 DEF Open
<1>2. CASE Registered
  BY <1>0, <1>2 DEF Registered, Insert, Open
<1>3. ASSUME NEW j \in Ids, NEW era, Repassworded(j, era) PROVE account'[i].state = "open"
  BY <1>3 DEF Repassworded, Open
<1>4. ASSUME NEW t \in Threads, Erase(t) PROVE account'[i].state = "open"
  BY <1>0, <1>4 DEF Erase, Open
<1> QED
  BY <1>1, <1>2, <1>3, <1>4, AccountSteps

LEMMA OutlivesNext ==
    ASSUME AccountsAssumption, AccountsInv, [AccountsNext]_accountVars
    PROVE  NothingOutlivesItsAccount' /\ RowsHaveAccounts'
<1>0. /\ AccountsTypeOK /\ RequestsKnowTheirAccount /\ NothingOutlivesItsAccount /\ RowsHaveAccounts
      /\ \A g \in Subjects : identity[g].account # Nil => identity[g].account \in Ids
  BY DEF AccountsInv, AccountsTypeOK, Identity, Maybe
<1>1. ASSUME NEW s \in Sessions, session'[s].state = "open"
      PROVE  session'[s].account \in Ids /\ account'[session'[s].account].state = "open"
  <2>1. CASE SessionIssued(s)
    BY <2>1 DEF SessionIssued, Open
  <2>2. CASE ~SessionIssued(s)
    <3>1. session[s].state = "open" /\ session'[s].account = session[s].account
      BY <1>1, <2>2, SessionSteps DEF SessionKept, SessionClosed, SessionAged
    <3>2. session[s].account \in Ids /\ Open(session[s].account)
      BY <1>0, <3>1 DEF RowsHaveAccounts, NothingOutlivesItsAccount
    <3>3. ASSUME NEW t \in Threads, Erase(t), request[t].account = session[s].account PROVE FALSE
      <4>1. s \in Signed(request[t].account)
        BY <3>1, <3>3 DEF Signed
      <4>2. session' = Closed(Signed(request[t].account))
        BY <3>3 DEF Erase
      <4> QED
        BY <1>0, <1>1, <4>1, <4>2, ClosedSessions DEF SessionClosed
    <3> QED
      BY <3>1, <3>2, <3>3, StaysOpen
  <2> QED
    BY <2>1, <2>2
<1>2. ASSUME NEW l \in Links, link'[l].state \in {"unspent", "spent"}
      PROVE  link'[l].account \in Ids /\ account'[link'[l].account].state = "open"
  <2>1. CASE LinkMinted(l)
    <3>1. PICK t \in Threads : MintToken(t) /\ link'[l].account = request[t].account /\ Open(request[t].account)
      BY <2>1 DEF LinkMinted
    <3>2. account' = account /\ request[t].account \in Ids
      BY <1>0, <3>1 DEF MintToken, At, RequestsKnowTheirAccount, Knowing
    <3> QED
      BY <3>1, <3>2 DEF Open
  <2>2. CASE ~LinkMinted(l)
    <3>1. link[l].state \in {"unspent", "spent"} /\ link'[l].account = link[l].account
      BY <1>2, <2>2, LinkSteps DEF LinkKept, LinkDropped, LinkAged, LinkSpent
    <3>2. link[l].account \in Ids /\ Open(link[l].account)
      BY <1>0, <3>1 DEF RowsHaveAccounts, NothingOutlivesItsAccount
    <3>3. ASSUME NEW t \in Threads, Erase(t), request[t].account = link[l].account PROVE FALSE
      <4>1. l \in Tokens(request[t].account, "any")
        BY <3>1, <3>3 DEF Tokens
      <4>2. link' = [k \in Links |-> IF k \in Tokens(request[t].account, "any") THEN Gone(k) ELSE link[k]]
        BY <3>3 DEF Erase
      <4> QED
        BY <1>0, <1>2, <4>1, <4>2, GoneLinks DEF LinkDropped
    <3> QED
      BY <3>1, <3>2, <3>3, StaysOpen
  <2> QED
    BY <2>1, <2>2
<1>3. ASSUME NEW g \in Subjects, identity'[g].account # Nil
      PROVE  account'[identity'[g].account].state = "open"
  <2>1. CASE Open(identity'[g].account) /\ account' = account
    BY <2>1 DEF Open
  <2>2. CASE /\ identity'[g] = identity[g]
             /\ ~\E t \in Threads : Erase(t) /\ request[t].account = identity[g].account
    <3>1. identity[g].account \in Ids /\ Open(identity[g].account)
      BY <1>0, <1>3, <2>2 DEF NothingOutlivesItsAccount
    <3> QED
      BY <2>2, <3>1, StaysOpen
  <2> QED
    BY <1>3, <2>1, <2>2, IdentityNext
<1> QED
  BY <1>1, <1>2, <1>3 DEF NothingOutlivesItsAccount, RowsHaveAccounts, Open

LEMMA LinksNext ==
    ASSUME AccountsInv, [AccountsNext]_accountVars
    PROVE  UnspentIsUnused' /\ LinksWorkOnce'
<1>0. UnspentIsUnused /\ LinksWorkOnce
  BY DEF AccountsInv
<1>1. ASSUME NEW l \in Links
      PROVE  /\ link'[l].state \in {"none", "unspent"} => link'[l].honoured = 0
             /\ link'[l].honoured <= 1
  <2>1. link[l].honoured <= 1 /\ (link[l].state \in {"none", "unspent"} => link[l].honoured = 0)
    BY <1>0 DEF UnspentIsUnused, LinksWorkOnce
  <2>2. CASE LinkKept(l) \/ LinkDropped(l) \/ LinkAged(l)
    BY <2>1, <2>2 DEF LinkKept, LinkDropped, LinkAged
  <2>3. CASE LinkSpent(l)
    BY <2>1, <2>3 DEF LinkSpent
  <2>4. CASE LinkMinted(l)
    BY <2>4 DEF LinkMinted
  <2> QED
    BY <2>2, <2>3, <2>4, LinkSteps
<1> QED
  BY <1>1 DEF UnspentIsUnused, LinksWorkOnce

LEMMA HoldersNext ==
    ASSUME AccountsInv, [AccountsNext]_accountVars
    PROVE  OneHolder'
<1>0. OneHolder /\ account \in [Ids -> Account]
  BY DEF AccountsInv, AccountsTypeOK
<1>1. CASE account' = account
  BY <1>0, <1>1 DEF OneHolder, Open
<1>2. CASE Registered
  <2>1. PICK i \in Ids, e \in Maybe(Emails), p \in Maybe(Passwords) :
              account[i].state = "none" /\ Holders(e) = {} /\ Insert(i, e, p)
    BY <1>2 DEF Registered
  <2>2. account'[i].email = e /\ \A j \in Ids : j # i => account'[j] = account[j]
    BY <1>0, <2>1 DEF Insert, NoAccount
  <2>3. \A j \in Ids : Open(j) => account[j].email # e
    BY <2>1 DEF Holders
  <2> QED
    BY <1>0, <2>2, <2>3 DEF OneHolder, Open
<1>3. ASSUME NEW j \in Ids, NEW era, Repassworded(j, era) PROVE OneHolder'
  BY <1>0, <1>3 DEF Repassworded, OneHolder, Open
<1>4. ASSUME NEW t \in Threads, Erase(t) PROVE OneHolder'
  <2>1. PICK i : i = request[t].account
    OBVIOUS
  <2>2. account' = [account EXCEPT ![i] = [NoAccount EXCEPT !.state = "deleted"]]
    BY <1>4, <2>1 DEF Erase
  <2>3. \A j \in Ids : j # i => account'[j] = account[j]
    BY <1>0, <2>2
  <2>4. i \in Ids => account'[i].state = "deleted"
    BY <1>0, <2>2 DEF NoAccount
  <2> QED
    BY <1>0, <2>3, <2>4 DEF OneHolder, Open
<1> QED
  BY <1>1, <1>2, <1>3, <1>4, AccountSteps

\* Whoever is to mint a link, the links that work and are in its way know of it.
LEMMA RivalsNext ==
    ASSUME AccountsInv, [AccountsNext]_accountVars
    PROVE  MintersAreRivals' /\ OneLinkAtATime'
<1>0. AccountsTypeOK /\ MintersAreRivals /\ OneLinkAtATime /\ RequestsHaveAPurpose
  BY DEF AccountsInv
<1>1. ASSUME NEW t \in Threads, NEW l \in Links, request'[t].at = "mint", link'[l].state = "unspent",
             link'[l].account = request'[t].account, link'[l].purpose = request'[t].for
      PROVE  link'[l].rival
  <2>1. CASE request'[t] = request[t]
    <3>1. CASE LinkMinted(l)
      <4>1. PICK u \in Threads :
              /\ MintToken(u) /\ link'[l].account = request[u].account /\ link'[l].purpose = request[u].for
              /\ link'[l].rival = \E v \in Threads \ {u} :
                     request[v].at = "mint" /\ request[v].account = request[u].account
                     /\ request[v].for = request[u].for
        BY <3>1 DEF LinkMinted
      <4>2. u # t
        <5>1. request'[u].at = "idle"
          BY <1>0, <4>1, RequestAt DEF MintToken, Answer, NoRequest
        <5> QED
          BY <1>1, <5>1
      <4> QED
        BY <1>1, <2>1, <4>1, <4>2
    <3>2. CASE ~LinkMinted(l)
      <4>1. link[l].state = "unspent" /\ link'[l].account = link[l].account
            /\ link'[l].purpose = link[l].purpose /\ link'[l].rival = link[l].rival
        BY <1>1, <3>2, LinkSteps DEF LinkKept, LinkDropped, LinkAged, LinkSpent
      <4> QED
        BY <1>0, <1>1, <2>1, <4>1 DEF MintersAreRivals, At
    <3> QED
      BY <3>1, <3>2
  <2>2. CASE DropTokens(t)
    <3>1. PICK old : old = Tokens(request[t].account, request[t].for)
                     /\ link' = [k \in Links |-> IF k \in old THEN Gone(k) ELSE link[k]]
      BY <2>2 DEF DropTokens
    <3>2. request'[t].account = request[t].account /\ request'[t].for = request[t].for
      BY <1>0, <2>2, GoesTo DEF DropTokens
    <3>3. l \notin old
      BY <1>0, <1>1, <3>1, GoneLinks DEF LinkDropped
    <3>4. link'[l] = link[l]
      BY <3>1, <3>3
    <3> QED
      BY <1>1, <3>1, <3>2, <3>3, <3>4 DEF Tokens
  <2> QED
    BY <1>1, <2>1, <2>2, RequestsNext
\* A link that did not come now was there, and worked.
<1>2. ASSUME NEW l \in Links, link'[l].state = "unspent", ~LinkMinted(l)
      PROVE  link[l].state = "unspent" /\ link'[l].account = link[l].account
             /\ link'[l].purpose = link[l].purpose /\ link'[l].rival = link[l].rival
  BY <1>2, LinkSteps DEF LinkKept, LinkDropped, LinkAged, LinkSpent
<1>3. ASSUME NEW k \in Links, NEW l \in Links, k # l, link'[k].state = "unspent", link'[l].state = "unspent",
             link'[k].account = link'[l].account, link'[k].purpose = link'[l].purpose, LinkMinted(l)
      PROVE  link'[k].rival
  <2>1. PICK t \in Threads : MintToken(t) /\ link'[l].account = request[t].account
                             /\ link'[l].purpose = request[t].for /\ link'[k] = link[k]
    BY <1>3 DEF LinkMinted
  <2>2. At(t, "mint")
    BY <2>1 DEF MintToken
  <2> QED
    BY <1>0, <1>3, <2>1, <2>2 DEF MintersAreRivals
<1>4. ASSUME NEW k \in Links, NEW l \in Links, k # l, link'[k].state = "unspent", link'[l].state = "unspent",
             link'[k].account = link'[l].account, link'[k].purpose = link'[l].purpose
      PROVE  link'[k].rival \/ link'[l].rival
  <2>1. CASE LinkMinted(k) \/ LinkMinted(l)
    BY <1>3, <1>4, <2>1
  <2>2. CASE ~LinkMinted(k) /\ ~LinkMinted(l)
    BY <1>0, <1>2, <1>4, <2>2 DEF OneLinkAtATime
  <2> QED
    BY <2>1, <2>2
<1> QED
  BY <1>1, <1>4 DEF MintersAreRivals, OneLinkAtATime, At

LEMMA HalfwaySteps ==
    ASSUME AccountsInv, [AccountsNext]_accountVars
    PROVE  /\ halfway' \subseteq Ids
           /\ \A i \in halfway \ halfway' : \E t \in Threads :
                  (RevokeAll(t) \/ Erase(t)) /\ request[t].account = i
<1>0. RequestsKnowTheirAccount /\ halfway \subseteq Ids
  BY DEF AccountsInv, AccountsTypeOK
<1>1. CASE Crash
  BY <1>0, <1>1 DEF Crash, RequestsKnowTheirAccount, At, Knowing
<1>2. ASSUME NEW t \in Threads, Action(t)
      PROVE  halfway' = halfway \/ ((RevokeAll(t) \/ Erase(t)) /\ halfway' = halfway \ {request[t].account})
  BY <1>2 DEF Action, SignUp, CheckPassword, Rehash, IssueSession, AskForReset, DropTokens, MintToken, Follow,
     Claim, MarkVerified, SetNewPassword, RevokeAll, Recognise, MatchSeeker, MatchEmployer, Create, LinkSeeker,
     LinkEmployer, Present, Extend, Erase, Quiet
<1>3. SignOut \/ Age \/ Lapse \/ Purge \/ UNCHANGED accountVars => halfway' = halfway
  BY DEF SignOut, Age, Lapse, Purge, Quiet, accountVars
<1> QED
  BY <1>0, <1>1, <1>2, <1>3, Actions

LEMMA ResetNext ==
    ASSUME AccountsAssumption, AccountsInv, [AccountsNext]_accountVars
    PROVE  ResetSignsOut'
<1>0. /\ AccountsTypeOK /\ RequestsKnowTheirAccount /\ NothingOutlivesItsAccount /\ RowsHaveAccounts
      /\ ResetSignsOut /\ account \in [Ids -> Account] /\ \A i \in Ids : account[i].era \in Nat
  BY DEF AccountsInv, AccountsTypeOK, Account
<1> SUFFICES ASSUME NEW s \in Sessions, session'[s].state = "open",
                    session'[s].made < account'[session'[s].account].era
             PROVE  \/ session'[s].account \in halfway'
                    \/ \E t \in Threads : request'[t].at = "revoke" /\ request'[t].account = session'[s].account
  BY DEF ResetSignsOut, At
<1>1. ~SessionIssued(s)
  <2>1. SUFFICES ASSUME SessionIssued(s) PROVE FALSE
    OBVIOUS
  <2>2. PICK i \in Ids : i = session'[s].account /\ session'[s].made = account[i].era /\ account' = account
    BY <2>1 DEF SessionIssued
  <2> QED
    BY <1>0, <2>2
<1>2. session[s].state = "open" /\ session'[s].account = session[s].account /\ session'[s].made = session[s].made
  BY <1>1, SessionSteps DEF SessionKept, SessionClosed, SessionAged
<1>3. PICK i \in Ids : i = session[s].account /\ Open(i)
  BY <1>0, <1>2 DEF RowsHaveAccounts, NothingOutlivesItsAccount
\* The sessions of an account that is signed out, or erased, are closed.
<1>4. ASSUME NEW t \in Threads, RevokeAll(t) \/ Erase(t), request[t].account = i PROVE FALSE
  <2>1. s \in Signed(i) /\ session' = Closed(Signed(i))
    BY <1>2, <1>3, <1>4 DEF Signed, RevokeAll, Erase
  <2> QED
    BY <1>0, <2>1, ClosedSessions DEF SessionClosed
\* The era is as it was.
<1>5. CASE account'[i].era = account[i].era
  <2>1. i \in halfway \/ \E t \in Threads : At(t, "revoke") /\ request[t].account = i
    BY <1>0, <1>2, <1>3, <1>5 DEF ResetSignsOut
  <2>2. CASE i \in halfway
    BY <1>2, <1>3, <1>4, <2>2, HalfwaySteps
  <2>3. ASSUME NEW t \in Threads, At(t, "revoke"), request[t].account = i
        PROVE  i \in halfway' \/ (request'[t].at = "revoke" /\ request'[t].account = i)
    <3>1. CASE request'[t] = request[t]
      BY <2>3, <3>1 DEF At
    <3>2. CASE RevokeAll(t)
      BY <1>4, <2>3, <3>2
    <3>3. CASE Crash
      BY <2>3, <3>3 DEF Crash
    <3> QED
      BY <2>3, <3>1, <3>2, <3>3, RequestsNext
  <2> QED
    BY <1>2, <1>3, <2>1, <2>2, <2>3
<1>6. CASE account' = account
  BY <1>5, <1>6
<1>7. CASE Registered
  <2>1. PICK j \in Ids, e \in Maybe(Emails), p \in Maybe(Passwords) : account[j].state = "none" /\ Insert(j, e, p)
    BY <1>7 DEF Registered
  <2>2. account'[i] = account[i]
    BY <1>0, <1>3, <2>1 DEF Insert, Open
  <2> QED
    BY <1>5, <2>2
<1>8. ASSUME NEW j \in Ids, Repassworded(j, account[j].era) PROVE account'[i].era = account[i].era
  BY <1>8 DEF Repassworded
<1>9. ASSUME NEW t \in Threads, SetNewPassword(t), request[t].account \in Ids,
             Repassworded(request[t].account, account[request[t].account].era + 1), request[t].account # i
      PROVE  account'[i].era = account[i].era
  BY <1>9 DEF Repassworded
<1>10. ASSUME NEW t \in Threads, SetNewPassword(t), request[t].account = i
       PROVE  request'[t].at = "revoke" /\ request'[t].account = i
  BY <1>0, <1>10, GoesTo DEF SetNewPassword
<1>11. ASSUME NEW t \in Threads, Erase(t) PROVE account'[i].era = account[i].era
  <2>1. request[t].account # i
    BY <1>4, <1>11
  <2> QED
    BY <1>0, <1>11, <2>1 DEF Erase
<1> QED
  BY <1>2, <1>3, <1>5, <1>6, <1>7, <1>8, <1>9, <1>10, <1>11, AccountSteps

LEMMA RealmStays ==
    ASSUME [AccountsNext]_accountVars
    PROVE  realm' = realm
<1>1. ASSUME NEW t \in Threads, Action(t) PROVE realm' = realm
  BY <1>1 DEF Action, SignUp, CheckPassword, Rehash, IssueSession, AskForReset, DropTokens, MintToken, Follow,
     Claim, MarkVerified, SetNewPassword, RevokeAll, Recognise, MatchSeeker, MatchEmployer, Create, LinkSeeker,
     LinkEmployer, Present, Extend, Erase, Quiet
<1> QED
  BY <1>1, Actions DEF SignOut, Age, Lapse, Purge, Crash, Quiet, accountVars

----------------------------------------------------------------------------
(* The theorems.                                                           *)

LEMMA AccountsInvInit ==
    ASSUME AccountsAssumption, AccountsInit
    PROVE  AccountsInv
<1>1. /\ realm \in {"seeker", "employer"}
      /\ identity = [g \in Subjects |-> NoIdentity] /\ link = [l \in Links |-> NoLink]
      /\ session = [s \in Sessions |-> NoSession] /\ request = [t \in Threads |-> NoRequest]
      /\ halfway = {}
  BY DEF AccountsInit
<1>2. PICK old \in {{}} \cup {{i} : i \in Ids}, e \in Emails, p \in Passwords :
        account = [i \in Ids |->
               IF i \in old
               THEN [NoAccount EXCEPT !.state = "open", !.email = e, !.password = p, !.weak = TRUE]
               ELSE NoAccount]
  BY DEF AccountsInit
<1>3. PICK one : one = [NoAccount EXCEPT !.state = "open", !.email = e, !.password = p, !.weak = TRUE]
  OBVIOUS
<1>4. one \in Account /\ NoAccount \in Account /\ NoAccount.state = "none"
  BY <1>3 DEF NoAccount, Account, Maybe
<1>5. account \in [Ids -> Account] /\ OneHolder
  BY <1>2, <1>3, <1>4 DEF OneHolder, Open
<1>6. NoIdentity \in Identity /\ NoLink \in Link /\ NoSession \in Session /\ NoRequest \in Request
      /\ NoIdentity.account = Nil /\ NoLink.state = "none" /\ NoLink.honoured = 0
      /\ NoSession.state = "none" /\ NoRequest.at = "idle"
  BY DEF NoIdentity, NoLink, NoSession, NoRequest, Identity, Link, Session, Request, Maybe
<1>7. AccountsTypeOK
  BY <1>1, <1>5, <1>6 DEF AccountsTypeOK
<1>8. RequestsKnowTheirAccount /\ RequestsHaveAPurpose /\ LinkingIsEarned /\ MintersAreRivals
  BY <1>1, <1>6 DEF RequestsKnowTheirAccount, RequestsHaveAPurpose, LinkingIsEarned, MintersAreRivals, Knowing, At
<1>9. /\ UnspentIsUnused /\ LinksWorkOnce /\ RowsHaveAccounts /\ NothingOutlivesItsAccount
      /\ OneLinkAtATime /\ ResetSignsOut /\ LinkedOnEvidence
  BY <1>1, <1>6
  DEF UnspentIsUnused, LinksWorkOnce, RowsHaveAccounts, NothingOutlivesItsAccount, OneLinkAtATime,
      ResetSignsOut, LinkedOnEvidence
<1> QED
  BY <1>5, <1>7, <1>8, <1>9 DEF AccountsInv

LEMMA AccountsInvNext ==
    ASSUME AccountsAssumption, AccountsInv, [AccountsNext]_accountVars
    PROVE  AccountsInv'
<1>1. realm \in {"seeker", "employer"}
  BY DEF AccountsInv, AccountsTypeOK
<1>2. AccountsTypeOK'
  BY <1>1, RealmStays, AccountSteps, IdentityNext, LinkSteps, SessionSteps, RequestsNext, HalfwaySteps
  DEF AccountsTypeOK
<1> QED
  BY <1>2, RequestsNext, HoldersNext, LinksNext, OutlivesNext, RivalsNext, ResetNext, IdentityNext
  DEF AccountsInv

LEMMA AccountsInvHolds ==
    ASSUME AccountsAssumption
    PROVE  AccountsSpec => []AccountsInv
BY AccountsInvInit, AccountsInvNext, PTL DEF AccountsSpec

\* Two clicks on one link, a click and a newer link, a click and a deletion: the
\* link works once at most (claim_email_token).
THEOREM LinksWorkOnceAtMost == AccountsSpec => []LinksWorkOnce
<1>1. AccountsInv => LinksWorkOnce
  BY DEF AccountsInv
<1> QED
  BY <1>1, AccountsInvHolds, AccountsAssumption, PTL

\* A deletion leaves nothing that refers to the account, whatever was under way
\* (delete_seeker, delete_employer).
THEOREM ErasedForGood == AccountsSpec => []NothingOutlivesItsAccount
<1>1. AccountsInv => NothingOutlivesItsAccount
  BY DEF AccountsInv
<1> QED
  BY <1>1, AccountsInvHolds, AccountsAssumption, PTL

LEMMA OneAccount ==
    ASSUME OneHolder
    PROVE  OneAccountPerAddress
<1> SUFFICES ASSUME NEW e \in Emails PROVE Cardinality(Holders(e)) <= 1
  BY DEF OneAccountPerAddress
<1>1. CASE Holders(e) = {}
  BY <1>1, FS_EmptySet
<1>2. CASE \E i \in Ids : i \in Holders(e)
  <2>1. PICK i \in Ids : i \in Holders(e)
    BY <1>2
  <2>2. Holders(e) = {i}
    BY <2>1 DEF Holders, OneHolder
  <2>3. Cardinality({i}) = 1
    BY FS_Singleton
  <2> QED
    BY <2>2, <2>3
<1> QED
  BY <1>1, <1>2 DEF Holders

\* One account per address, no address opened but by evidence, no session that a reset
\* leaves behind or that comes back, no two links for one purpose but of rivals.
THEOREM AccountsAreTheirOwners == AccountsSpec => AccountsStayWithTheirOwners
<1>1. AccountsInv => AccountsTypeOK /\ OneAccountPerAddress /\ LinkedOnEvidence /\ ResetSignsOut /\ OneLinkAtATime
  BY OneAccount DEF AccountsInv
<1>2. AccountsInv /\ [AccountsNext]_accountVars =>
        [\A s \in Sessions : session[s].state = "closed" => session'[s].state = "closed"]_accountVars
  BY SessionSteps DEF SessionKept, SessionClosed, SessionAged, SessionIssued
<1>3. AccountsSpec => []AccountsInv
  BY AccountsInvHolds, AccountsAssumption
<1>4. AccountsSpec => ClosedSessionsStayClosed
  BY <1>2, <1>3, PTL DEF AccountsSpec, ClosedSessionsStayClosed
<1>5. AccountsSpec => [](AccountsTypeOK /\ OneAccountPerAddress /\ LinkedOnEvidence /\ ResetSignsOut /\ OneLinkAtATime)
  BY <1>1, <1>3, PTL
<1> QED
  BY <1>4, <1>5 DEF AccountsStayWithTheirOwners

-----------------------------------------------------------------------------
(* Records and saved Roles (SeekerRecords, SavedRoles).                    *)

----------------------------------------------------------------------------
(* The records.                                                            *)

\* The types of the single rows, which every write of a row keeps.
LEMMA EmptyRows ==
    ASSUME RecordsAssumption
    PROVE  /\ NoResume \in Resume /\ NoCapstone \in Capstone /\ NoLearning \in Learning
           /\ NoProfile \in Profile /\ NoProgress \in Progress /\ AtRest \in Desk
BY DEF RecordsAssumption, NoResume, NoCapstone, NoLearning, NoProfile, NoProgress, AtRest,
       Resume, Capstone, Learning, Profile, Progress, Desk, Statuses

LEMMA InitType == RecordsAssumption /\ Init => TypeOK
BY EmptyRows DEF RecordsAssumption, Init, TypeOK

\* The writes of a profile's row keep its type.
LEMMA ProfileRows ==
    ASSUME NEW p \in Profile
    PROVE  /\ [p EXCEPT !.recent = FALSE] \in Profile
           /\ \A r \in Roles : /\ [p EXCEPT !.clicked = @ \cup {r}] \in Profile
                               /\ [p EXCEPT !.liked = @ \ {r}] \in Profile
                               /\ [p EXCEPT !.refused = @ \ {r}] \in Profile
                               /\ \A action : Judge(p, r, action) \in Profile
           /\ \A items \in SUBSET Roles : [p EXCEPT !.shown = @ \cup items] \in Profile
BY DEF Judge, Profile

\* So do those of the courses and of the applications.
LEMMA LearningRows ==
    ASSUME NEW l \in Learning
    PROVE  /\ \A c \in l.enrolled, n \in 0 .. 3 : [l EXCEPT !.steps[c] = n] \in Learning
           /\ \A c \in Courses : [l EXCEPT !.enrolled = @ \cup {c}] \in Learning
BY DEF Learning

LEMMA ProgressRows ==
    ASSUME RecordsAssumption, NEW p \in Progress, NEW r \in Roles
    PROVE  /\ \A status \in Statuses : [p EXCEPT ![r].status = status] \in Progress
           /\ p[r].clicks < MaxClicks => [p EXCEPT ![r].clicks = @ + 1] \in Progress
BY DEF Progress, RecordsAssumption

\* The rows of a Seeker, and a table with one of them replaced.
LEMMA RowsType ==
    ASSUME TypeOK, NEW s \in Seekers
    PROVE  /\ profile[s] \in Profile /\ learning[s] \in Learning /\ progress[s] \in Progress
           /\ \A p \in Profile : [profile EXCEPT ![s] = p] \in [Seekers -> Profile]
           /\ \A l \in Learning : [learning EXCEPT ![s] = l] \in [Seekers -> Learning]
           /\ \A p \in Progress : [progress EXCEPT ![s] = p] \in [Seekers -> Progress]
BY DEF TypeOK

\* The Seeker's own requests keep the types.
LEMMA ActsType ==
    ASSUME RecordsAssumption, TypeOK, NEW s \in Seekers, Acts(s)
    PROVE  TypeOK'
<1> USE DEF TypeOK, Same, tables, trail
<1>1. CASE upload_resume(s)
  BY <1>1 DEF upload_resume, replace_resume, Resume, RecordsAssumption
<1>2. CASE delete_resume(s)
  BY <1>2, EmptyRows DEF delete_resume
<1>3. CASE request_learning_enrolment(s)
  BY <1>3, SMTT(30) DEF request_learning_enrolment, Enrol, Learning
<1>4. CASE set_learning_progress(s)
  <2>1. PICK c \in learning[s].enrolled, n \in 0 .. 3 : learning' = [learning EXCEPT ![s].steps[c] = n]
    BY <1>4 DEF set_learning_progress
  <2>2. [learning[s] EXCEPT !.steps[c] = n] \in Learning
    BY RowsType, LearningRows
  <2>3. learning' = [learning EXCEPT ![s] = [learning[s] EXCEPT !.steps[c] = n]]
    BY <2>1
  <2> QED
    BY <1>4, <2>2, <2>3, RowsType DEF set_learning_progress
<1>5. CASE verify_learning_member(s)
  BY <1>5, ZenonT(60) DEF verify_learning_member, Learning
<1>6. CASE submit_capstone(s)
  BY <1>6 DEF submit_capstone, Capstone, RecordsAssumption
<1>7. CASE record_discovery(s)
  BY <1>7 DEF record_discovery, Profile, RecordsAssumption
<1>8. CASE Settle(s)
  <2>1. [profile[s] EXCEPT !.recent = FALSE] \in Profile
    BY RowsType, ProfileRows
  <2>2. profile' = [profile EXCEPT ![s] = [profile[s] EXCEPT !.recent = FALSE]]
    BY <1>8 DEF Settle
  <2> QED
    BY <1>8, <2>1, <2>2, RowsType DEF Settle
<1>9. CASE mark_recommendation_clicked(s)
  <2>1. PICK r \in profile[s].shown :
            profile' = [profile EXCEPT ![s] = [profile[s] EXCEPT !.clicked = @ \cup {r}]]
    BY <1>9 DEF mark_recommendation_clicked
  <2>2. [profile[s] EXCEPT !.clicked = @ \cup {r}] \in Profile
    <3>1. r \in Roles /\ profile[s] \in Profile
      BY RowsType DEF Profile
    <3> QED
      BY <3>1, ProfileRows
  <2> QED
    BY <1>9, <2>1, <2>2, RowsType DEF mark_recommendation_clicked
<1>10. CASE record_recommendation_feedback(s)
  <2>1. PICK r \in Roles, action \in {"more_like", "not_interested"} :
            profile' = [profile EXCEPT ![s] = Judge(profile[s], r, action)]
    BY <1>10 DEF record_recommendation_feedback
  <2>2. Judge(profile[s], r, action) \in Profile
    BY RowsType, ProfileRows
  <2> QED
    BY <1>10, <2>1, <2>2, RowsType DEF record_recommendation_feedback
<1>11. CASE delete_recommendation_feedback(s)
  <2>1. PICK r \in Roles :
            \/ profile' = [profile EXCEPT ![s] = [profile[s] EXCEPT !.liked = @ \ {r}]]
            \/ profile' = [profile EXCEPT ![s] = [profile[s] EXCEPT !.refused = @ \ {r}]]
    BY <1>11 DEF delete_recommendation_feedback
  <2>2. /\ [profile[s] EXCEPT !.liked = @ \ {r}] \in Profile
        /\ [profile[s] EXCEPT !.refused = @ \ {r}] \in Profile
    BY RowsType, ProfileRows
  <2>3. profile' \in [Seekers -> Profile]
    BY <2>1, <2>2, RowsType, ZenonT(60)
  <2> QED
    BY <1>11, <2>3 DEF delete_recommendation_feedback
<1>12. CASE set_application_status(s)
  <2>1. PICK r \in Roles, status \in Statuses :
            progress' = [progress EXCEPT ![s] = [progress[s] EXCEPT ![r].status = status]]
    BY <1>12 DEF set_application_status
  <2>2. [progress[s] EXCEPT ![r].status = status] \in Progress
    BY RowsType, ProgressRows
  <2> QED
    BY <1>12, <2>1, <2>2, RowsType DEF set_application_status
<1>13. CASE record_application_click(s)
  <2>1. PICK r \in Roles :
            /\ progress[s][r].clicks < MaxClicks
            /\ progress' = [progress EXCEPT ![s] = [progress[s] EXCEPT ![r].clicks = @ + 1]]
    BY <1>13 DEF record_application_click
  <2>2. [progress[s] EXCEPT ![r].clicks = @ + 1] \in Progress
    BY <2>1, RowsType, ProgressRows
  <2> QED
    BY <1>13, <2>1, <2>2, RowsType DEF record_application_click
<1>14. CASE delete_seeker(s)
  BY <1>14, EmptyRows DEF delete_seeker
<1> QED
  BY <1>1, <1>2, <1>3, <1>4, <1>5, <1>6, <1>7, <1>8, <1>9, <1>10, <1>11, <1>12, <1>13, <1>14 DEF Acts

\* So does a desk that reads.
LEMMA ReadsType ==
    ASSUME RecordsAssumption, TypeOK, NEW d \in Desks, NEW s \in Seekers, Reads(d, s)
    PROVE  TypeOK'
<1>1. ASSUME NEW for \in {"correction", "reanalysis", "download", "enrolment", "review", "feed"},
             NEW seen \in 0 .. MaxVersion, Sits(d, for, s, seen)
      PROVE  desk' \in [Desks -> Desk]
  BY <1>1 DEF Sits, TypeOK, Desk
<1>2. resume[s].doc \in 0 .. MaxVersion /\ capstone[s].work \in 0 .. MaxVersion /\ 0 \in 0 .. MaxVersion
  BY DEF TypeOK, Resume, Capstone, RecordsAssumption
<1>3. desk' \in [Desks -> Desk]
  BY <1>1, <1>2 DEF Reads, get_resume, reanalyse_read, download_read, learning_state,
     list_submissions, roles_for_seeker
<1> QED
  BY <1>3 DEF TypeOK, Reads, get_resume, reanalyse_read, download_read, learning_state,
     list_submissions, roles_for_seeker, Same, tables, trail

\* A desk that is busy is so for a Seeker.
BusyDesksKnowTheirSeeker ==
    \A d \in Desks : desk[d].for # "none" => desk[d].seeker \in Seekers

\* And a desk that writes.
LEMMA WritesType ==
    ASSUME RecordsAssumption, TypeOK, BusyDesksKnowTheirSeeker, NEW d \in Desks, Writes(d)
    PROVE  TypeOK'
<1> USE DEF TypeOK, Same, tables, trail
<1>0. /\ desk[d] \in Desk /\ desk[d].seen \in 0 .. MaxVersion
      /\ Rises(d) => desk' \in [Desks -> Desk]
      /\ desk[d].for # "none" => desk[d].seeker \in Seekers
  BY EmptyRows DEF Desk, Rises, BusyDesksKnowTheirSeeker
<1>1. CASE correct_resume_analysis(d)
  BY <1>0, <1>1, SMTT(30) DEF correct_resume_analysis, Busy, Resume
<1>2. CASE reanalyse_write(d)
  BY <1>0, <1>2, SMTT(30) DEF reanalyse_write, Busy, Resume
<1>3. CASE record_resume_download(d)
  BY <1>0, <1>3 DEF record_resume_download, Busy, Desk
<1>4. CASE download_answer(d)
  BY <1>0, <1>4 DEF download_answer, Busy
<1>5. CASE request_member_enrolment(d)
  <2> DEFINE s == desk[d].seeker
  <2>1. s \in Seekers
    BY <1>0, <1>5 DEF request_member_enrolment, Busy
  <2>2. \/ UNCHANGED learning
        \/ \E c \in MemberCourses :
               learning' = [learning EXCEPT ![s] = [learning[s] EXCEPT !.enrolled = @ \cup {c}]]
    BY <1>5 DEF request_member_enrolment, Enrol
  <2>3. \A c \in MemberCourses : [learning[s] EXCEPT !.enrolled = @ \cup {c}] \in Learning
    BY <2>1, RowsType, LearningRows DEF RecordsAssumption
  <2>4. learning \in [Seekers -> Learning]
    BY DEF TypeOK
  <2> HIDE DEF s, TypeOK
  <2>5. learning' \in [Seekers -> Learning]
    BY <2>1, <2>2, <2>3, <2>4, RowsType
  <2> QED
    BY <1>0, <1>5, <2>5 DEF TypeOK, request_member_enrolment
<1>6. CASE review_submission(d)
  BY <1>0, <1>6 DEF review_submission, Busy, Capstone
<1>7. CASE record_recommendation_impressions(d)
  <2> DEFINE s == desk[d].seeker
  <2>1. s \in Seekers
    BY <1>0, <1>7 DEF record_recommendation_impressions, Busy
  <2>2. \/ UNCHANGED profile
        \/ \E items \in SUBSET Roles :
               profile' = [profile EXCEPT ![s] = [profile[s] EXCEPT !.shown = @ \cup items]]
    BY <1>7 DEF record_recommendation_impressions
  <2>3. \A items \in SUBSET Roles : [profile[s] EXCEPT !.shown = @ \cup items] \in Profile
    BY <2>1, RowsType, ProfileRows
  <2>4. profile \in [Seekers -> Profile]
    BY DEF TypeOK
  <2> HIDE DEF s, TypeOK
  <2>5. profile' \in [Seekers -> Profile]
    BY <2>1, <2>2, <2>3, <2>4, RowsType
  <2> QED
    BY <1>0, <1>7, <2>5 DEF TypeOK, record_recommendation_impressions
<1>8. CASE Leave(d)
  BY <1>0, <1>8 DEF Leave
<1> QED
  BY <1>1, <1>2, <1>3, <1>4, <1>5, <1>6, <1>7, <1>8 DEF Writes

----------------------------------------------------------------------------
(* The log of the resume copies.  A copy that is still to be handed over has  *)
(* its row already, so those rows are ahead by the desks about to answer.     *)

Answering(s) ==
    {d \in Desks : desk[d].for = "download" /\ desk[d].step = "answer" /\ desk[d].seeker = s}

RowsAreAhead ==
    \A s \in Seekers :
        /\ IsFiniteSet(Answering(s))
        /\ served[s] + Cardinality(Answering(s)) <= logged[s]

\* A desk that takes up something else, or nothing, answers no longer.
LEMMA DeskTurns ==
    ASSUME TypeOK, RowsAreAhead, NEW d \in Desks, NEW x, desk' = [desk EXCEPT ![d] = x],
           x.step # "answer", UNCHANGED <<served, logged>>
    PROVE  RowsAreAhead'
<1> SUFFICES ASSUME NEW s \in Seekers
             PROVE  /\ IsFiniteSet(Answering(s)')
                    /\ served[s] + Cardinality(Answering(s)') <= logged[s]
  BY DEF RowsAreAhead
<1>1. Answering(s)' = Answering(s) \ {d}
  BY DEF Answering, TypeOK
<1>2. IsFiniteSet(Answering(s)) /\ served[s] + Cardinality(Answering(s)) <= logged[s]
  BY DEF RowsAreAhead
<1>3. IsFiniteSet(Answering(s)') /\ Cardinality(Answering(s)') <= Cardinality(Answering(s))
  BY <1>1, <1>2, FS_Subset
<1>4. /\ Cardinality(Answering(s)) \in Nat /\ Cardinality(Answering(s)') \in Nat
      /\ served[s] \in Nat /\ logged[s] \in Nat
  BY <1>2, <1>3, FS_CardinalityType DEF TypeOK
<1> QED
  BY <1>2, <1>3, <1>4

\* The row is written before the copy is handed over.
LEMMA DeskLogs ==
    ASSUME TypeOK, RowsAreAhead, NEW d \in Desks, record_resume_download(d)
    PROVE  RowsAreAhead'
<1> SUFFICES ASSUME NEW s \in Seekers
             PROVE  /\ IsFiniteSet(Answering(s)')
                    /\ served'[s] + Cardinality(Answering(s)') <= logged'[s]
  BY DEF RowsAreAhead
<1>1. /\ IsFiniteSet(Answering(s)) /\ served[s] + Cardinality(Answering(s)) <= logged[s]
      /\ served[s] \in Nat /\ logged[s] \in Nat /\ d \notin Answering(s)
      /\ served' = served
  BY DEF RowsAreAhead, TypeOK, Answering, record_resume_download
<1>2. Cardinality(Answering(s)) \in Nat
  BY <1>1, FS_CardinalityType
<1>3. CASE desk[d].seeker = s
  <2>1. Answering(s)' = Answering(s) \cup {d}
    BY <1>3 DEF Answering, record_resume_download, Busy, TypeOK, Desk
  <2>2. logged'[s] = logged[s] + 1
    BY <1>3 DEF record_resume_download, TypeOK
  <2>3. IsFiniteSet(Answering(s)') /\ Cardinality(Answering(s)') = Cardinality(Answering(s)) + 1
    BY <1>1, <2>1, FS_AddElement
  <2> QED
    BY <1>1, <1>2, <2>2, <2>3
<1>4. CASE desk[d].seeker # s
  <2>1. Answering(s)' = Answering(s)
    BY <1>4 DEF Answering, record_resume_download, Busy, TypeOK, Desk
  <2>2. logged'[s] = logged[s]
    BY <1>4 DEF record_resume_download, TypeOK
  <2> QED
    BY <1>1, <2>1, <2>2
<1> QED
  BY <1>3, <1>4

LEMMA DeskAnswers ==
    ASSUME TypeOK, RowsAreAhead, NEW d \in Desks, download_answer(d)
    PROVE  RowsAreAhead'
<1> SUFFICES ASSUME NEW s \in Seekers
             PROVE  /\ IsFiniteSet(Answering(s)')
                    /\ served'[s] + Cardinality(Answering(s)') <= logged'[s]
  BY DEF RowsAreAhead
<1>1. /\ IsFiniteSet(Answering(s)) /\ served[s] + Cardinality(Answering(s)) <= logged[s]
      /\ served[s] \in Nat /\ logged[s] \in Nat /\ logged' = logged
  BY DEF RowsAreAhead, TypeOK, download_answer
<1>2. Cardinality(Answering(s)) \in Nat
  BY <1>1, FS_CardinalityType
<1>3. Answering(s)' = Answering(s) \ {d}
  BY DEF Answering, download_answer, Rises, AtRest, TypeOK
<1>4. CASE desk[d].seeker = s
  <2>1. d \in Answering(s)
    BY <1>4 DEF Answering, download_answer, Busy
  <2>2. served'[s] = served[s] + 1
    BY <1>4 DEF download_answer, TypeOK
  <2>3. IsFiniteSet(Answering(s)') /\ Cardinality(Answering(s)') = Cardinality(Answering(s)) - 1
    BY <1>1, <1>3, <2>1, FS_RemoveElement
  <2> QED
    BY <1>1, <1>2, <2>2, <2>3
<1>5. CASE desk[d].seeker # s
  <2>1. Answering(s)' = Answering(s)
    BY <1>3, <1>5 DEF Answering
  <2>2. served'[s] = served[s]
    BY <1>5 DEF download_answer, TypeOK
  <2> QED
    BY <1>1, <2>1, <2>2
<1> QED
  BY <1>4, <1>5

----------------------------------------------------------------------------
(* The whole of it.                                                        *)

RecordsInv ==
    /\ TypeOK /\ BusyDesksKnowTheirSeeker /\ EvidenceIsOfTheDocument
    /\ NothingOutlivesTheSeeker /\ RowsAreAhead /\ OneVerdictPerRole

\* What is written from an old reading is marked late when the document has changed.
LEMMA LateRows ==
    ASSUME NEW r \in Resume, NEW seen, NEW q
    PROVE  /\ q = [r EXCEPT !.fixed = seen, !.late = @ \/ r.doc # seen]
              => (~q.late => ~r.late /\ r.doc = seen)
           /\ q = [r EXCEPT !.read = seen, !.late = @ \/ r.doc # seen]
              => (~q.late => ~r.late /\ r.doc = seen)
BY DEF Resume

LEMMA RecordsInvInit == RecordsAssumption /\ Init => RecordsInv
<1> SUFFICES ASSUME RecordsAssumption, Init PROVE RecordsInv
  OBVIOUS
<1>1. TypeOK
  BY InitType
<1>2. BusyDesksKnowTheirSeeker /\ EvidenceIsOfTheDocument /\ NothingOutlivesTheSeeker /\ OneVerdictPerRole
  BY DEF Init, AtRest, NoResume, NoProfile, BusyDesksKnowTheirSeeker, EvidenceIsOfTheDocument,
     NothingOutlivesTheSeeker, OneVerdictPerRole
<1>3. ASSUME NEW s \in Seekers
      PROVE  IsFiniteSet(Answering(s)) /\ served[s] + Cardinality(Answering(s)) <= logged[s]
  <2>1. Answering(s) = {}
    BY DEF Answering, Init, AtRest
  <2>2. served[s] = 0 /\ logged[s] = 0
    BY DEF Init
  <2> QED
    BY <2>1, <2>2, FS_EmptySet
<1> QED
  BY <1>1, <1>2, <1>3 DEF RecordsInv, RowsAreAhead

\* The Seeker's own requests leave the desks and the log alone.
LEMMA ActsInv ==
    ASSUME RecordsAssumption, RecordsInv, NEW s \in Seekers, Acts(s)
    PROVE  RecordsInv'
<1>0. UNCHANGED <<desk, logged, served>>
  BY DEF Acts, upload_resume, delete_resume, request_learning_enrolment, set_learning_progress,
     verify_learning_member, submit_capstone, record_discovery, Settle, mark_recommendation_clicked,
     record_recommendation_feedback, delete_recommendation_feedback, set_application_status,
     record_application_click, delete_seeker, trail
<1>1. TypeOK' /\ BusyDesksKnowTheirSeeker' /\ RowsAreAhead'
  BY <1>0, ActsType DEF RecordsInv, BusyDesksKnowTheirSeeker, RowsAreAhead, Answering
<1>2. EvidenceIsOfTheDocument'
  <2>1. \/ UNCHANGED resume
        \/ resume' = [resume EXCEPT ![s] = NoResume]
        \/ resume' = [resume EXCEPT ![s] =
               [doc |-> versions + 1, read |-> versions + 1, fixed |-> 0, late |-> FALSE]]
    BY DEF Acts, upload_resume, replace_resume, delete_resume, request_learning_enrolment,
       set_learning_progress, verify_learning_member, submit_capstone, record_discovery, Settle,
       mark_recommendation_clicked, record_recommendation_feedback, delete_recommendation_feedback,
       set_application_status, record_application_click, delete_seeker
  <2> QED
    BY <2>1 DEF RecordsInv, TypeOK, EvidenceIsOfTheDocument, NoResume
<1>3. NothingOutlivesTheSeeker'
  <2> USE DEF RecordsInv, TypeOK, NothingOutlivesTheSeeker
  <2>1. CASE s \in here
    <3>1. CASE delete_seeker(s)
      BY <3>1 DEF delete_seeker
    <3>2. CASE ~delete_seeker(s)
      <4>1. here' = here
        BY <3>2 DEF Acts, upload_resume, delete_resume, request_learning_enrolment, set_learning_progress,
           verify_learning_member, submit_capstone, record_discovery, Settle, mark_recommendation_clicked,
           record_recommendation_feedback, delete_recommendation_feedback, set_application_status,
           record_application_click, Same
      <4>2. \A t \in Seekers \ {s} : /\ resume'[t] = resume[t] /\ capstone'[t] = capstone[t]
                                    /\ learning'[t] = learning[t] /\ profile'[t] = profile[t]
                                    /\ progress'[t] = progress[t]
        BY <3>2 DEF Acts, upload_resume, replace_resume, delete_resume, request_learning_enrolment,
           set_learning_progress, Enrol,
           verify_learning_member, submit_capstone, record_discovery, Settle, mark_recommendation_clicked,
           record_recommendation_feedback, delete_recommendation_feedback, set_application_status,
           record_application_click
      <4> QED
        BY <2>1, <4>1, <4>2
    <3> QED
      BY <3>1, <3>2
  <2>2. CASE s \notin here
    <3>1. /\ resume[s].doc = 0 /\ learning[s].enrolled = {} /\ profile[s].recent = FALSE
          /\ profile[s].shown = {} /\ profile[s].liked = {} /\ profile[s].refused = {}
      BY <2>2 DEF NoResume, NoLearning, NoProfile
    <3> QED
      BY <2>2, <3>1 DEF Acts, Stored, upload_resume, delete_resume, request_learning_enrolment,
         set_learning_progress,
         verify_learning_member, submit_capstone, record_discovery, Settle, mark_recommendation_clicked,
         record_recommendation_feedback, delete_recommendation_feedback, set_application_status,
         record_application_click, delete_seeker
  <2> QED
    BY <2>1, <2>2
<1>4. OneVerdictPerRole'
  <2>1. profile \in [Seekers -> Profile] /\ \A t \in Seekers : profile[t].liked \cap profile[t].refused = {}
    BY DEF RecordsInv, TypeOK, OneVerdictPerRole
  <2>2. CASE record_discovery(s) \/ Settle(s) \/ mark_recommendation_clicked(s)
    <3>1. \A t \in Seekers : profile'[t].liked = profile[t].liked /\ profile'[t].refused = profile[t].refused
      <4>1. CASE record_discovery(s)
        BY <2>1, <4>1 DEF record_discovery, Profile
      <4>2. CASE Settle(s)
        BY <2>1, <4>2 DEF Settle, Profile
      <4>3. CASE mark_recommendation_clicked(s)
        BY <2>1, <4>3 DEF mark_recommendation_clicked, Profile
      <4> QED
        BY <2>2, <4>1, <4>2, <4>3
    <3> QED
      BY <2>1, <3>1 DEF OneVerdictPerRole
  <2>3. CASE record_recommendation_feedback(s)
    BY <2>1, <2>3 DEF OneVerdictPerRole, record_recommendation_feedback, Judge
  <2>4. CASE delete_recommendation_feedback(s)
    <3>1. PICK r \in Roles :
              \/ profile' = [profile EXCEPT ![s] = [profile[s] EXCEPT !.liked = @ \ {r}]]
              \/ profile' = [profile EXCEPT ![s] = [profile[s] EXCEPT !.refused = @ \ {r}]]
      BY <2>4 DEF delete_recommendation_feedback
    <3>2. \A t \in Seekers : /\ profile'[t].liked \subseteq profile[t].liked
                             /\ profile'[t].refused \subseteq profile[t].refused
      BY <2>1, <3>1 DEF Profile
    <3> QED
      BY <2>1, <3>2 DEF OneVerdictPerRole
  <2>5. CASE delete_seeker(s)
    BY <2>1, <2>5 DEF OneVerdictPerRole, delete_seeker, NoProfile
  <2>6. CASE UNCHANGED profile
    BY <2>1, <2>6 DEF OneVerdictPerRole
  <2> QED
    BY <2>2, <2>3, <2>4, <2>5, <2>6 DEF Acts, upload_resume, delete_resume,
       request_learning_enrolment, set_learning_progress, verify_learning_member, submit_capstone,
       set_application_status, record_application_click
<1> QED
  BY <1>1, <1>2, <1>3, <1>4 DEF RecordsInv

\* A reader changes nothing but its desk.
LEMMA ReadsInv ==
    ASSUME RecordsAssumption, RecordsInv, NEW d \in Desks, NEW s \in Seekers, Reads(d, s)
    PROVE  RecordsInv'
<1>1. /\ UNCHANGED <<here, resume, capstone, learning, profile, progress, logged, served>>
      /\ \E for \in {"correction", "reanalysis", "download", "enrolment", "review", "feed"} :
             \E seen : Sits(d, for, s, seen)
  BY DEF Reads, get_resume, reanalyse_read, download_read, learning_state, list_submissions,
     roles_for_seeker, Same, tables, trail
<1>2. PICK for \in {"correction", "reanalysis", "download", "enrolment", "review", "feed"} :
          \E seen : Sits(d, for, s, seen)
  BY <1>1
<1>3. PICK seen : Sits(d, for, s, seen)
  BY <1>2
<1>4. TypeOK'
  BY ReadsType DEF RecordsInv
<1>5. BusyDesksKnowTheirSeeker'
  BY <1>3 DEF Sits, RecordsInv, TypeOK, BusyDesksKnowTheirSeeker
<1>6. RowsAreAhead'
  <2> DEFINE x == [for |-> for, seeker |-> s, seen |-> seen, step |-> "write"]
  <2>1. desk' = [desk EXCEPT ![d] = x] /\ x.step # "answer"
    BY <1>3 DEF Sits
  <2> HIDE DEF x
  <2> QED
    BY <1>1, <2>1, DeskTurns DEF RecordsInv
<1>7. EvidenceIsOfTheDocument' /\ NothingOutlivesTheSeeker' /\ OneVerdictPerRole'
  BY <1>1 DEF RecordsInv, EvidenceIsOfTheDocument, NothingOutlivesTheSeeker, OneVerdictPerRole
<1> QED
  BY <1>4, <1>5, <1>6, <1>7 DEF RecordsInv

\* A writer that acts on what it read marks what it spoils, and stores nothing for
\* an account that is gone.
LEMMA WritesInv ==
    ASSUME RecordsAssumption, RecordsInv, NEW d \in Desks, Writes(d)
    PROVE  RecordsInv'
<1> DEFINE s == desk[d].seeker
<1>1. TypeOK'
  BY WritesType DEF RecordsInv
<1>2. here' = here
  BY DEF Writes, correct_resume_analysis, reanalyse_write, record_resume_download, download_answer,
     request_member_enrolment, review_submission, record_recommendation_impressions, Leave, Same
<1>3. \/ Rises(d)
      \/ record_resume_download(d)
  BY DEF Writes, correct_resume_analysis, reanalyse_write, download_answer,
     request_member_enrolment, review_submission, record_recommendation_impressions, Leave
<1>4. BusyDesksKnowTheirSeeker'
  BY <1>3 DEF Rises, AtRest, record_resume_download, RecordsInv, TypeOK, Desk, BusyDesksKnowTheirSeeker
<1>5. RowsAreAhead'
  <2>1. CASE record_resume_download(d)
    BY <2>1, DeskLogs DEF RecordsInv
  <2>2. CASE download_answer(d)
    BY <2>2, DeskAnswers DEF RecordsInv
  <2>3. CASE Rises(d) /\ UNCHANGED <<logged, served>>
    <3>1. AtRest.step # "answer" /\ desk' = [desk EXCEPT ![d] = AtRest]
      BY <2>3 DEF AtRest, Rises
    <3> QED
      BY <2>3, <3>1, DeskTurns DEF RecordsInv
  <2> QED
    BY <2>1, <2>2, <2>3 DEF Writes, correct_resume_analysis, reanalyse_write,
       request_member_enrolment, review_submission, record_recommendation_impressions, Leave, trail
<1>6. EvidenceIsOfTheDocument'
  <2>0. /\ resume \in [Seekers -> Resume]
        /\ \A t \in Seekers : resume[t].doc # 0 /\ ~resume[t].late =>
               resume[t].read = resume[t].doc /\ resume[t].fixed \in {0, resume[t].doc}
    BY DEF RecordsInv, TypeOK, EvidenceIsOfTheDocument
  <2>1. CASE correct_resume_analysis(d)
    <3> SUFFICES ASSUME NEW t \in Seekers, resume'[t].doc # 0, ~resume'[t].late
                 PROVE  resume'[t].read = resume'[t].doc /\ resume'[t].fixed \in {0, resume'[t].doc}
      BY DEF EvidenceIsOfTheDocument
    <3>1. CASE resume'[t] = resume[t]
      BY <2>0, <3>1
    <3>2. CASE resume'[t] # resume[t]
      <4>1. resume'[t] = [resume[t] EXCEPT !.fixed = desk[d].seen,
                                              !.late = @ \/ resume[t].doc # desk[d].seen]
        BY <2>0, <2>1, <3>2 DEF correct_resume_analysis
      <4>2. resume[t] \in Resume
        BY <2>0
      <4>3. resume'[t].doc = resume[t].doc /\ resume'[t].fixed = desk[d].seen /\ resume'[t].read = resume[t].read
        BY <4>1, <4>2 DEF Resume
      <4>4. ~resume[t].late /\ resume[t].doc = desk[d].seen
        BY <4>1, <4>2, LateRows
      <4> QED
        BY <2>0, <4>3, <4>4
    <3> QED
      BY <3>1, <3>2
  <2>2. CASE reanalyse_write(d)
    <3> SUFFICES ASSUME NEW t \in Seekers, resume'[t].doc # 0, ~resume'[t].late
                 PROVE  resume'[t].read = resume'[t].doc /\ resume'[t].fixed \in {0, resume'[t].doc}
      BY DEF EvidenceIsOfTheDocument
    <3>1. CASE resume'[t] = resume[t]
      BY <2>0, <3>1
    <3>2. CASE resume'[t] # resume[t]
      <4>1. resume'[t] = [resume[t] EXCEPT !.read = desk[d].seen,
                                              !.late = @ \/ resume[t].doc # desk[d].seen]
        BY <2>0, <2>2, <3>2 DEF reanalyse_write
      <4>2. resume[t] \in Resume
        BY <2>0
      <4>3. resume'[t].doc = resume[t].doc /\ resume'[t].read = desk[d].seen /\ resume'[t].fixed = resume[t].fixed
        BY <4>1, <4>2 DEF Resume
      <4>4. ~resume[t].late /\ resume[t].doc = desk[d].seen
        BY <4>1, <4>2, LateRows
      <4> QED
        BY <2>0, <4>3, <4>4
    <3> QED
      BY <3>1, <3>2
  <2>3. CASE UNCHANGED resume
    BY <2>3 DEF RecordsInv, EvidenceIsOfTheDocument
  <2> QED
    BY <2>1, <2>2, <2>3 DEF Writes, record_resume_download, download_answer,
       request_member_enrolment, review_submission, record_recommendation_impressions, Leave, tables
<1>7. NothingOutlivesTheSeeker'
  <2>0. /\ resume \in [Seekers -> Resume]
        /\ \A t \in Seekers \ here : resume[t] = NoResume /\ resume[t].doc = 0
    BY DEF RecordsInv, TypeOK, NothingOutlivesTheSeeker, NoResume
  <2>1. CASE correct_resume_analysis(d)
    <3>1. \A t \in Seekers \ here : resume'[t] = resume[t]
      <4>1. CASE resume[s].doc = 0
        BY <2>1, <4>1 DEF correct_resume_analysis
      <4>2. CASE resume[s].doc # 0
        <5>1. \A t \in Seekers \ {s} : resume'[t] = resume[t]
          BY <2>0, <2>1, <4>2 DEF correct_resume_analysis
        <5> QED
          BY <2>0, <4>2, <5>1
      <4> QED
        BY <4>1, <4>2
    <3> QED
      BY <1>2, <2>1, <3>1 DEF RecordsInv, NothingOutlivesTheSeeker, correct_resume_analysis
  <2>2. CASE reanalyse_write(d)
    <3>1. \A t \in Seekers \ here : resume'[t] = resume[t]
      <4>1. CASE resume[s].doc = 0
        BY <2>2, <4>1 DEF reanalyse_write
      <4>2. CASE resume[s].doc # 0
        <5>1. \A t \in Seekers \ {s} : resume'[t] = resume[t]
          BY <2>0, <2>2, <4>2 DEF reanalyse_write
        <5> QED
          BY <2>0, <4>2, <5>1
      <4> QED
        BY <4>1, <4>2
    <3> QED
      BY <1>2, <2>2, <3>1 DEF RecordsInv, NothingOutlivesTheSeeker, reanalyse_write
  <2> USE <1>2 DEF RecordsInv, TypeOK, NothingOutlivesTheSeeker
  <2>3. CASE request_member_enrolment(d)
    BY <2>3 DEF request_member_enrolment, Enrol, Stored
  <2>4. CASE review_submission(d)
    BY <2>4 DEF review_submission, NoCapstone
  <2>5. CASE record_recommendation_impressions(d)
    BY <2>5 DEF record_recommendation_impressions, Stored
  <2>6. CASE UNCHANGED tables
    BY <2>6 DEF tables
  <2> QED
    BY <2>1, <2>2, <2>3, <2>4, <2>5, <2>6 DEF Writes, record_resume_download, download_answer, Leave
<1>8. OneVerdictPerRole'
  <2>1. CASE record_recommendation_impressions(d)
    <3>1. profile \in [Seekers -> Profile]
      BY DEF RecordsInv, TypeOK
    <3>2. \A t \in Seekers : profile'[t].liked = profile[t].liked /\ profile'[t].refused = profile[t].refused
      <4>1. \/ UNCHANGED profile
            \/ \E items \in SUBSET Roles :
                   profile' = [profile EXCEPT ![s] = [profile[s] EXCEPT !.shown = @ \cup items]]
        BY <2>1 DEF record_recommendation_impressions
      <4>2. CASE \E items \in SUBSET Roles :
                     profile' = [profile EXCEPT ![s] = [profile[s] EXCEPT !.shown = @ \cup items]]
        <5>1. PICK items \in SUBSET Roles :
                  profile' = [profile EXCEPT ![s] = [profile[s] EXCEPT !.shown = @ \cup items]]
          BY <4>2
        <5>2. s \in Seekers
          BY <2>1 DEF record_recommendation_impressions, Busy, RecordsInv, BusyDesksKnowTheirSeeker
        <5>3. \A p \in Profile : /\ [p EXCEPT !.shown = @ \cup items].liked = p.liked
                                 /\ [p EXCEPT !.shown = @ \cup items].refused = p.refused
          BY DEF Profile
        <5> QED
          BY <3>1, <5>1, <5>2, <5>3
      <4> QED
        BY <4>1, <4>2
    <3> QED
      BY <3>2 DEF RecordsInv, OneVerdictPerRole
  <2>2. CASE UNCHANGED profile
    BY <2>2 DEF RecordsInv, OneVerdictPerRole
  <2> QED
    BY <2>1, <2>2 DEF Writes, correct_resume_analysis, reanalyse_write, record_resume_download,
       download_answer, request_member_enrolment, review_submission, Leave, tables
<1> QED
  BY <1>1, <1>4, <1>5, <1>6, <1>7, <1>8 DEF RecordsInv

LEMMA RecordsInvNext == RecordsAssumption /\ RecordsInv /\ [Next]_vars => RecordsInv'
<1> SUFFICES ASSUME RecordsAssumption, RecordsInv, [Next]_vars PROVE RecordsInv'
  OBVIOUS
<1>1. CASE UNCHANGED vars
  BY <1>1 DEF vars, tables, trail, RecordsInv, TypeOK, BusyDesksKnowTheirSeeker,
     EvidenceIsOfTheDocument, NothingOutlivesTheSeeker, RowsAreAhead, Answering, OneVerdictPerRole
<1> QED
  BY <1>1, ActsInv, ReadsInv, WritesInv DEF Next

\* The rows of the log come first, so they are never fewer than the copies.
LEMMA LogIsAhead == RecordsInv => CopiesAreLogged
<1> SUFFICES ASSUME RecordsInv, NEW s \in Seekers PROVE served[s] <= logged[s]
  BY DEF CopiesAreLogged
<1>1. IsFiniteSet(Answering(s)) /\ served[s] + Cardinality(Answering(s)) <= logged[s]
      /\ served[s] \in Nat /\ logged[s] \in Nat
  BY DEF RecordsInv, RowsAreAhead, TypeOK
<1>2. Cardinality(Answering(s)) \in Nat
  BY <1>1, FS_CardinalityType
<1> QED
  BY <1>1, <1>2

ClicksStay == \A s \in here \cap here' : \A r \in Roles : progress'[s][r].clicks >= progress[s][r].clicks

LEMMA ClicksStayNext == RecordsAssumption /\ RecordsInv /\ [Next]_vars => [ClicksStay]_vars
<1> SUFFICES ASSUME RecordsAssumption, RecordsInv, Next PROVE ClicksStay
  OBVIOUS
<1>1. progress \in [Seekers -> [Roles -> [status: Statuses, clicks: 0 .. MaxClicks]]]
  BY DEF RecordsInv, TypeOK, Progress
<1>2. here \subseteq Seekers
  BY DEF RecordsInv, TypeOK
<1>3. CASE UNCHANGED progress
  BY <1>1, <1>2, <1>3 DEF ClicksStay, RecordsAssumption
<1>4. ASSUME NEW s \in Seekers, set_application_status(s) PROVE ClicksStay
  BY <1>1, <1>2, <1>4 DEF ClicksStay, RecordsAssumption, set_application_status
<1>5. ASSUME NEW s \in Seekers, record_application_click(s) PROVE ClicksStay
  BY <1>1, <1>2, <1>5 DEF ClicksStay, RecordsAssumption, record_application_click
<1>6. ASSUME NEW s \in Seekers, delete_seeker(s) PROVE ClicksStay
  BY <1>1, <1>2, <1>6 DEF ClicksStay, RecordsAssumption, delete_seeker
<1>7. ASSUME NEW s \in Seekers, Acts(s) PROVE ClicksStay
  BY <1>3, <1>4, <1>5, <1>6, <1>7 DEF Acts, upload_resume, delete_resume, request_learning_enrolment,
     set_learning_progress, verify_learning_member, submit_capstone, record_discovery, Settle,
     mark_recommendation_clicked, record_recommendation_feedback, delete_recommendation_feedback
<1>8. ASSUME NEW d \in Desks, NEW s \in Seekers, Reads(d, s) PROVE ClicksStay
  BY <1>3, <1>8 DEF Reads, get_resume, reanalyse_read, download_read, learning_state,
     list_submissions, roles_for_seeker, tables
<1>9. ASSUME NEW d \in Desks, Writes(d) PROVE ClicksStay
  BY <1>3, <1>9 DEF Writes, correct_resume_analysis, reanalyse_write, record_resume_download,
     download_answer, request_member_enrolment, review_submission,
     record_recommendation_impressions, Leave, tables
<1> QED
  BY <1>7, <1>8, <1>9 DEF Next

\* Whatever is being read of a Seeker while it changes: what is shown of a resume is of
\* the document on file or marked late, a deletion leaves nothing, every copy handed
\* over was logged, a Role has one verdict, and counted clicks are not lost
\* (seekers_store.py, admin.py).
THEOREM RecordsHold == Spec => RecordsHangTogether
<1>1. Init => RecordsInv
  BY RecordsInvInit, RecordsAssumption
<1>2. RecordsInv /\ [Next]_vars => RecordsInv'
  BY RecordsInvNext, RecordsAssumption
<1>3. RecordsInv => /\ TypeOK /\ EvidenceIsOfTheDocument /\ NothingOutlivesTheSeeker
                    /\ CopiesAreLogged /\ OneVerdictPerRole
  BY LogIsAhead DEF RecordsInv
<1>4. RecordsInv /\ [Next]_vars => [ClicksStay]_vars
  BY ClicksStayNext, RecordsAssumption
<1>5. Spec => []RecordsInv /\ [][Next]_vars
  BY <1>1, <1>2, PTL DEF Spec
<1>6. Spec => [][ClicksStay]_vars
  BY <1>4, <1>5, PTL
<1>7. Spec => [](/\ TypeOK /\ EvidenceIsOfTheDocument /\ NothingOutlivesTheSeeker
                 /\ CopiesAreLogged /\ OneVerdictPerRole)
  BY <1>3, <1>5, PTL
<1> QED
  BY <1>6, <1>7 DEF RecordsHangTogether, ClicksAreKept, ClicksStay

----------------------------------------------------------------------------
(* The Saved Roles of a browser.                                           *)

Lift == [state: {"none", "sent", "merged"}, roles: SUBSET Bookmarks, accepted: SUBSET Bookmarks]
Tab == [as: {"closed", "visitor", "seeker"}, screen: SUBSET Bookmarks,
        load: {"none", "lift", "list", "listed"}, listed: SUBSET Bookmarks, lift: Lift]
SaveOrUnsave == [tab: Tabs, role: Bookmarks, on: BOOLEAN, state: {"sent", "done"}, n: Nat]

SavedTypes ==
    /\ tab \in [Tabs -> Tab] /\ requests \subseteq SaveOrUnsave /\ presses \in Nat
    /\ local \subseteq Bookmarks /\ accountRoles \subseteq Bookmarks

\* What a lift carries is what a visitor saved, and it or the account has whatever is
\* owed; what the account accepted of it is in the account while it is owed.
LiftsCarryWhatIsOwed ==
    \A t \in Tabs : LET lift == tab[t].lift IN
        /\ lift.roles \subseteq pressed
        /\ lift.state # "none" => owed \ crossed \subseteq lift.roles \cup accountRoles
        /\ lift.state = "merged" => lift.accepted \cap (owed \ crossed) \subseteq accountRoles

SavedInv == SavedTypes /\ SavedRolesAreKept /\ LiftsCarryWhatIsOwed

\* A tab as the actions write it.
LEMMA TabRows ==
    ASSUME NEW x \in Tab
    PROVE  /\ [x EXCEPT !.lift = NoLift, !.load = IF @ = "lift" THEN "list" ELSE @] \in Tab
           /\ [x EXCEPT !.lift = NoLift, !.load = IF @ = "lift" THEN "none" ELSE @] \in Tab
           /\ [x EXCEPT !.load = "none", !.listed = {}] \in Tab
           /\ \A roles \in SUBSET Bookmarks :
                  /\ [x EXCEPT !.screen = roles] \in Tab
                  /\ [x EXCEPT !.screen = roles, !.load = "none"] \in Tab
                  /\ [x EXCEPT !.listed = roles, !.load = "listed"] \in Tab
                  /\ [x EXCEPT !.lift.state = "merged", !.lift.accepted = roles] \in Tab
                  /\ [x EXCEPT !.screen = roles, !.load = "none", !.listed = {}] \in Tab
BY DEF Tab, Lift, NoLift

\* What those writes leave of its lift.
LEMMA LiftRows ==
    ASSUME NEW x \in Tab
    PROVE  /\ [x EXCEPT !.lift = NoLift, !.load = IF @ = "lift" THEN "list" ELSE @].lift = NoLift
           /\ [x EXCEPT !.lift = NoLift, !.load = IF @ = "lift" THEN "none" ELSE @].lift = NoLift
           /\ [x EXCEPT !.load = "none", !.listed = {}].lift = x.lift
           /\ \A roles : /\ [x EXCEPT !.screen = roles].lift = x.lift
                         /\ [x EXCEPT !.screen = roles, !.load = "none"].lift = x.lift
                         /\ [x EXCEPT !.listed = roles, !.load = "listed"].lift = x.lift
                         /\ [x EXCEPT !.screen = roles, !.load = "none", !.listed = {}].lift = x.lift
                         /\ [x EXCEPT !.lift.state = "merged", !.lift.accepted = roles].lift
                                = [state |-> "merged", roles |-> x.lift.roles, accepted |-> roles]
BY DEF Tab, Lift

LEMMA LoadingRow ==
    ASSUME SavedTypes, NEW t \in Tabs, NEW as \in {"visitor", "seeker"}
    PROVE  /\ Loading(t, as) \in Tab
           /\ Loading(t, as).lift \in {tab[t].lift, [state |-> "sent", roles |-> local, accepted |-> {}]}
<1>1. tab[t] \in Tab
  BY DEF SavedTypes
<1> QED
  BY <1>1 DEF SavedTypes, Loading, Lifting, Tab, Lift

\* The tabs that hear of a change of localStorage keep their lifts.
LEMMA ToldRows ==
    ASSUME NEW t \in Tabs, NEW roles \in SUBSET Bookmarks, NEW changed \in [Tabs -> Tab]
    PROVE  /\ Told(t, roles, changed) \in [Tabs -> Tab]
           /\ \A u \in Tabs : Told(t, roles, changed)[u].lift = changed[u].lift
<1>1. \A u \in Tabs : /\ [changed[u] EXCEPT !.screen = roles] \in Tab
                      /\ [changed[u] EXCEPT !.screen = roles].lift = changed[u].lift
  BY TabRows, LiftRows
<1> QED
  BY <1>1 DEF Told

LEMMA SavedInvInit == SavedInit => SavedInv
BY DEF SavedInit, SavedInv, SavedTypes, SavedRolesAreKept, AccountRolesStayInTheAccount,
   VisitorSavesAreKept, LiftsCarryWhatIsOwed, NewTab, NoLift, Tab, Lift, SaveOrUnsave

\* A step that leaves localStorage alone, takes from the account only what is owed no
\* more, and lets lifts begin and end.
LEMMA QuietStep ==
    ASSUME SavedInv, SavedTypes',
           UNCHANGED <<local, pressed, crossed>>, owed' \subseteq owed,
           (accountRoles \ accountRoles') \cap owed' = {},
           \A t \in Tabs : tab'[t].lift \in {tab[t].lift, NoLift,
                               [state |-> "sent", roles |-> local, accepted |-> {}]}
    PROVE  SavedInv'
<1>1. SavedRolesAreKept'
  BY DEF SavedInv, SavedRolesAreKept, AccountRolesStayInTheAccount, VisitorSavesAreKept
<1>2. ASSUME NEW t \in Tabs
      PROVE  /\ tab'[t].lift.roles \subseteq pressed
             /\ tab'[t].lift.state # "none" => owed' \ crossed \subseteq tab'[t].lift.roles \cup accountRoles'
             /\ tab'[t].lift.state = "merged" => tab'[t].lift.accepted \cap (owed' \ crossed) \subseteq accountRoles'
  <2>1. CASE tab'[t].lift = tab[t].lift
    BY <2>1 DEF SavedInv, LiftsCarryWhatIsOwed
  <2>2. CASE tab'[t].lift = NoLift
    BY <2>2 DEF NoLift
  <2>3. CASE tab'[t].lift = [state |-> "sent", roles |-> local, accepted |-> {}]
    BY <2>3 DEF SavedInv, SavedRolesAreKept, AccountRolesStayInTheAccount, VisitorSavesAreKept
  <2> QED
    BY <2>1, <2>2, <2>3
<1> QED
  BY <1>1, <1>2 DEF SavedInv, LiftsCarryWhatIsOwed

\* The account takes what is good of a lift.
LEMMA MergeStep ==
    ASSUME SavedInv, NEW t \in Tabs, MergeArrives(t)
    PROVE  SavedInv'
<1>1. PICK good \in SUBSET tab[t].lift.roles :
          /\ accountRoles' = accountRoles \cup good
          /\ tab' = [tab EXCEPT ![t] = [tab[t] EXCEPT !.lift.state = "merged", !.lift.accepted = good]]
          /\ UNCHANGED <<signedIn, local, requests, presses, pressed, owed, crossed>>
  BY ZenonT(60) DEF MergeArrives
<1>2. tab \in [Tabs -> Tab] /\ tab[t] \in Tab /\ good \subseteq Bookmarks
  BY DEF SavedInv, SavedTypes, Tab, Lift
<1>3. /\ tab' \in [Tabs -> Tab] /\ \A u \in Tabs \ {t} : tab'[u] = tab[u]
      /\ tab'[t].lift = [state |-> "merged", roles |-> tab[t].lift.roles, accepted |-> good]
  BY <1>1, <1>2, TabRows, LiftRows, ZenonT(60)
<1>4. SavedTypes'
  BY <1>1, <1>2, <1>3 DEF SavedInv, SavedTypes
<1>5. SavedRolesAreKept'
  BY <1>1 DEF SavedInv, SavedRolesAreKept, AccountRolesStayInTheAccount, VisitorSavesAreKept
<1>6. ASSUME NEW u \in Tabs
      PROVE  /\ tab'[u].lift.roles \subseteq pressed
             /\ tab'[u].lift.state # "none" => owed \ crossed \subseteq tab'[u].lift.roles \cup accountRoles'
             /\ tab'[u].lift.state = "merged" => tab'[u].lift.accepted \cap (owed \ crossed) \subseteq accountRoles'
  <2>1. CASE u = t
    BY <1>1, <1>3, <2>1 DEF SavedInv, LiftsCarryWhatIsOwed, MergeArrives
  <2>2. CASE u # t
    BY <1>1, <1>3, <2>2 DEF SavedInv, LiftsCarryWhatIsOwed
  <2> QED
    BY <2>1, <2>2
<1> QED
  BY <1>1, <1>4, <1>5, <1>6 DEF SavedInv, LiftsCarryWhatIsOwed

\* The answer: localStorage keeps what the account did not accept.
LEMMA AnswerStep ==
    ASSUME SavedInv, NEW t \in Tabs, LiftAnswers(t)
    PROVE  SavedInv'
<1> DEFINE lift == tab[t].lift
<1>1. /\ lift.state = "merged" /\ local' = lift.roles \ lift.accepted
      /\ UNCHANGED <<accountRoles, requests, presses, pressed, owed, crossed>>
      /\ tab' = Told(t, lift.roles \ lift.accepted, AfterLift(t))
  BY DEF LiftAnswers
<1>2. tab \in [Tabs -> Tab] /\ lift.roles \ lift.accepted \in SUBSET Bookmarks
  BY DEF SavedInv, SavedTypes, Tab, Lift
<1>3. AfterLift(t) \in [Tabs -> Tab] /\ \A u \in Tabs : AfterLift(t)[u].lift \in {tab[u].lift, NoLift}
  <2> DEFINE row == [tab[t] EXCEPT !.lift = NoLift, !.load = IF @ = "lift" THEN "list" ELSE @]
  <2>1. AfterLift(t) = [tab EXCEPT ![t] = row]
    BY DEF AfterLift
  <2>2. tab[t] \in Tab
    BY <1>2
  <2>3. row \in Tab /\ row.lift = NoLift
    BY <2>2, TabRows, LiftRows
  <2> HIDE DEF row
  <2> QED
    BY <1>2, <2>1, <2>3
<1>4. tab' \in [Tabs -> Tab] /\ \A u \in Tabs : tab'[u].lift \in {tab[u].lift, NoLift}
  BY <1>1, <1>2, <1>3, ToldRows, ZenonT(60)
<1>5. SavedTypes'
  BY <1>1, <1>2, <1>4 DEF SavedInv, SavedTypes
<1>6. /\ lift.roles \subseteq pressed
      /\ owed \ crossed \subseteq lift.roles \cup accountRoles
      /\ lift.accepted \cap (owed \ crossed) \subseteq accountRoles
  BY <1>1 DEF SavedInv, LiftsCarryWhatIsOwed
<1>7. SavedRolesAreKept'
  BY <1>1, <1>6 DEF SavedRolesAreKept, AccountRolesStayInTheAccount, VisitorSavesAreKept
<1>8. LiftsCarryWhatIsOwed'
  <2> SUFFICES ASSUME NEW u \in Tabs
               PROVE  /\ tab'[u].lift.roles \subseteq pressed
                      /\ tab'[u].lift.state # "none" => owed \ crossed \subseteq tab'[u].lift.roles \cup accountRoles
                      /\ tab'[u].lift.state = "merged" => tab'[u].lift.accepted \cap (owed \ crossed) \subseteq accountRoles
    BY <1>1 DEF LiftsCarryWhatIsOwed
  <2>1. CASE tab'[u].lift = NoLift
    BY <2>1 DEF NoLift
  <2>2. CASE tab'[u].lift = tab[u].lift
    BY <2>2 DEF SavedInv, LiftsCarryWhatIsOwed
  <2> QED
    BY <1>4, <2>1, <2>2
<1> QED
  BY <1>5, <1>7, <1>8 DEF SavedInv

\* A visitor's press.
LEMMA PressStep ==
    ASSUME SavedInv, NEW t \in Tabs, NEW r \in Bookmarks, ToggleLocal(t, r)
    PROVE  SavedInv'
<1> DEFINE on == r \notin tab[t].screen
           after == IF on THEN local \cup {r} ELSE local \ {r}
<1>1. /\ local' = after /\ tab' = Told(t, after, [tab EXCEPT ![t].screen = Flip(t, r)])
      /\ pressed' = IF on THEN pressed \cup {r} ELSE pressed
      /\ owed' = IF on THEN owed \cup {r} ELSE owed \ {r}
      /\ crossed' = IF on /\ \E u \in Tabs : Lifting(u) THEN crossed \cup {r} ELSE crossed
      /\ presses' = presses + 1 /\ UNCHANGED <<accountRoles, requests>>
  BY DEF ToggleLocal
<1>2. /\ tab \in [Tabs -> Tab] /\ after \in SUBSET Bookmarks /\ Flip(t, r) \in SUBSET Bookmarks
  BY DEF SavedInv, SavedTypes, Tab, Flip
<1>3. /\ [tab EXCEPT ![t].screen = Flip(t, r)] \in [Tabs -> Tab]
      /\ \A u \in Tabs : [tab EXCEPT ![t].screen = Flip(t, r)][u].lift = tab[u].lift
  <2> DEFINE row == [tab[t] EXCEPT !.screen = Flip(t, r)]
  <2>1. [tab EXCEPT ![t].screen = Flip(t, r)] = [tab EXCEPT ![t] = row] /\ tab[t] \in Tab
    BY <1>2
  <2>2. row \in Tab /\ row.lift = tab[t].lift
    BY <1>2, <2>1, TabRows, LiftRows
  <2> HIDE DEF row
  <2> QED
    BY <1>2, <2>1, <2>2
<1>4. tab' \in [Tabs -> Tab] /\ \A u \in Tabs : tab'[u].lift = tab[u].lift
  BY <1>1, <1>2, <1>3, ToldRows
<1>5. SavedTypes'
  <2>1. local' \subseteq Bookmarks
    BY <1>1, <1>2
  <2>2. presses' \in Nat /\ requests' \subseteq SaveOrUnsave /\ accountRoles' \subseteq Bookmarks
    BY <1>1 DEF SavedInv, SavedTypes
  <2> QED
    BY <1>4, <2>1, <2>2 DEF SavedTypes
<1>6. SavedRolesAreKept'
  BY <1>1 DEF SavedInv, SavedRolesAreKept, AccountRolesStayInTheAccount, VisitorSavesAreKept
<1>7. LiftsCarryWhatIsOwed'
  <2>1. CASE \E u \in Tabs : Lifting(u)
    <3>1. owed' \ crossed' \subseteq owed \ crossed /\ pressed \subseteq pressed'
      BY <1>1, <2>1
    <3> QED
      BY <1>1, <1>4, <3>1 DEF SavedInv, LiftsCarryWhatIsOwed
  <2>2. CASE \A u \in Tabs : ~Lifting(u)
    BY <1>1, <1>4, <2>2 DEF SavedInv, LiftsCarryWhatIsOwed, Lifting
  <2> QED
    BY <2>1, <2>2
<1> QED
  BY <1>5, <1>6, <1>7 DEF SavedInv

\* Every other step is quiet.
LEMMA SavedInvNext == SavedInv /\ [SavedNext]_savedVars => SavedInv'
<1> SUFFICES ASSUME SavedInv, [SavedNext]_savedVars PROVE SavedInv'
  OBVIOUS
<1>0. /\ tab \in [Tabs -> Tab] /\ requests \subseteq SaveOrUnsave /\ presses \in Nat
      /\ local \subseteq Bookmarks /\ accountRoles \subseteq Bookmarks
  BY DEF SavedInv, SavedTypes
<1>1. ASSUME NEW t \in Tabs, NEW row \in Tab, tab' = [tab EXCEPT ![t] = row],
             row.lift \in {tab[t].lift, NoLift, [state |-> "sent", roles |-> local, accepted |-> {}]},
             UNCHANGED <<local, accountRoles, pressed, owed, crossed>>,
             requests' \subseteq SaveOrUnsave, presses' \in Nat
      PROVE  SavedInv'
  <2>1. SavedTypes'
    BY <1>0, <1>1 DEF SavedTypes
  <2>2. \A u \in Tabs : tab'[u].lift \in {tab[u].lift, NoLift,
                             [state |-> "sent", roles |-> local, accepted |-> {}]}
    BY <1>0, <1>1
  <2> QED
    BY <1>1, <2>1, <2>2, QuietStep
<1>2. ASSUME NEW t \in Tabs, TabOpens(t) \/ SignIn(t) \/ TabSignsOut(t) PROVE SavedInv'
  <2>1. PICK as \in {"visitor", "seeker"} : tab' = [tab EXCEPT ![t] = Loading(t, as)]
    BY <1>2 DEF TabOpens, SignIn, TabSignsOut
  <2>2. /\ Loading(t, as) \in Tab
        /\ Loading(t, as).lift \in {tab[t].lift, [state |-> "sent", roles |-> local, accepted |-> {}]}
    BY LoadingRow DEF SavedInv
  <2>3. UNCHANGED <<local, accountRoles, pressed, owed, crossed, requests, presses>>
    BY <1>2 DEF TabOpens, SignIn, TabSignsOut
  <2> QED
    BY <1>0, <1>1, <2>1, <2>2, <2>3
<1>3. ASSUME NEW t \in Tabs,
             LiftFails(t) \/ ListLocal(t) \/ ListArrives(t) \/ ListAnswers(t) \/ ListFails(t)
      PROVE  SavedInv'
  <2>1. tab[t] \in Tab /\ tab[t].listed \in SUBSET Bookmarks
    BY <1>0 DEF Tab
  <2>2. UNCHANGED <<local, accountRoles, pressed, owed, crossed, requests, presses>>
    BY <1>3 DEF LiftFails, ListLocal, ListArrives, ListAnswers, ListFails
  <2>3. CASE LiftFails(t)
    <3> DEFINE row == [tab[t] EXCEPT !.lift = NoLift, !.load = IF @ = "lift" THEN "none" ELSE @]
    <3>1. row \in Tab /\ row.lift = NoLift
      BY <1>0, <2>1, TabRows, LiftRows
    <3>2. tab' = [tab EXCEPT ![t] = row]
      BY <2>3 DEF LiftFails
    <3> HIDE DEF row
    <3> QED
      BY <1>0, <1>1, <2>2, <3>1, <3>2
  <2>4. CASE ListLocal(t)
    <3> DEFINE row == [tab[t] EXCEPT !.screen = local, !.load = "none"]
    <3>1. row \in Tab /\ row.lift = tab[t].lift
      BY <1>0, <2>1, TabRows, LiftRows
    <3>2. tab' = [tab EXCEPT ![t] = row]
      BY <2>4 DEF ListLocal
    <3> HIDE DEF row
    <3> QED
      BY <1>0, <1>1, <2>2, <3>1, <3>2
  <2>5. CASE ListArrives(t)
    <3> DEFINE row == [tab[t] EXCEPT !.listed = accountRoles, !.load = "listed"]
    <3>1. row \in Tab /\ row.lift = tab[t].lift
      BY <1>0, <2>1, TabRows, LiftRows
    <3>2. tab' = [tab EXCEPT ![t] = row]
      BY <2>5 DEF ListArrives
    <3> HIDE DEF row
    <3> QED
      BY <1>0, <1>1, <2>2, <3>1, <3>2
  <2>6. CASE ListAnswers(t)
    <3> DEFINE row == [tab[t] EXCEPT !.screen = tab[t].listed, !.load = "none", !.listed = {}]
    <3>1. row \in Tab /\ row.lift = tab[t].lift
      BY <1>0, <2>1, TabRows, LiftRows
    <3>2. tab' = [tab EXCEPT ![t] = row]
      BY <2>6 DEF ListAnswers
    <3> HIDE DEF row
    <3> QED
      BY <1>0, <1>1, <2>2, <3>1, <3>2
  <2>7. CASE ListFails(t)
    <3> DEFINE row == [tab[t] EXCEPT !.load = "none", !.listed = {}]
    <3>1. row \in Tab /\ row.lift = tab[t].lift
      BY <1>0, <2>1, TabRows, LiftRows
    <3>2. tab' = [tab EXCEPT ![t] = row]
      BY <2>7 DEF ListFails
    <3> HIDE DEF row
    <3> QED
      BY <1>0, <1>1, <2>2, <3>1, <3>2
  <2> QED
    BY <1>3, <2>3, <2>4, <2>5, <2>6, <2>7
<1>4. ASSUME NEW t \in Tabs, NEW r \in Bookmarks, ToggleAccount(t, r) PROVE SavedInv'
  <2> DEFINE row == [tab[t] EXCEPT !.screen = Flip(t, r)]
  <2>1. tab[t] \in Tab /\ Flip(t, r) \in SUBSET Bookmarks
    BY <1>0 DEF Tab, Flip
  <2>2. row \in Tab /\ row.lift = tab[t].lift
    BY <2>1, TabRows, LiftRows
  <2>3. tab' = [tab EXCEPT ![t] = row] /\ UNCHANGED <<local, accountRoles, pressed, owed, crossed>>
    BY <1>4 DEF ToggleAccount
  <2>4. requests' \subseteq SaveOrUnsave /\ presses' \in Nat
    <3>1. [tab |-> t, role |-> r, on |-> r \notin tab[t].screen, state |-> "sent", n |-> presses] \in SaveOrUnsave
      BY <1>0 DEF SaveOrUnsave
    <3> QED
      BY <1>0, <1>4, <3>1 DEF ToggleAccount
  <2> HIDE DEF row
  <2> QED
    BY <1>1, <2>2, <2>3, <2>4
<1>5. ASSUME NEW q \in requests, Arrive(q) PROVE SavedInv'
  <2>1. q \in SaveOrUnsave /\ [q EXCEPT !.state = "done"] \in SaveOrUnsave
    BY <1>0 DEF SaveOrUnsave
  <2>2. SavedTypes'
    BY <1>0, <1>5, <2>1 DEF Arrive, SavedTypes, SaveOrUnsave
  <2> QED
    BY <1>5, <2>2, QuietStep DEF Arrive
<1>6. ASSUME NEW q \in requests, Confirm(q) PROVE SavedInv'
  <2>1. SavedTypes'
    BY <1>0, <1>6 DEF Confirm, SavedTypes
  <2> QED
    BY <1>6, <2>1, QuietStep DEF Confirm
<1>7. ASSUME NEW q \in requests, Fail(q) PROVE SavedInv'
  <2> DEFINE row == [tab[q.tab] EXCEPT !.screen = TakenBack(q)]
  <2>1. q.tab \in Tabs /\ q.role \in Bookmarks /\ tab[q.tab] \in Tab
    BY <1>0 DEF SaveOrUnsave
  <2>2. TakenBack(q) \in SUBSET Bookmarks
    BY <2>1 DEF TakenBack, Tab
  <2>3. row \in Tab /\ row.lift = tab[q.tab].lift
    BY <2>1, <2>2, TabRows, LiftRows
  <2>4. /\ tab' = [tab EXCEPT ![q.tab] = row] /\ requests' \subseteq SaveOrUnsave /\ presses' = presses
        /\ UNCHANGED <<local, accountRoles, pressed, owed, crossed>>
    BY <1>0, <1>7 DEF Fail
  <2> HIDE DEF row
  <2> QED
    BY <1>0, <1>1, <2>1, <2>3, <2>4
<1>8. ASSUME NEW r \in Bookmarks, Elsewhere(r) PROVE SavedInv'
  <2>1. SavedTypes'
    BY <1>0, <1>8 DEF Elsewhere, SavedTypes
  <2> QED
    BY <1>8, <2>1, QuietStep DEF Elsewhere
<1>9. CASE UNCHANGED savedVars
  <2>1. SavedTypes'
    BY <1>0, <1>9 DEF SavedTypes, savedVars
  <2> QED
    BY <1>9, <2>1, QuietStep DEF savedVars
<1> QED
  BY <1>2, <1>3, <1>4, <1>5, <1>6, <1>7, <1>8, <1>9, MergeStep, AnswerStep, PressStep DEF SavedNext

\* What is in localStorage a visitor has saved there, and what a visitor saved is in the
\* browser or the account until somebody unsaves it, however tabs, lifts and lost
\* answers overlap (store.ts, liftLocalRolesIntoAccount).
THEOREM SavedForGood == SavedSpec => []SavedRolesAreKept
<1>1. SavedInv => SavedRolesAreKept
  BY DEF SavedInv
<1> QED
  BY <1>1, SavedInvInit, SavedInvNext, PTL DEF SavedSpec
===============================================================================
