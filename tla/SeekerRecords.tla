----------------------------- MODULE SeekerRecords -----------------------------
(***************************************************************************)
(* What seekers.db keeps of a Seeker besides the account: the resume with   *)
(* what was read from it and how the Seeker corrected that, courses and the *)
(* capstone with its review, and the signals behind recommendations.  A     *)
(* table is written by one statement or transaction at a time, but most     *)
(* writers act on what they read earlier: a staff member reviews the links  *)
(* of a list, the Seeker corrects the page that was loaded, a script        *)
(* re-analyses the files it has copied out, a feed is ranked before its     *)
(* impressions are stored.  Such a reader is a desk: it reads, and later    *)
(* writes.                                                                  *)
(*                                                                         *)
(* The shelves do not refer to each other, so a behaviour is about one of   *)
(* them (`shelf`).  Documents and capstones are numbered as they come.      *)
(***************************************************************************)
EXTENDS Naturals, FiniteSets

CONSTANTS
    Seekers, Desks, Courses, MemberCourses, Roles, Queries,
    MaxVersion,     \* bound: documents or capstones handed in
    MaxClicks,      \* bound: apply links opened
    None

ASSUME RecordsAssumption ==
    /\ MaxVersion \in Nat /\ MaxClicks \in Nat
    /\ MemberCourses \subseteq Courses
    /\ None \notin Seekers \cup Queries

VARIABLES
    shelf,          \* what this behaviour is about
    here,           \* rows of seekers
    resume,         \* row of seeker_resumes
    capstone,       \* row of learning_submissions
    learning,       \* rows of learning_enrolments and learning_memberships
    profile,        \* rows of the recommendation tables
    progress,       \* rows of seeker_role_applications
    versions,       \* documents or capstones so far
    desk,           \* what each reader has read
    logged, served  \* resume files: download rows written, copies handed over

tables == <<resume, capstone, learning, profile, progress>>
trail == <<logged, served>>
vars == <<shelf, here, tables, versions, desk, trail>>

NoResume == [doc |-> 0, read |-> 0, fixed |-> 0, late |-> FALSE]
NoCapstone == [work |-> 0, reviewed |-> 0]
NoLearning == [enrolled |-> {}, steps |-> [c \in Courses |-> 0], member |-> FALSE]
NoProfile == [query |-> None, recent |-> FALSE, searches |-> 0, shown |-> {}, clicked |-> {},
              liked |-> {}, refused |-> {}]
NoProgress == [r \in Roles |-> [status |-> "none", clicks |-> 0]]
AtRest == [for |-> "none", seeker |-> None, seen |-> 0, step |-> "read"]

Init ==
    /\ shelf \in {"resume", "learning", "profile"}
    /\ here = Seekers
    /\ resume = [s \in Seekers |-> NoResume]
    /\ capstone = [s \in Seekers |-> NoCapstone]
    /\ learning = [s \in Seekers |-> NoLearning]
    /\ profile = [s \in Seekers |-> NoProfile]
    /\ progress = [s \in Seekers |-> NoProgress]
    /\ versions = 0
    /\ desk = [d \in Desks |-> AtRest]
    /\ logged = [s \in Seekers |-> 0] /\ served = [s \in Seekers |-> 0]

Resting(d) == desk[d] = AtRest
Sits(d, for, s, seen) == desk' = [desk EXCEPT ![d] =
    [for |-> for, seeker |-> s, seen |-> seen, step |-> "write"]]
Rises(d) == desk' = [desk EXCEPT ![d] = AtRest]
Busy(d, for) == desk[d].for = for
Same == UNCHANGED <<shelf, here>>
\* The foreign key on seekers: a row is stored for an account that exists.
Stored(s) == s \in here

----------------------------------------------------------------------------
(* The resume.                                                             *)

\* The document, its extraction, and no corrections, in one statement.
replace_resume(s) ==
    /\ resume' = [resume EXCEPT ![s] =
           [doc |-> versions + 1, read |-> versions + 1, fixed |-> 0, late |-> FALSE]]

\* upload_resume: parsed and analysed whole before it is stored.
upload_resume(s) ==
    /\ shelf = "resume" /\ Stored(s) /\ versions < MaxVersion
    /\ replace_resume(s)
    /\ versions' = versions + 1
    /\ UNCHANGED <<capstone, learning, profile, progress, desk, trail>> /\ Same

delete_resume(s) ==
    /\ shelf = "resume" /\ resume[s].doc # 0
    /\ resume' = [resume EXCEPT ![s] = NoResume]
    /\ UNCHANGED <<capstone, learning, profile, progress, versions, desk, trail>> /\ Same

\* The account page shows what was read, and the Seeker corrects it.
get_resume(d, s) ==
    /\ shelf = "resume" /\ Resting(d) /\ resume[s].doc # 0
    /\ Sits(d, "correction", s, resume[s].doc)
    /\ UNCHANGED <<tables, versions, trail>> /\ Same

\* set_resume_analysis_override: an UPDATE of whatever document is there now.
correct_resume_analysis(d) ==
    /\ Busy(d, "correction")
    /\ LET s == desk[d].seeker  old == desk[d].seen IN
       resume' = IF resume[s].doc = 0 THEN resume
                 ELSE [resume EXCEPT ![s].fixed = old, ![s].late = @ \/ resume[s].doc # old]
    /\ Rises(d)
    /\ UNCHANGED <<capstone, learning, profile, progress, versions, trail>> /\ Same

\* reanalyse_resumes.py copies the files out and parses them ...
reanalyse_read(d, s) ==
    /\ shelf = "resume" /\ Resting(d) /\ resume[s].doc # 0
    /\ Sits(d, "reanalysis", s, resume[s].doc)
    /\ UNCHANGED <<tables, versions, trail>> /\ Same

\* ... and writes what they said by account, whatever document is there now.
reanalyse_write(d) ==
    /\ Busy(d, "reanalysis")
    /\ LET s == desk[d].seeker  old == desk[d].seen IN
       resume' = IF resume[s].doc = 0 THEN resume
                 ELSE [resume EXCEPT ![s].read = old, ![s].late = @ \/ resume[s].doc # old]
    /\ Rises(d)
    /\ UNCHANGED <<capstone, learning, profile, progress, versions, trail>> /\ Same

\* download_seeker_resume: the file is read ...
download_read(d, s) ==
    /\ shelf = "resume" /\ Resting(d) /\ s \in here /\ resume[s].doc # 0
    /\ logged[s] < MaxVersion
    /\ Sits(d, "download", s, resume[s].doc)
    /\ UNCHANGED <<tables, versions, trail>> /\ Same

\* ... the log is written first, and it has no foreign key ...
record_resume_download(d) ==
    /\ Busy(d, "download") /\ desk[d].step = "write"
    /\ logged' = [logged EXCEPT ![desk[d].seeker] = @ + 1]
    /\ desk' = [desk EXCEPT ![d].step = "answer"]
    /\ UNCHANGED <<tables, versions, served>> /\ Same

\* ... and then the copy read above is handed over.
download_answer(d) ==
    /\ Busy(d, "download") /\ desk[d].step = "answer"
    /\ served' = [served EXCEPT ![desk[d].seeker] = @ + 1]
    /\ Rises(d)
    /\ UNCHANGED <<tables, versions, logged>> /\ Same

----------------------------------------------------------------------------
(* Courses and the capstone.                                               *)

\* learning_state, which a member course asks first.
learning_state(d, s) ==
    /\ shelf = "learning" /\ Resting(d) /\ learning[s].member
    /\ Sits(d, "enrolment", s, 0)
    /\ UNCHANGED <<tables, versions, trail>> /\ Same

Enrol(s, c) == learning' = [learning EXCEPT ![s].enrolled = @ \cup {c}]

\* INSERT OR IGNORE: asking again keeps the progress.
request_learning_enrolment(s) ==
    /\ shelf = "learning" /\ Stored(s)
    /\ \E c \in Courses \ MemberCourses : Enrol(s, c)
    /\ UNCHANGED <<resume, capstone, profile, progress, versions, desk, trail>> /\ Same

request_member_enrolment(d) ==
    /\ Busy(d, "enrolment")
    /\ IF Stored(desk[d].seeker)
       THEN \E c \in MemberCourses : Enrol(desk[d].seeker, c)
       ELSE UNCHANGED learning
    /\ Rises(d)
    /\ UNCHANGED <<resume, capstone, profile, progress, versions, trail>> /\ Same

set_learning_progress(s) ==
    /\ shelf = "learning"
    /\ \E c \in learning[s].enrolled : \E n \in 0 .. 3 :
           learning' = [learning EXCEPT ![s].steps[c] = n]
    /\ UNCHANGED <<resume, capstone, profile, progress, versions, desk, trail>> /\ Same

verify_learning_member(s) ==
    /\ shelf = "learning" /\ Stored(s)
    /\ learning' = [learning EXCEPT ![s].member = TRUE]
    /\ UNCHANGED <<resume, capstone, profile, progress, versions, desk, trail>> /\ Same

\* Create or replace; replacing clears the review.
submit_capstone(s) ==
    /\ shelf = "learning" /\ Stored(s) /\ versions < MaxVersion
    /\ capstone' = [capstone EXCEPT ![s] = [work |-> versions + 1, reviewed |-> 0]]
    /\ versions' = versions + 1
    /\ UNCHANGED <<resume, learning, profile, progress, desk, trail>> /\ Same

\* A staff member opens the links of the queue ...
list_submissions(d, s) ==
    /\ shelf = "learning" /\ Resting(d) /\ capstone[s].work # 0
    /\ Sits(d, "review", s, capstone[s].work)
    /\ UNCHANGED <<tables, versions, trail>> /\ Same

\* ... and attaches a review to whatever work is there now.
review_submission(d) ==
    /\ Busy(d, "review")
    /\ LET s == desk[d].seeker IN
       capstone' = IF capstone[s].work = 0 THEN capstone
                   ELSE [capstone EXCEPT ![s].reviewed = desk[d].seen]
    /\ Rises(d)
    /\ UNCHANGED <<resume, learning, profile, progress, versions, trail>> /\ Same

----------------------------------------------------------------------------
(* The signals behind recommendations.                                     *)

\* A settled search; the same one again within five minutes is a refresh.
record_discovery(s) ==
    /\ shelf = "profile" /\ Stored(s)
    /\ \E q \in Queries : LET again == profile[s].query = q /\ profile[s].recent IN
           /\ ~again /\ profile[s].searches < MaxClicks
           /\ profile' = [profile EXCEPT ![s].query = q, ![s].recent = TRUE, ![s].searches = @ + 1]
    /\ UNCHANGED <<resume, capstone, learning, progress, versions, desk, trail>> /\ Same

\* Five minutes pass.
Settle(s) ==
    /\ profile[s].recent
    /\ profile' = [profile EXCEPT ![s].recent = FALSE]
    /\ UNCHANGED <<resume, capstone, learning, progress, versions, desk, trail>> /\ Same

HasEvidence(s) == profile[s].searches > 0 \/ profile[s].liked # {} \/ profile[s].clicked # {}

\* rank_for_seeker: a feed is ranked when there is evidence ...
roles_for_seeker(d, s) ==
    /\ shelf = "profile" /\ Resting(d) /\ HasEvidence(s)
    /\ Sits(d, "feed", s, 0)
    /\ UNCHANGED <<tables, versions, trail>> /\ Same

\* ... and what it shows is stored as a batch, or refused with the account.
record_recommendation_impressions(d) ==
    /\ Busy(d, "feed")
    /\ LET s == desk[d].seeker IN
       IF Stored(s)
       THEN \E items \in SUBSET Roles \ {{}} :
                profile' = [profile EXCEPT ![s].shown = @ \cup items]
       ELSE UNCHANGED profile
    /\ Rises(d)
    /\ UNCHANGED <<resume, capstone, learning, progress, versions, trail>> /\ Same

\* `clicked`: Roles with an opened impression; the newest is marked, if there is one.
mark_recommendation_clicked(s) ==
    /\ shelf = "profile"
    /\ \E r \in profile[s].shown : profile' = [profile EXCEPT ![s].clicked = @ \cup {r}]
    /\ UNCHANGED <<resume, capstone, learning, progress, versions, desk, trail>> /\ Same

\* more_like and not_interested replace each other.
Judge(p, r, action) ==
    IF action = "more_like"
    THEN [p EXCEPT !.liked = @ \cup {r}, !.refused = @ \ {r}]
    ELSE [p EXCEPT !.liked = @ \ {r}, !.refused = @ \cup {r}]

record_recommendation_feedback(s) ==
    /\ shelf = "profile" /\ Stored(s)
    /\ \E r \in Roles : \E action \in {"more_like", "not_interested"} :
           profile' = [profile EXCEPT ![s] = Judge(@, r, action)]
    /\ UNCHANGED <<resume, capstone, learning, progress, versions, desk, trail>> /\ Same

delete_recommendation_feedback(s) ==
    /\ shelf = "profile"
    /\ \E r \in Roles :
           \/ r \in profile[s].liked /\ profile' = [profile EXCEPT ![s].liked = @ \ {r}]
           \/ r \in profile[s].refused /\ profile' = [profile EXCEPT ![s].refused = @ \ {r}]
    /\ UNCHANGED <<resume, capstone, learning, progress, versions, desk, trail>> /\ Same

Statuses == {"none", "applied", "offer"}

\* The Seeker's own word, beside the clicks that were counted.
set_application_status(s) ==
    /\ shelf = "profile" /\ Stored(s)
    /\ \E r \in Roles : \E status \in Statuses :
           progress' = [progress EXCEPT ![s][r].status = status]
    /\ UNCHANGED <<resume, capstone, learning, profile, versions, desk, trail>> /\ Same

record_application_click(s) ==
    /\ shelf = "profile" /\ Stored(s)
    /\ \E r \in Roles : progress[s][r].clicks < MaxClicks
                        /\ progress' = [progress EXCEPT ![s][r].clicks = @ + 1]
    /\ UNCHANGED <<resume, capstone, learning, profile, versions, desk, trail>> /\ Same

----------------------------------------------------------------------------

\* Mutant of delete_seeker: only the tables it names, and no cascade.
delete_named_tables(s) ==
    /\ s \in here /\ here' = here \ {s}
    /\ resume' = [resume EXCEPT ![s] = NoResume]
    /\ profile' = [profile EXCEPT ![s] = NoProfile]
    /\ progress' = [progress EXCEPT ![s] = NoProgress]
    /\ UNCHANGED <<shelf, capstone, learning, versions, desk, trail>>

\* One transaction.  It names most tables; the courses, the capstone and the
\* membership go with the row they reference.  The download log stays.
delete_seeker(s) ==
    /\ s \in here /\ here' = here \ {s}
    /\ resume' = [resume EXCEPT ![s] = NoResume]
    /\ capstone' = [capstone EXCEPT ![s] = NoCapstone]
    /\ learning' = [learning EXCEPT ![s] = NoLearning]
    /\ profile' = [profile EXCEPT ![s] = NoProfile]
    /\ progress' = [progress EXCEPT ![s] = NoProgress]
    /\ UNCHANGED <<shelf, versions, desk, trail>>

\* The process or the script dies, or the page is closed.
Leave(d) ==
    /\ ~Resting(d) /\ Rises(d)
    /\ UNCHANGED <<tables, versions, trail>> /\ Same

Acts(s) ==
    \/ upload_resume(s) \/ delete_resume(s)
    \/ request_learning_enrolment(s) \/ set_learning_progress(s) \/ verify_learning_member(s)
    \/ submit_capstone(s)
    \/ record_discovery(s) \/ Settle(s) \/ mark_recommendation_clicked(s)
    \/ record_recommendation_feedback(s) \/ delete_recommendation_feedback(s)
    \/ set_application_status(s) \/ record_application_click(s)
    \/ delete_seeker(s)

Reads(d, s) ==
    \/ get_resume(d, s) \/ reanalyse_read(d, s) \/ download_read(d, s)
    \/ learning_state(d, s) \/ list_submissions(d, s) \/ roles_for_seeker(d, s)

Writes(d) ==
    \/ correct_resume_analysis(d) \/ reanalyse_write(d)
    \/ record_resume_download(d) \/ download_answer(d)
    \/ request_member_enrolment(d) \/ review_submission(d)
    \/ record_recommendation_impressions(d)
    \/ Leave(d)

Next ==
    \/ \E s \in Seekers : Acts(s) \/ \E d \in Desks : Reads(d, s)
    \/ \E d \in Desks : Writes(d)

Spec == Init /\ [][Next]_vars

----------------------------------------------------------------------------
(* Properties.                                                             *)

Resume == [doc: 0 .. MaxVersion, read: 0 .. MaxVersion, fixed: 0 .. MaxVersion, late: BOOLEAN]
Capstone == [work: 0 .. MaxVersion, reviewed: 0 .. MaxVersion]
Learning == [enrolled: SUBSET Courses, steps: [Courses -> 0 .. 3], member: BOOLEAN]
Profile == [query: Queries \cup {None}, recent: BOOLEAN, searches: 0 .. MaxClicks,
            shown: SUBSET Roles, clicked: SUBSET Roles, liked: SUBSET Roles, refused: SUBSET Roles]
Progress == [Roles -> [status: Statuses, clicks: 0 .. MaxClicks]]
Desk == [for: {"none", "correction", "reanalysis", "download", "enrolment", "review", "feed"},
         seeker: Seekers \cup {None}, seen: 0 .. MaxVersion, step: {"read", "write", "answer"}]

TypeOK ==
    /\ shelf \in {"resume", "learning", "profile"} /\ here \subseteq Seekers
    /\ resume \in [Seekers -> Resume] /\ capstone \in [Seekers -> Capstone]
    /\ learning \in [Seekers -> Learning] /\ profile \in [Seekers -> Profile]
    /\ progress \in [Seekers -> Progress]
    /\ versions \in 0 .. MaxVersion /\ desk \in [Desks -> Desk]
    /\ logged \in [Seekers -> Nat] /\ served \in [Seekers -> Nat]

\* What is shown as read from a resume, and how the Seeker corrected it, is of the
\* document on file; only a writer that had read an earlier one and wrote after its
\* replacement can leave it otherwise (replace_resume: "a fresh extraction").
EvidenceIsOfTheDocument ==
    \A s \in Seekers : LET r == resume[s] IN
        r.doc # 0 /\ ~r.late => r.read = r.doc /\ r.fixed \in {0, r.doc}

\* A deletion leaves nothing, whatever was being read of the Seeker at the time.
NothingOutlivesTheSeeker ==
    \A s \in Seekers \ here :
        /\ resume[s] = NoResume /\ capstone[s] = NoCapstone /\ learning[s] = NoLearning
        /\ profile[s] = NoProfile /\ progress[s] = NoProgress

\* No copy of a resume leaves without a row in the log, restarts and deletions
\* included (admin.py: "no unlogged copy leaves the server").
CopiesAreLogged == \A s \in Seekers : served[s] <= logged[s]

\* A Role is wanted or refused, and never both, in whatever order the Seeker says so.
OneVerdictPerRole == \A s \in Seekers : profile[s].liked \cap profile[s].refused = {}

\* What was counted of an application is never lost to the Seeker's own entries.
ClicksAreKept ==
    [][\A s \in here \cap here' : \A r \in Roles : progress'[s][r].clicks >= progress[s][r].clicks]_vars
\* The records of a Seeker agree with each other and with the Seeker being there.
RecordsHangTogether ==
    /\ [](/\ TypeOK /\ EvidenceIsOfTheDocument /\ NothingOutlivesTheSeeker
          /\ CopiesAreLogged /\ OneVerdictPerRole)
    /\ ClicksAreKept
=============================================================================
