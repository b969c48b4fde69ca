--------------------------- MODULE SubmissionQueue ---------------------------
(***************************************************************************)
(* The moderation queue of recruiter submissions: main.py appends one line *)
(* to submitted_roles.jsonl for every POST /api/post-role, and an admin's  *)
(* approval or rejection (admin.py, or scripts/review_submissions.py) reads *)
(* the whole file, decides one row, and rewrites the whole file through a  *)
(* temporary file that all of them share (submissions.save_queue).         *)
(*                                                                         *)
(* A file is an inode with lines; a path names an inode.  That is what      *)
(* tells a rename from a write: whoever opened the inode before the rename  *)
(* still holds it.                                                         *)
(***************************************************************************)
EXTENDS Sequences, SequencesExt, FiniteSets

CONSTANTS
    Submissions,    \* the Roles recruiters submit, each once
    Admins,         \* requests (or review scripts) that decide submissions
    Inodes,         \* files of the data directory
    None

ASSUME InodesAssumption == None \notin Inodes /\ Cardinality(Inodes) >= Cardinality(Admins) + 2

Statuses == {"pending", "approved", "rejected"}
Line == [id: Submissions, status: Statuses]
Verdicts == {"approved", "rejected"}

VARIABLES
    lines,      \* the lines of each inode
    whole,      \* FALSE from the moment an inode is opened for writing until
                \* its lines are written
    queue,      \* the inode of submitted_roles.jsonl
    tmp,        \* the inode of submitted_roles.jsonl.tmp, or None
    board,      \* the direct Roles of jobs.db
    request,    \* each submission's request: unsent, appending or answered
    appendTo,   \* the inode a request has opened for appending
    pc,         \* where each admin's request is
    rows,       \* the rows it has loaded, with its decision once made
    choice,     \* the submission and the verdict it is about
    tmpOf       \* the inode it has opened for writing

submissionVars == <<lines, whole, queue, tmp, board, request, appendTo, pc, rows, choice, tmpOf>>
diskVars == <<lines, whole, queue, tmp>>
adminVars == <<pc, rows, choice, tmpOf>>

IdsOf(seq) == {line.id : line \in ToSet(seq)}
Queued == IdsOf(lines[queue])

SubmissionsInit ==
    /\ queue \in Inodes
    /\ lines = [i \in Inodes |-> <<>>]
    /\ whole = [i \in Inodes |-> TRUE]
    /\ tmp = None
    /\ board = {}
    /\ request = [s \in Submissions |-> "unsent"]
    /\ appendTo = [s \in Submissions |-> None]
    /\ pc = [a \in Admins |-> "idle"]
    /\ rows = [a \in Admins |-> <<>>]
    /\ choice = [a \in Admins |-> None]
    /\ tmpOf = [a \in Admins |-> None]

----------------------------------------------------------------------------
(* POST /api/post-role: _persist opens the file for appending and writes.  *)

OpenAppend(s) ==
    /\ request[s] = "unsent"
    /\ request' = [request EXCEPT ![s] = "appending"]
    /\ appendTo' = [appendTo EXCEPT ![s] = queue]
    /\ UNCHANGED <<diskVars, board, adminVars>>

\* The line goes to the end of the inode that was opened: nowhere, when a rename
\* has taken its name away.  The notification is sent, the recruiter answered.
Append1(s) ==
    /\ request[s] = "appending"
    /\ lines' = IF appendTo[s] = queue
                THEN [lines EXCEPT ![queue] = Append(@, [id |-> s, status |-> "pending"])]
                ELSE lines
    /\ request' = [request EXCEPT ![s] = "answered"]
    /\ appendTo' = [appendTo EXCEPT ![s] = None]
    /\ UNCHANGED <<whole, queue, tmp, board, adminVars>>

\* The write fails: without a notification either, the recruiter gets a 500.
AppendFails(s) ==
    /\ request[s] = "appending"
    /\ request' = [request EXCEPT ![s] = "failed"]
    /\ appendTo' = [appendTo EXCEPT ![s] = None]
    /\ UNCHANGED <<diskVars, board, adminVars>>

----------------------------------------------------------------------------
(* Approving and rejecting.                                                *)

\* Back to the start with nothing held: a 404, a 500, an early return, a reply.
Idle(a) ==
    /\ pc' = [pc EXCEPT ![a] = "idle"]
    /\ rows' = [rows EXCEPT ![a] = <<>>]
    /\ choice' = [choice EXCEPT ![a] = None]
    /\ tmpOf' = [tmpOf EXCEPT ![a] = None]

\* load_queue, find_by_source_id and the early return of an approved row.
Load(a, s, verdict) ==
    /\ pc[a] = "idle"
    /\ \E i \in DOMAIN lines[queue] :
        /\ lines[queue][i].id = s
        /\ \A j \in 1 .. i - 1 : lines[queue][j].id # s
        /\ ~(verdict = "approved" /\ lines[queue][i].status = "approved")
        /\ choice' = [choice EXCEPT ![a] = [at |-> i, id |-> s, verdict |-> verdict]]
    /\ rows' = [rows EXCEPT ![a] = lines[queue]]
    /\ pc' = [pc EXCEPT ![a] = "decide"]
    /\ UNCHANGED <<diskVars, board, request, appendTo, tmpOf>>

\* Mutant of Decide: the row is marked and the Role never inserted.
MarkOnly(a) ==
    /\ pc[a] = "decide"
    /\ rows' = [rows EXCEPT ![a][choice[a].at].status = choice[a].verdict]
    /\ pc' = [pc EXCEPT ![a] = "save"]
    /\ UNCHANGED <<diskVars, board, request, appendTo, choice, tmpOf>>

\* approve_submission inserts the Role, or finds it there; then the row is
\* marked in memory.
Decide(a) ==
    /\ pc[a] = "decide"
    /\ board' = IF choice[a].verdict = "approved" THEN board \cup {choice[a].id} ELSE board
    /\ rows' = [rows EXCEPT ![a][choice[a].at].status = choice[a].verdict]
    /\ pc' = [pc EXCEPT ![a] = "save"]
    /\ UNCHANGED <<diskVars, request, appendTo, choice, tmpOf>>

\* Mutant of OpenTmp: the queue itself is opened for writing.
OpenInPlace(a) ==
    /\ pc[a] = "save"
    /\ tmp' = queue
    /\ lines' = [lines EXCEPT ![queue] = <<>>]
    /\ whole' = [whole EXCEPT ![queue] = FALSE]
    /\ tmpOf' = [tmpOf EXCEPT ![a] = queue]
    /\ pc' = [pc EXCEPT ![a] = "write"]
    /\ UNCHANGED <<queue, board, request, appendTo, rows, choice>>

\* save_queue opens the temporary file: created or emptied.
OpenTmp(a) ==
    /\ pc[a] = "save"
    /\ \E i \in Inodes :
        /\ IF tmp # None THEN i = tmp
           ELSE i \notin {queue} \cup {tmpOf[b] : b \in Admins}
                            \cup {appendTo[s] : s \in Submissions}
        /\ tmp' = i
        /\ lines' = [lines EXCEPT ![i] = <<>>]
        /\ whole' = [whole EXCEPT ![i] = FALSE]
        /\ tmpOf' = [tmpOf EXCEPT ![a] = i]
    /\ pc' = [pc EXCEPT ![a] = "write"]
    /\ UNCHANGED <<queue, board, request, appendTo, rows, choice>>

\* The rows are written from the start of the inode, over what it holds.
Written(new, old) == new \o SubSeq(old, Len(new) + 1, Len(old))

WriteTmp(a) ==
    /\ pc[a] = "write"
    /\ IF tmpOf[a] \in {queue, tmp}
       THEN /\ lines' = [lines EXCEPT ![tmpOf[a]] = Written(rows[a], @)]
            /\ whole' = [whole EXCEPT ![tmpOf[a]] = TRUE]
       ELSE UNCHANGED <<lines, whole>>
    /\ pc' = [pc EXCEPT ![a] = "replace"]
    /\ UNCHANGED <<queue, tmp, board, request, appendTo, rows, choice, tmpOf>>

\* tmp.replace(path), then the reply.  Without a temporary file it raises.
Replace(a) ==
    /\ pc[a] = "replace"
    /\ IF tmp # None
       THEN /\ queue' = tmp
            /\ tmp' = None
            /\ lines' = [lines EXCEPT ![queue] = <<>>]
            /\ whole' = [whole EXCEPT ![queue] = TRUE]
       ELSE UNCHANGED diskVars
    /\ Idle(a)
    /\ UNCHANGED <<board, request, appendTo>>

\* A busy database, a full disk: a 500, and the queue as it was.
Fail(a) ==
    /\ pc[a] \in {"decide", "save", "write"}
    /\ Idle(a)
    /\ UNCHANGED <<diskVars, board, request, appendTo>>

\* The process dies.  Files stay as they are.
Crash ==
    /\ \/ \E a \in Admins : pc[a] # "idle"
       \/ \E s \in Submissions : request[s] = "appending"
    /\ pc' = [a \in Admins |-> "idle"]
    /\ rows' = [a \in Admins |-> <<>>]
    /\ choice' = [a \in Admins |-> None]
    /\ tmpOf' = [a \in Admins |-> None]
    /\ request' = [s \in Submissions |->
                    IF request[s] = "appending" THEN "failed" ELSE request[s]]
    /\ appendTo' = [s \in Submissions |-> None]
    /\ UNCHANGED <<diskVars, board>>

SubmissionsNext ==
    \/ \E s \in Submissions : OpenAppend(s) \/ Append1(s) \/ AppendFails(s)
    \/ \E a \in Admins, s \in Submissions, v \in Verdicts : Load(a, s, v)
    \/ \E a \in Admins : Decide(a) \/ OpenTmp(a) \/ WriteTmp(a) \/ Replace(a) \/ Fail(a)
    \/ Crash

SubmissionsSpec == SubmissionsInit /\ [][SubmissionsNext]_submissionVars

----------------------------------------------------------------------------
(* Properties.                                                             *)

SubmissionsTypeOK ==
    /\ lines \in [Inodes -> Seq(Line)]
    /\ whole \in [Inodes -> BOOLEAN]
    /\ queue \in Inodes /\ tmp \in Inodes \cup {None} /\ tmp # queue
    /\ board \subseteq Submissions
    /\ request \in [Submissions -> {"unsent", "appending", "answered", "failed"}]
    /\ appendTo \in [Submissions -> Inodes \cup {None}]
    /\ pc \in [Admins -> {"idle", "decide", "save", "write", "replace"}]
    /\ rows \in [Admins -> Seq(Line)]
    /\ choice \in [Admins -> [at: Nat, id: Submissions, verdict: Verdicts] \cup {None}]
    /\ tmpOf \in [Admins -> Inodes \cup {None}]

\* A row the queue calls approved is a Role on the board, whoever else was
\* deciding and wherever a request died: the Role is inserted before the row is
\* marked (submissions.approve_submission, "says published without publishing").
ApprovedRolesAreOnTheBoard ==
    \A line \in ToSet(lines[queue]) : line.status = "approved" => line.id \in board

\* A queued submission leaves the queue only in a rewrite by someone who had loaded
\* the file before it arrived, or when a rewrite renames the temporary file another
\* one has opened and not written yet: the two holes of save_queue, and no third
\* (submissions.py:44-50, main.py:2744-2753).
OnlyUnseenSubmissionsAreLost ==
    [][\A s \in Submissions :
        s \in Queued /\ s \notin Queued'
            => \E a \in Admins :
                \/ pc[a] \in {"write", "replace"} /\ s \notin IdsOf(rows[a])
                \/ pc[a] = "replace" /\ ~whole[tmp]]_submissionVars
=============================================================================
