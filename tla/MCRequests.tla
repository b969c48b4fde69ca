------------------------------ MODULE MCRequests ------------------------------
(* Small instances for TLC of what meets in the web process's requests: the    *)
(* rate limiter (RateLimiter) and the file of submitted Roles                  *)
(* (SubmissionQueue).  They share no state, so a behaviour is of one of them   *)
(* (`part`) and the other rests.                                               *)
EXTENDS RateLimiter, SubmissionQueue, TLC

\* A key that may be let through twice within a long window, and others once
\* within a short one.
CONSTANTS slow, LongWindow, firstFile

SomeLimit == [k \in Keys |-> IF k = slow THEN 2 ELSE 1]
SomeWindow == [k \in Keys |-> IF k = slow THEN LongWindow ELSE 2]

VARIABLE part

MCInit ==
    /\ part \in {"limiter", "submissions"}
    /\ Init
    /\ SubmissionsInit /\ queue = firstFile

MCNext ==
    \/ part = "limiter" /\ Next /\ UNCHANGED <<submissionVars, part>>
    \/ part = "submissions" /\ SubmissionsNext /\ UNCHANGED <<vars, part>>

MCSpec == MCInit /\ [][MCNext]_<<vars, submissionVars, part>>

\* Admins are the Callers and Submissions the quick Keys.
Symmetry == Permutations(Callers) \cup Permutations(Submissions)
=============================================================================
