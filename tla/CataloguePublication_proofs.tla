-------------------- MODULE CataloguePublication_proofs --------------------
(***************************************************************************)
(* Proofs, for every set of threads, admins, runs, Roles and snapshots, of *)
(* what MCCataloguePublication checks on a small instance.  The order is   *)
(* the order of need: types, then who holds the lock, then what a receipt  *)
(* says, then what the live catalogue holds.  The last part is about the   *)
(* migrations a publication applies to the database it was sent, of every  *)
(* age and with any number of lost processes.                              *)
(***************************************************************************)
EXTENDS CataloguePublication, Migrations, WellFoundedInduction, TLAPS, SequenceTheorems

----------------------------------------------------------------------------
(* Rows and corrections.                                                   *)

\* A correction applied to a row gives a row.
LEMMA CorrectedType ==
    ASSUME NEW row \in Row, NEW c \in Correction
    PROVE  Corrected(row, c) \in Row
<1>1. CASE c.field = "active"
  BY <1>1 DEF Corrected, Correction, Row, Flags, HiddenCells
<1>2. CASE c.field = "hidden"
  BY <1>2 DEF Corrected, Correction, Row, Flags, HiddenCells
<1>3. CASE c.field = "pay"
  BY <1>3 DEF Corrected, Correction, Row, Flags, HiddenCells
<1> QED
  BY <1>1, <1>2, <1>3 DEF Correction

\* Recording a correction in the audit of its Role gives an audit.
LEMMA NotedType ==
    ASSUME NEW a \in Audit, NEW c \in Correction
    PROVE  Noted(a, c) \in Audit
<1>1. CASE c.field = "active"
  BY <1>1 DEF Noted, Correction, Audit, AuditFlag, Flags, FlagText
<1>2. CASE c.field = "hidden"
  BY <1>2 DEF Noted, Correction, Audit, AuditFlag, Flags, FlagText
<1>3. CASE c.field = "pay"
  BY <1>3 DEF Noted, Correction, Audit, AuditFlag, Flags, FlagText
<1> QED
  BY <1>1, <1>2, <1>3 DEF Correction

\* Laying an audit over a row gives a row.
LEMMA ReappliedType ==
    ASSUME NEW row \in Row, NEW a \in Audit
    PROVE  Reapplied(row, a) \in Row
BY DEF Reapplied, Row, Audit, AuditFlag, HiddenCells, FromAuditActive, FromAuditHidden

\* Neither a correction nor an audit adds or removes a Role.
LEMMA CorrectedPresent ==
    \A row \in Row, c \in Correction : Corrected(row, c).present = row.present
<1> SUFFICES ASSUME NEW row \in Row, NEW c \in Correction
             PROVE  Corrected(row, c).present = row.present
  OBVIOUS
<1>1. c.field \in {"active", "hidden", "pay"}
  BY DEF Correction
<1>2. CASE c.field = "active"
  BY <1>2 DEF Corrected, Row
<1>3. CASE c.field = "hidden"
  BY <1>3 DEF Corrected, Row
<1>4. CASE c.field = "pay"
  BY <1>4 DEF Corrected, Row
<1> QED
  BY <1>1, <1>2, <1>3, <1>4

LEMMA ReappliedPresent ==
    ASSUME NEW row \in Row, NEW a
    PROVE  Reapplied(row, a).present = row.present
BY DEF Reapplied, Row

----------------------------------------------------------------------------
(* Types.                                                                  *)

LEMMA AbsentIsRow == AbsentRow \in Row /\ ApprovedRow \in Row
BY PaysAssumption DEF AbsentRow, ApprovedRow, Row, HiddenCells

\* Adding a backup and trimming the list keeps it a list of snapshots, no
\* longer than KeepBackups, with the new one first.
LEMMA TrimmedBackups ==
    ASSUME NEW s \in Snapshots, NEW old \in Seq(Snapshots), Len(old) <= KeepBackups
    PROVE  /\ Trimmed(s, old) \in Seq(Snapshots)
           /\ Len(Trimmed(s, old)) <= KeepBackups
           /\ Trimmed(s, old) # <<>> /\ Head(Trimmed(s, old)) = s
<1> DEFINE all == <<s>> \o old
           k == IF Len(old) < KeepBackups THEN Len(old) + 1 ELSE KeepBackups
           new == SubSeq(all, 1, k)
<1>0. Trimmed(s, old) = new
  BY DEF Trimmed
<1>1. Len(old) \in Nat /\ KeepBackups \in Nat /\ KeepBackups >= 1
  BY BoundsAssumption
<1>2. all \in Seq(Snapshots) /\ Len(all) = Len(old) + 1 /\ all[1] = s
  OBVIOUS
<1>3. k \in Nat /\ 1 <= k /\ k <= KeepBackups /\ k <= Len(all)
  BY <1>1, <1>2
<1> HIDE DEF all, k
<1>4. new \in Seq(Snapshots) /\ Len(new) = k /\ new[1] = all[1]
  BY <1>2, <1>3, SubSeqProperties DEF all, k
<1> QED
  BY <1>0, <1>2, <1>3, <1>4

\* The initial state is well typed.
LEMMA InitType == Init => TypeOK
BY AbsentIsRow, SnapshotsAssumption, BoundsAssumption
   DEF Init, TypeOK, Catalogue, Roles, NoAudit, Audit, AuditFlag, PC, NoDirect,
       NoWork, Answers

\* A thread that is not idle has an upload to serve.
Serving == \A t \in Threads : pc[t] # "idle" => upload[t] \in Uploads

\* Every step of the site keeps the types.
LEMMA NextType == TypeOK /\ Serving /\ [Next]_vars => TypeOK'
<1> SUFFICES ASSUME TypeOK, Serving, [Next]_vars PROVE TypeOK'
  OBVIOUS
<1> USE DEF TypeOK, siteVars, localVars
<1>0. /\ NoDirect \in [DirectRoles -> Row] /\ NoWork \in [Roles -> Row]
      /\ \A t \in Threads : pc[t] # "idle" => pc[t] \in PC
  BY AbsentIsRow DEF NoDirect, NoWork
<1>1. ASSUME NEW t \in Threads, NEW why \in Answers, Leave(t, why)
      PROVE  /\ pc' \in [Threads -> PC] /\ answer' \in [Threads -> Answers]
             /\ lock' \in Threads \cup {Nobody} /\ writer' \in Threads \cup {Nobody}
             /\ stash' \in [Threads -> [DirectRoles -> Row]]
             /\ work' \in [Threads -> [Roles -> Row]]
  BY <1>0, <1>1 DEF Leave, PC
<1>2. ASSUME NEW t \in Threads, NEW u \in Uploads, Receive(t, u) PROVE TypeOK'
  <2>1. /\ UNCHANGED <<siteVars, backups, form>>
        /\ upload' \in [Threads -> Uploads \cup {NoUpload}]
    BY <1>2 DEF Receive
  <2>2. CASE lock = Nobody
    BY <1>2, <2>1, <2>2 DEF Receive, Goto, PC
  <2>3. CASE lock # Nobody
    BY <1>1, <1>2, <2>1, <2>3 DEF Receive, Answers
  <2> QED
    BY <2>2, <2>3
<1>3. ASSUME NEW t \in Threads, Validate(t) PROVE TypeOK'
  BY <1>1, <1>3 DEF Validate, Goto, PC, Answers
<1>4. ASSUME NEW t \in Threads, CheckReceipt(t) PROVE TypeOK'
  BY <1>1, <1>4 DEF CheckReceipt, Goto, PC, Answers
<1>5. ASSUME NEW t \in Threads, BackUp(t) PROVE TypeOK'
  <2>2. backups' \in Seq(Snapshots) /\ Len(backups') <= KeepBackups
    BY <1>5, TrimmedBackups DEF BackUp
  <2>3. /\ UNCHANGED <<siteVars, lock, writer, upload, stash, work, answer, form>>
        /\ pc' = [pc EXCEPT ![t] = "direct"]
    BY <1>5 DEF BackUp, Goto
  <2> QED
    BY <2>2, <2>3 DEF PC
<1>6. ASSUME NEW t \in Threads, ReadDirect(t) PROVE TypeOK'
  <2>1. [d \in DirectRoles |-> live[d]] \in [DirectRoles -> Row]
    BY DEF Roles
  <2> QED
    BY <1>6, <2>1 DEF ReadDirect, Goto, PC
<1>7. ASSUME NEW t \in Threads, Begin(t) PROVE TypeOK'
  BY <1>7 DEF Begin, Goto, PC
<1>8. ASSUME NEW t \in Threads, Import(t) PROVE TypeOK'
  <2>1. /\ upload[t].snapshot \in Catalogue /\ stash[t] \in [DirectRoles -> Row]
        /\ \A r \in Roles : audit[r] \in Audit
    BY <1>8, UploadsAssumption, SnapshotsAssumption DEF Import, Serving, Upload
  <2>2. \A r \in Roles :
            Reapplied(IF r \in PipelineRoles THEN upload[t].snapshot[r]
                      ELSE stash[t][r], audit[r]) \in Row
    BY <2>1, ReappliedType DEF Roles, Catalogue
  <2>3. NewCatalogue(upload[t].snapshot, stash[t]) \in [Roles -> Row]
    BY <2>2 DEF NewCatalogue
  <2> QED
    BY <1>1, <1>8, <2>3, ZenonT(60) DEF Import, Goto, PC, Answers
<1>9. ASSUME NEW t \in Threads, Commit(t) PROVE TypeOK'
  <2>1. upload[t].run \in Runs /\ upload[t].snapshot \in Snapshots
    BY <1>9, UploadsAssumption DEF Commit, Serving, Upload, siteVars
  <2>2. CASE CountHolds(t)
    <3>1. /\ live' = work[t] /\ base' = upload[t].snapshot /\ writer' = Nobody
          /\ receipts' = [receipts EXCEPT ![upload[t].run] = upload[t].snapshot]
          /\ pc' = [pc EXCEPT ![t] = "committed"]
          /\ UNCHANGED <<answer, lock, stash, work, audit, approved, backups,
                         upload, form>>
      BY <1>9, <2>2, Zenon DEF Commit, Goto
    <3> QED
      BY <2>1, <3>1 DEF PC
  <2>3. CASE ~CountHolds(t)
    BY <1>1, <1>9, <2>3 DEF Commit, Answers
  <2> QED
    BY <2>2, <2>3
<1>10. ASSUME NEW t \in Threads, Finish(t) PROVE TypeOK'
  BY <1>1, <1>10 DEF Finish, Answers
<1>11. ASSUME NEW t \in Threads, Fail(t) PROVE TypeOK'
  BY <1>1, <1>11 DEF Fail, Answers
<1>12. ASSUME NEW t \in Threads, Reply(t) PROVE TypeOK'
  BY <1>12 DEF Reply, Goto, PC, Answers
<1>13. ASSUME NEW a \in Admins, NEW c \in Corrections, OpenForm(a, c) PROVE TypeOK'
  <2>1. live[c.role] \in Row
    BY CorrectionsAssumption DEF Correction
  <2> QED
    BY <1>13, <2>1 DEF OpenForm
<1>14. ASSUME NEW a \in Admins, ApplyEdit(a) PROVE TypeOK'
  <2> DEFINE c == form[a].correction
  <2>1. c \in Correction /\ c.role \in Roles
    BY <1>14, CorrectionsAssumption DEF ApplyEdit, Correction
  <2>2. Corrected(live[c.role], c) \in Row /\ Noted(audit[c.role], c) \in Audit
    BY <2>1, CorrectedType, NotedType
  <2> HIDE DEF c
  <2>3. live' \in [Roles -> Row] /\ audit' \in [Roles -> Audit]
    <3>1. CASE UNCHANGED <<live, audit>>
      BY <3>1
    <3>2. CASE /\ live' = IF live[c.role].present
                          THEN [live EXCEPT ![c.role] = Corrected(live[c.role], c)]
                          ELSE live
               /\ audit' = [audit EXCEPT ![c.role] = Noted(audit[c.role], c)]
      BY <2>1, <2>2, <3>2
    <3> QED
      BY <1>14, <3>1, <3>2 DEF ApplyEdit, c
  <2> QED
    BY <1>14, <2>3 DEF ApplyEdit
<1>15. ASSUME NEW d \in DirectRoles, Approve(d) PROVE TypeOK'
  BY <1>15, AbsentIsRow DEF Approve, Roles
<1>16. ASSUME Crash PROVE TypeOK'
  BY <1>0, <1>16 DEF Crash, PC, Answers
<1>17. ASSUME UNCHANGED vars PROVE TypeOK'
  BY <1>17 DEF vars
<1> QED
  BY <1>2, <1>3, <1>4, <1>5, <1>6, <1>7, <1>8, <1>9, <1>10, <1>11, <1>12,
     <1>13, <1>14, <1>15, <1>16, <1>17 DEF Next, Step

\* Serving survives every step: Receive sets the upload, Reply drops it.
LEMMA NextServing == TypeOK /\ Serving /\ [Next]_vars => Serving'
<1> SUFFICES ASSUME TypeOK, Serving, [Next]_vars PROVE Serving'
  OBVIOUS
<1> USE DEF TypeOK, Serving, PC
<1>1. ASSUME NEW t \in Threads, NEW u \in Uploads, Receive(t, u) PROVE Serving'
  <2>1. upload' = [upload EXCEPT ![t] = u]
    BY <1>1 DEF Receive
  <2>2. \E label : pc' = [pc EXCEPT ![t] = label]
    BY <1>1 DEF Receive, Leave, Goto
  <2> QED
    BY <2>1, <2>2
<1>2. ASSUME NEW t \in Threads, pc[t] # "idle", UNCHANGED upload,
             \E label : pc' = [pc EXCEPT ![t] = label]
      PROVE  Serving'
  BY <1>2
<1>3. ASSUME NEW t \in Threads, Step(t) \/ Fail(t), ~Reply(t) PROVE Serving'
  <2>1. UNCHANGED upload /\ pc[t] # "idle"
    BY <1>3 DEF Step, Fail, Validate, CheckReceipt, BackUp, ReadDirect, Begin,
                Import, Commit, Finish, Working, localVars
  <2>2. \E label : pc' = [pc EXCEPT ![t] = label]
    BY <1>3 DEF Step, Fail, Validate, CheckReceipt, BackUp, ReadDirect, Begin,
                Import, Commit, Finish, Leave, Goto
  <2> QED
    BY <1>2, <2>1, <2>2
<1>4. ASSUME NEW t \in Threads, Reply(t) PROVE Serving'
  BY <1>4 DEF Reply, Goto
<1>5. ASSUME UNCHANGED <<pc, upload>> PROVE Serving'
  BY <1>5
<1>6. ASSUME Crash PROVE Serving'
  BY <1>6 DEF Crash
<1> QED
  BY <1>1, <1>3, <1>4, <1>5, <1>6
     DEF Next, OpenForm, ApplyEdit, Approve, localVars, vars

\* Every variable holds a value of its type in every reachable state.
THEOREM TypeCorrect == Spec => []TypeOK
<1>1. Init => TypeOK /\ Serving
  BY InitType DEF Init, Serving
<1>2. (TypeOK /\ Serving) /\ [Next]_vars => (TypeOK /\ Serving)'
  BY NextType, NextServing
<1> QED
  BY <1>1, <1>2, PTL DEF Spec

----------------------------------------------------------------------------
(* Who publishes, and who writes.                                          *)

\* _LOCK belongs to the one thread inside publish_catalogue, SQLite's write
\* lock to the one inside its transaction.
Exclusive ==
    \A t \in Threads :
        /\ pc[t] \in Working <=> lock = t
        /\ pc[t] \in {"import", "commit"} <=> writer = t

LEMMA NextExclusive == TypeOK /\ Exclusive /\ [Next]_vars => Exclusive'
<1> SUFFICES ASSUME TypeOK, Exclusive, [Next]_vars PROVE Exclusive'
  OBVIOUS
<1>0. /\ pc \in [Threads -> PC] /\ Nobody \notin Threads
      /\ lock \in Threads \cup {Nobody} /\ writer \in Threads \cup {Nobody}
  BY NullsAssumption DEF TypeOK
<1> USE DEF Exclusive, Working, PC
<1>1. ASSUME NEW t \in Threads, NEW why, Leave(t, why) PROVE Exclusive'
  BY <1>0, <1>1 DEF Leave
<1>2. ASSUME NEW t \in Threads, NEW label \in {"receipt", "backup", "direct", "begin"},
             pc[t] \in {"validate", "receipt", "backup", "direct"},
             Goto(t, label), UNCHANGED <<lock, writer>>
      PROVE  Exclusive'
  BY <1>0, <1>2 DEF Goto
<1>3. ASSUME NEW t \in Threads, NEW u \in Uploads, Receive(t, u) PROVE Exclusive'
  <2>1. CASE lock = Nobody
    BY <1>0, <1>3, <2>1 DEF Receive, Goto
  <2>2. CASE lock # Nobody
    BY <1>1, <1>3, <2>2 DEF Receive
  <2> QED
    BY <2>1, <2>2
<1>4. ASSUME NEW t \in Threads, Validate(t) PROVE Exclusive'
  BY <1>1, <1>2, <1>4 DEF Validate
<1>5. ASSUME NEW t \in Threads, CheckReceipt(t) PROVE Exclusive'
  BY <1>1, <1>2, <1>5 DEF CheckReceipt
<1>6. ASSUME NEW t \in Threads, BackUp(t) \/ ReadDirect(t) PROVE Exclusive'
  BY <1>2, <1>6 DEF BackUp, ReadDirect
<1>7. ASSUME NEW t \in Threads, Begin(t) PROVE Exclusive'
  BY <1>0, <1>7 DEF Begin, Goto
<1>8. ASSUME NEW t \in Threads, Import(t) PROVE Exclusive'
  <2>1. CASE upload[t].compatible
    BY <1>0, <1>8, <2>1 DEF Import, Goto
  <2>2. CASE ~upload[t].compatible
    BY <1>1, <1>8, <2>2 DEF Import
  <2> QED
    BY <2>1, <2>2
<1>9. ASSUME NEW t \in Threads, Commit(t) PROVE Exclusive'
  <2>1. CASE CountHolds(t)
    <3>1. /\ pc[t] = "commit" /\ pc' = [pc EXCEPT ![t] = "committed"]
          /\ writer' = Nobody /\ UNCHANGED lock
      BY <1>9, <2>1, Zenon DEF Commit, Goto
    <3> QED
      BY <1>0, <3>1
  <2>2. CASE ~CountHolds(t)
    BY <1>1, <1>9, <2>2 DEF Commit
  <2> QED
    BY <2>1, <2>2
<1>10. ASSUME NEW t \in Threads, Finish(t) \/ Fail(t) PROVE Exclusive'
  BY <1>1, <1>10 DEF Finish, Fail
<1>11. ASSUME NEW t \in Threads, Reply(t) PROVE Exclusive'
  BY <1>0, <1>11 DEF Reply, Goto
<1>12. ASSUME UNCHANGED <<pc, lock, writer>> PROVE Exclusive'
  BY <1>12
<1>13. ASSUME Crash PROVE Exclusive'
  BY <1>0, <1>13 DEF Crash
<1> QED
  BY <1>3, <1>4, <1>5, <1>6, <1>7, <1>8, <1>9, <1>10, <1>11, <1>12, <1>13
     DEF Next, Step, OpenForm, ApplyEdit, Approve, vars

----------------------------------------------------------------------------
(* What a receipt says.                                                    *)

\* The thread about to publish a run has seen no receipt of it, and none can
\* appear while it holds the lock; the thread that has committed left one.
ReceiptsAgree ==
    \A t \in Threads :
        /\ pc[t] \in {"backup", "direct", "begin", "import", "commit"}
                => receipts[upload[t].run] = NoSnapshot
        /\ pc[t] = "committed" => receipts[upload[t].run] = upload[t].snapshot

ReceiptInv == ReceiptsAgree /\ AnswersAreTrue

LEMMA NextReceipts ==
    TypeOK /\ Serving /\ Exclusive /\ ReceiptInv /\ [Next]_vars => ReceiptInv'
<1> SUFFICES ASSUME TypeOK, Serving, Exclusive, ReceiptInv, [Next]_vars
             PROVE  ReceiptInv'
  OBVIOUS
<1>0. /\ pc \in [Threads -> PC] /\ answer \in [Threads -> Answers]
      /\ receipts \in [Runs -> Snapshots \cup {NoSnapshot}]
      /\ upload \in [Threads -> Uploads \cup {NoUpload}]
      /\ \A u \in Uploads : u.run \in Runs /\ u.snapshot \in Snapshots
      /\ NoSnapshot \notin Snapshots
      /\ \A t \in Threads : pc[t] # "idle" => upload[t] \in Uploads
  BY NullsAssumption, UploadsAssumption DEF TypeOK, Upload, Serving
<1> USE DEF ReceiptInv, ReceiptsAgree, AnswersAreTrue, PC
\* A request that leaves with a true answer, or with none of the two.
<1>1. ASSUME NEW t \in Threads, NEW why, Leave(t, why), upload' = upload,
             UNCHANGED receipts,
             why \in {"already", "published"} =>
                receipts[upload[t].run] = upload[t].snapshot
      PROVE  ReceiptInv'
  BY <1>0, <1>1 DEF Leave
<1>2. ASSUME NEW t \in Threads, NEW label \in {"validate", "receipt", "backup", "direct",
                                            "begin", "import", "commit"},
             Goto(t, label), UNCHANGED <<upload, receipts, answer>>,
             label \in {"backup", "direct", "begin", "import", "commit"} =>
                receipts[upload[t].run] = NoSnapshot
      PROVE  ReceiptInv'
  BY <1>0, <1>2 DEF Goto
<1>3. ASSUME NEW t \in Threads, NEW u \in Uploads, Receive(t, u) PROVE ReceiptInv'
  <2>1. /\ pc[t] = "idle" /\ upload' = [upload EXCEPT ![t] = u]
        /\ UNCHANGED receipts
    BY <1>3 DEF Receive, siteVars
  <2>2. CASE lock = Nobody
    <3>1. pc' = [pc EXCEPT ![t] = "validate"] /\ UNCHANGED answer
      BY <1>3, <2>2 DEF Receive, Goto
    <3> QED
      BY <1>0, <2>1, <3>1
  <2>3. CASE lock # Nobody
    <3>1. /\ pc' = [pc EXCEPT ![t] = "done"]
          /\ answer' = [answer EXCEPT ![t] = "busy"]
      BY <1>3, <2>3 DEF Receive, Leave
    <3> QED
      BY <1>0, <2>1, <3>1
  <2> QED
    BY <2>2, <2>3
<1>4. ASSUME NEW t \in Threads, Validate(t) PROVE ReceiptInv'
  BY <1>1, <1>2, <1>4 DEF Validate, siteVars
<1>5. ASSUME NEW t \in Threads, CheckReceipt(t) PROVE ReceiptInv'
  BY <1>1, <1>2, <1>5 DEF CheckReceipt, siteVars
<1>6. ASSUME NEW t \in Threads, BackUp(t) \/ ReadDirect(t) \/ Begin(t)
      PROVE  ReceiptInv'
  <2>1. /\ pc[t] \in {"backup", "direct", "begin"}
        /\ UNCHANGED <<upload, receipts, answer>>
        /\ \E label \in {"direct", "begin", "import"} : Goto(t, label)
    BY <1>6 DEF BackUp, ReadDirect, Begin, siteVars
  <2> QED
    BY <1>2, <2>1
<1>7. ASSUME NEW t \in Threads, Import(t) PROVE ReceiptInv'
  BY <1>1, <1>2, <1>7 DEF Import, siteVars
<1>8. ASSUME NEW t \in Threads, Commit(t) PROVE ReceiptInv'
  <2>1. CASE CountHolds(t)
    <3>1. /\ pc[t] = "commit" /\ pc' = [pc EXCEPT ![t] = "committed"]
          /\ receipts' = [receipts EXCEPT ![upload[t].run] = upload[t].snapshot]
          /\ UNCHANGED <<upload, answer>>
      BY <1>8, <2>1, Zenon DEF Commit, Goto
    <3>2. \A s \in Threads : s # t => pc[s] \notin Working
      BY <3>1 DEF Exclusive, Working
    <3> QED
      BY <1>0, <3>1, <3>2 DEF Working
  <2>2. CASE ~CountHolds(t)
    BY <1>1, <1>8, <2>2 DEF Commit
  <2> QED
    BY <2>1, <2>2
<1>9. ASSUME NEW t \in Threads, Finish(t) PROVE ReceiptInv'
  BY <1>1, <1>9 DEF Finish, siteVars
<1>10. ASSUME NEW t \in Threads, Fail(t) PROVE ReceiptInv'
  BY <1>1, <1>10 DEF Fail, siteVars
<1>11. ASSUME NEW t \in Threads, Reply(t) PROVE ReceiptInv'
  <2>1. /\ pc' = [pc EXCEPT ![t] = "idle"] /\ UNCHANGED receipts
        /\ upload' = [upload EXCEPT ![t] = NoUpload]
        /\ answer' = [answer EXCEPT ![t] = "none"]
    BY <1>11 DEF Reply, Goto, siteVars
  <2> QED
    BY <1>0, <2>1
<1>12. ASSUME UNCHANGED <<pc, upload, receipts, answer>> PROVE ReceiptInv'
  BY <1>12
<1>13. ASSUME Crash PROVE ReceiptInv'
  BY <1>0, <1>13 DEF Crash
<1> QED
  BY <1>3, <1>4, <1>5, <1>6, <1>7, <1>8, <1>9, <1>10, <1>11, <1>12, <1>13
     DEF Next, Step, OpenForm, ApplyEdit, Approve, siteVars, localVars, vars

----------------------------------------------------------------------------
(* Who changes the live jobs.db.                                           *)

\* The one step of a publication that readers see.
Published(t) ==
    /\ pc[t] = "commit"
    /\ live' = work[t]
    /\ base' = upload[t].snapshot
    /\ receipts' = [receipts EXCEPT ![upload[t].run] = upload[t].snapshot]
    /\ pc' = [pc EXCEPT ![t] = "committed"]
    /\ UNCHANGED <<audit, approved, backups, upload, stash, work, form>>

\* A commit publishes or leaves the live file alone.
LEMMA CommitPublishes ==
    \A t \in Threads : Commit(t) => Published(t) \/ (UNCHANGED siteVars /\ Leave(t, "miscounted"))
<1> SUFFICES ASSUME NEW t \in Threads, Commit(t)
             PROVE  Published(t) \/ (UNCHANGED siteVars /\ Leave(t, "miscounted"))
  OBVIOUS
<1>1. CASE CountHolds(t)
  <2>1. /\ pc[t] = "commit" /\ live' = work[t] /\ base' = upload[t].snapshot
        /\ receipts' = [receipts EXCEPT ![upload[t].run] = upload[t].snapshot]
        /\ pc' = [pc EXCEPT ![t] = "committed"]
        /\ UNCHANGED <<answer, lock, stash, work, audit, approved, backups,
                       upload, form>>
    BY <1>1, Zenon DEF Commit, Goto
  <2> QED
    BY <2>1 DEF Published
<1>2. CASE ~CountHolds(t)
  BY <1>2 DEF Commit, siteVars
<1> QED
  BY <1>1, <1>2

\* Only a publication, a correction and an approval write to the live file.
LEMMA WhoWrites ==
    [Next]_vars =>
        \/ UNCHANGED siteVars
        \/ \E t \in Threads : Published(t)
        \/ \E a \in Admins : ApplyEdit(a)
        \/ \E d \in DirectRoles : Approve(d)
BY CommitPublishes
   DEF Next, Step, Receive, Validate, CheckReceipt, BackUp, ReadDirect, Begin,
       Import, Finish, Reply, Fail, OpenForm, Crash, siteVars, vars

----------------------------------------------------------------------------
(* What a publication holds before it commits.                             *)

\* The newest backup is of the catalogue about to be replaced.
BackupHeld ==
    \A t \in Threads :
        pc[t] \in {"direct", "begin", "import", "commit"} =>
            backups # <<>> /\ Head(backups) = base

\* The catalogue about to be committed carries the corrections of this moment.
WorkHeld ==
    \A t \in Threads :
        pc[t] = "commit" => work[t] = NewCatalogue(upload[t].snapshot, stash[t])

Held == BackupHeld /\ WorkHeld

LEMMA NextHeld == TypeOK /\ Exclusive /\ Held /\ [Next]_vars => Held'
<1> SUFFICES ASSUME TypeOK, Exclusive, Held, [Next]_vars PROVE Held'
  OBVIOUS
<1>0. /\ pc \in [Threads -> PC] /\ Nobody \notin Threads
      /\ stash \in [Threads -> [DirectRoles -> Row]]
      /\ work \in [Threads -> [Roles -> Row]]
      /\ upload \in [Threads -> Uploads \cup {NoUpload}]
      /\ base \in Snapshots /\ backups \in Seq(Snapshots) /\ Len(backups) <= KeepBackups
      /\ \A s, t \in Threads : pc[s] \in Working /\ pc[t] \in Working => s = t
      /\ \A t \in Threads : pc[t] \in {"import", "commit"} => writer = t
  BY NullsAssumption DEF TypeOK, Exclusive
<1> USE DEF Held, BackupHeld, WorkHeld, PC, Working, NewCatalogue
<1>1. ASSUME NEW t \in Threads, NEW why, Leave(t, why), UNCHANGED <<upload, backups, siteVars>>
      PROVE  Held'
  BY <1>0, <1>1 DEF Leave, siteVars
<1>2. ASSUME NEW t \in Threads, NEW u \in Uploads, Receive(t, u) PROVE Held'
  <2>1. /\ pc[t] = "idle" /\ upload' = [upload EXCEPT ![t] = u]
        /\ UNCHANGED <<siteVars, backups>>
    BY <1>2 DEF Receive
  <2>2. CASE lock = Nobody
    <3>1. pc' = [pc EXCEPT ![t] = "validate"] /\ UNCHANGED <<stash, work>>
      BY <1>2, <2>2 DEF Receive, Goto
    <3> QED
      BY <1>0, <2>1, <3>1 DEF siteVars
  <2>3. CASE lock # Nobody
    <3>1. /\ pc' = [pc EXCEPT ![t] = "done"]
          /\ stash' = [stash EXCEPT ![t] = NoDirect]
          /\ work' = [work EXCEPT ![t] = NoWork]
      BY <1>2, <2>3 DEF Receive, Leave
    <3>2. BackupHeld'
      BY <1>0, <2>1, <3>1 DEF siteVars
    <3>3. WorkHeld'
      BY <1>0, <2>1, <3>1 DEF siteVars
    <3> QED
      BY <3>2, <3>3
  <2> QED
    BY <2>2, <2>3
<1>3. ASSUME NEW t \in Threads, NEW label \in {"receipt", "backup"}, Goto(t, label),
             UNCHANGED <<siteVars, backups, upload, stash, work>>
      PROVE  Held'
  BY <1>0, <1>3 DEF Goto, siteVars
<1>4. ASSUME NEW t \in Threads, Validate(t) PROVE Held'
  BY <1>1, <1>3, <1>4 DEF Validate, siteVars
<1>5. ASSUME NEW t \in Threads, CheckReceipt(t) PROVE Held'
  BY <1>1, <1>3, <1>5 DEF CheckReceipt, siteVars
<1>6. ASSUME NEW t \in Threads, BackUp(t) PROVE Held'
  <2>1. /\ pc[t] = "backup" /\ pc' = [pc EXCEPT ![t] = "direct"]
        /\ backups' # <<>> /\ Head(backups') = base
        /\ UNCHANGED <<siteVars, upload, stash, work>>
    BY <1>0, <1>6, TrimmedBackups DEF BackUp, Goto
  <2> QED
    BY <1>0, <2>1 DEF siteVars
<1>7. ASSUME NEW t \in Threads, ReadDirect(t) PROVE Held'
  <2>1. /\ pc[t] = "direct" /\ pc' = [pc EXCEPT ![t] = "begin"]
        /\ stash' = [stash EXCEPT ![t] = [d \in DirectRoles |-> live[d]]]
        /\ UNCHANGED <<siteVars, backups, upload, work>>
    BY <1>7 DEF ReadDirect, Goto
  <2> QED
    BY <1>0, <2>1 DEF siteVars
<1>8. ASSUME NEW t \in Threads, Begin(t) PROVE Held'
  <2>1. /\ pc[t] = "begin" /\ pc' = [pc EXCEPT ![t] = "import"]
        /\ UNCHANGED <<siteVars, backups, upload, stash, work>>
    BY <1>8 DEF Begin, Goto
  <2> QED
    BY <1>0, <2>1 DEF siteVars
<1>9. ASSUME NEW t \in Threads, Import(t) PROVE Held'
  <2>1. CASE upload[t].compatible
    <3>1. /\ pc[t] = "import" /\ pc' = [pc EXCEPT ![t] = "commit"]
          /\ work' = [work EXCEPT ![t] = NewCatalogue(upload[t].snapshot, stash[t])]
          /\ UNCHANGED <<siteVars, backups, upload, stash>>
      BY <1>9, <2>1 DEF Import, Goto
    <3> QED
      BY <1>0, <3>1 DEF siteVars
  <2>2. CASE ~upload[t].compatible
    BY <1>1, <1>9, <2>2 DEF Import, siteVars
  <2> QED
    BY <2>1, <2>2
<1>10. ASSUME NEW t \in Threads, Published(t) PROVE Held'
  BY <1>0, <1>10 DEF Published
<1>11. ASSUME NEW t \in Threads, Commit(t) PROVE Held'
  BY <1>1, <1>10, <1>11, CommitPublishes DEF Commit, siteVars
<1>12. ASSUME NEW t \in Threads, Finish(t) \/ Fail(t) PROVE Held'
  BY <1>1, <1>12 DEF Finish, Fail, siteVars
<1>13. ASSUME NEW t \in Threads, Reply(t) PROVE Held'
  <2>1. /\ pc[t] = "done" /\ pc' = [pc EXCEPT ![t] = "idle"]
        /\ upload' = [upload EXCEPT ![t] = NoUpload]
        /\ UNCHANGED <<siteVars, backups, stash, work>>
    BY <1>13 DEF Reply, Goto
  <2> QED
    BY <1>0, <2>1 DEF siteVars
<1>14. ASSUME UNCHANGED <<pc, upload, stash, work, backups, audit, base>> PROVE Held'
  BY <1>14
<1>15. ASSUME NEW a \in Admins, ApplyEdit(a) PROVE Held'
  <2>1. UNCHANGED <<pc, upload, stash, work, backups, base>>
    BY <1>15 DEF ApplyEdit, localVars
  <2>2. CASE UNCHANGED audit
    BY <1>14, <2>1, <2>2
  <2>3. CASE writer = Nobody
    BY <1>0, <2>1, <2>3
  <2> QED
    BY <1>15, <2>2, <2>3 DEF ApplyEdit
<1>16. ASSUME Crash PROVE Held'
  BY <1>0, <1>16 DEF Crash
<1> QED
  BY <1>2, <1>4, <1>5, <1>6, <1>7, <1>8, <1>9, <1>11, <1>12, <1>13, <1>14, <1>15, <1>16
     DEF Next, Step, OpenForm, Approve, siteVars, localVars, vars

----------------------------------------------------------------------------
(* The invariant of the whole publication.                                 *)

PublicationInv ==
    TypeOK /\ Serving /\ Exclusive /\ ReceiptInv /\ Held

LEMMA InitPublication == Init => PublicationInv
BY InitType, NullsAssumption
   DEF Init, PublicationInv, Serving, Exclusive, Working, ReceiptInv,
       ReceiptsAgree, AnswersAreTrue, Held, BackupHeld, WorkHeld

LEMMA NextPublication == PublicationInv /\ [Next]_vars => PublicationInv'
BY NextType, NextServing, NextExclusive, NextReceipts, NextHeld DEF PublicationInv

THEOREM PublicationInvariant == Spec => []PublicationInv
BY InitPublication, NextPublication, PTL DEF Spec

\* Whoever is told that a catalogue is published finds its receipt.
THEOREM AnswersTrue == Spec => []AnswersAreTrue
<1>1. PublicationInv => AnswersAreTrue
  BY DEF PublicationInv, ReceiptInv
<1> QED
  BY <1>1, PublicationInvariant, PTL

\* A receipt never changes, and only the run that gets one replaces the
\* catalogue.
THEOREM OneReceipt == Spec => HandoverLeavesOneReceipt
<1> DEFINE A == /\ \A n \in Runs : receipts[n] # NoSnapshot => receipts'[n] = receipts[n]
                /\ base' # base =>
                     \E n \in Runs : receipts[n] = NoSnapshot /\ receipts'[n] = base'
<1>1. PublicationInv /\ [Next]_vars => [A]_vars
  <2> SUFFICES ASSUME PublicationInv, [Next]_vars PROVE A
    OBVIOUS
  <2>1. ASSUME NEW t \in Threads, Published(t) PROVE A
    <3>1. /\ receipts[upload[t].run] = NoSnapshot
          /\ upload[t].run \in Runs
          /\ receipts \in [Runs -> Snapshots \cup {NoSnapshot}]
      BY <2>1, UploadsAssumption
         DEF Published, PublicationInv, ReceiptInv, ReceiptsAgree, Serving, TypeOK, Upload
    <3> QED
      BY <2>1, <3>1 DEF Published
  <2>2. ASSUME UNCHANGED <<receipts, base>> PROVE A
    BY <2>2
  <2> QED
    BY <2>1, <2>2, WhoWrites DEF siteVars, ApplyEdit, Approve
<1> QED
  BY <1>1, PublicationInvariant, PTL DEF Spec, HandoverLeavesOneReceipt

\* What a publication replaces is in the newest backup.
THEOREM BackedUp == Spec => ReplacedCatalogueIsBackedUp
<1>1. PublicationInv /\ [Next]_vars =>
        [receipts' # receipts => backups # <<>> /\ Head(backups) = base]_vars
  BY WhoWrites
     DEF PublicationInv, Held, BackupHeld, Published, siteVars, ApplyEdit, Approve
<1> QED
  BY <1>1, PublicationInvariant, PTL DEF Spec, ReplacedCatalogueIsBackedUp

\* A direct Role leaves the board only in a publication that never read it.
THEOREM OnlyUnseenAreLost == Spec => OnlyUnseenApprovalsAreLost
<1> DEFINE A == \A d \in DirectRoles :
                   live[d].present /\ ~live'[d].present
                     => \E t \in Threads : pc[t] = "commit" /\ ~stash[t][d].present
<1>1. PublicationInv /\ [Next]_vars => [A]_vars
  <2> SUFFICES ASSUME PublicationInv, [Next]_vars PROVE A
    OBVIOUS
  <2>1. ASSUME NEW t \in Threads, Published(t) PROVE A
    <3>1. /\ work[t] = NewCatalogue(upload[t].snapshot, stash[t])
          /\ stash[t] \in [DirectRoles -> Row]
      BY <2>1 DEF Published, PublicationInv, Held, WorkHeld, TypeOK
    <3>2. \A d \in DirectRoles : live'[d] = Reapplied(stash[t][d], audit[d])
      BY <2>1, <3>1, RolesAssumption DEF Published, NewCatalogue, Roles
    <3>3. \A d \in DirectRoles : live'[d].present = stash[t][d].present
      BY <3>1, <3>2, ReappliedPresent
    <3> QED
      BY <2>1, <3>3 DEF Published
  <2>2. ASSUME UNCHANGED live PROVE A
    BY <2>2
  <2>3. ASSUME NEW a \in Admins, ApplyEdit(a) PROVE A
    <3> DEFINE c == form[a].correction
    <3>1. c \in Correction
      BY <2>3, CorrectionsAssumption DEF ApplyEdit, PublicationInv, TypeOK
    <3> HIDE DEF c
    <3>2. \/ UNCHANGED live
          \/ live' = [live EXCEPT ![c.role] = Corrected(live[c.role], c)]
      BY <2>3 DEF ApplyEdit, c
    <3>3. \A r \in Roles : live'[r].present = live[r].present
      <4>1. CASE UNCHANGED live
        BY <4>1
      <4>2. CASE live' = [live EXCEPT ![c.role] = Corrected(live[c.role], c)]
        <5>1. c.role \in Roles /\ live \in [Roles -> Row]
          BY <3>1 DEF Correction, PublicationInv, TypeOK
        <5>2. Corrected(live[c.role], c).present = live[c.role].present
          BY <3>1, <5>1, CorrectedPresent
        <5> QED
          BY <4>2, <5>1, <5>2
      <4> QED
        BY <3>2, <4>1, <4>2
    <3> QED
      BY <3>3 DEF Roles
  <2>4. ASSUME NEW d \in DirectRoles, Approve(d) PROVE A
    BY <2>4 DEF Approve, ApprovedRow, PublicationInv, TypeOK, Roles
  <2> QED
    BY <2>1, <2>2, <2>3, <2>4, WhoWrites DEF siteVars
<1> QED
  BY <1>1, PublicationInvariant, PTL DEF Spec, OnlyUnseenApprovalsAreLost

----------------------------------------------------------------------------
(* What readers find.                                                      *)

\* Two rows are the same but for how admin_hidden is written when their other
\* columns agree.
LEMMA SameColumns ==
    ASSUME NEW row \in Row, NEW other \in Row
    PROVE  SameButHidden(row, other) <=>
              /\ row.present = other.present /\ row.active = other.active
              /\ row.pay = other.pay /\ row.pinned = other.pinned
<1>1. [row EXCEPT !.hidden = other.hidden] =
        [present |-> row.present, active |-> row.active, hidden |-> other.hidden,
         pay |-> row.pay, pinned |-> row.pinned]
  BY DEF Row
<1>2. other = [present |-> other.present, active |-> other.active, hidden |-> other.hidden,
               pay |-> other.pay, pinned |-> other.pinned]
  BY DEF Row
<1> QED
  BY <1>1, <1>2 DEF SameButHidden

\* What a row carries, column by column.
LEMMA CarriesColumns ==
    ASSUME NEW row \in Row, NEW from \in Row, NEW a \in Audit, from.present
    PROVE  Carries(row, from, a) <=>
              /\ row.present
              /\ row.active = IF a.active = NoEdit THEN from.active
                              ELSE FromAuditActive(a.active)
              /\ row.pay = IF a.pay = NoEdit THEN from.pay ELSE a.pay
              /\ row.pinned = (from.pinned \/ a.pay # NoEdit)
              /\ row.hidden \in IF a.hidden = NoEdit THEN {from.hidden}
                                ELSE {a.hidden, HiddenCell(a.hidden)}
<1>1. Reapplied(from, a) \in Row
  BY ReappliedType
<1>2. /\ Reapplied(from, a).present = TRUE
      /\ Reapplied(from, a).active = IF a.active = NoEdit THEN from.active
                                     ELSE FromAuditActive(a.active)
      /\ Reapplied(from, a).pay = IF a.pay = NoEdit THEN from.pay ELSE a.pay
      /\ Reapplied(from, a).pinned = (from.pinned \/ a.pay # NoEdit)
  BY DEF Reapplied, Row
<1>3. row.present \in BOOLEAN
  BY DEF Row
<1> QED
  BY <1>1, <1>2, <1>3, SameColumns, ZenonT(60) DEF Carries

\* A row with its audit laid over it carries that audit.
LEMMA ReappliedCarries ==
    ASSUME NEW from \in Row, NEW a \in Audit
    PROVE  Carries(Reapplied(from, a), from, a)
BY DEF Carries, Reapplied, SameButHidden, FromAuditHidden, Row, Audit, AuditFlag

\* One more correction, made to the row and noted in its audit, is carried.
LEMMA CorrectedCarries ==
    ASSUME NEW row \in Row, NEW from \in Row, NEW a \in Audit, NEW c \in Correction,
           Carries(row, from, a)
    PROVE  Carries(IF row.present THEN Corrected(row, c) ELSE row, from, Noted(a, c))
<1>1. CASE ~from.present
  BY <1>1 DEF Carries
<1>2. CASE from.present
  <2> DEFINE new == Corrected(row, c)
             b == Noted(a, c)
  <2>0. row.present /\ new \in Row /\ b \in Audit
    BY <1>2, CarriesColumns, CorrectedType, NotedType
  <2>c. /\ row.active = IF a.active = NoEdit THEN from.active
                        ELSE FromAuditActive(a.active)
        /\ row.pay = IF a.pay = NoEdit THEN from.pay ELSE a.pay
        /\ row.pinned = (from.pinned \/ a.pay # NoEdit)
        /\ row.hidden \in IF a.hidden = NoEdit THEN {from.hidden}
                          ELSE {a.hidden, HiddenCell(a.hidden)}
    BY <1>2, CarriesColumns
  <2>1. CASE c.field = "active"
    <3>1. /\ c.value \in Flags /\ b.active = FlagText(c.value)
          /\ b.hidden = a.hidden /\ b.pay = a.pay
      BY <2>1 DEF Noted, Correction, Audit
    <3>2. /\ new.present = row.present /\ new.active = (c.value = "true")
          /\ new.hidden = row.hidden /\ new.pay = row.pay /\ new.pinned = row.pinned
      BY <2>1 DEF Corrected, Row
    <3>3. b.active # NoEdit /\ FromAuditActive(b.active) = (c.value = "true")
      BY <3>1, PaysAssumption DEF FlagText, FromAuditActive, Flags
    <3> HIDE DEF new, b
    <3>0. /\ from.present /\ new.present
          /\ new.active = IF b.active = NoEdit THEN from.active
                          ELSE FromAuditActive(b.active)
          /\ new.pay = IF b.pay = NoEdit THEN from.pay ELSE b.pay
          /\ new.pinned = (from.pinned \/ b.pay # NoEdit)
          /\ new.hidden \in IF b.hidden = NoEdit THEN {from.hidden}
                            ELSE {b.hidden, HiddenCell(b.hidden)}
      BY <1>2, <2>0, <2>c, <3>1, <3>2, <3>3
    <3>4. Carries(new, from, b)
      BY <2>0, <3>0, CarriesColumns
    <3> QED
      BY <2>0, <3>4 DEF new, b
  <2>2. CASE c.field = "hidden"
    <3>1. /\ c.value \in Flags /\ b.hidden = FlagText(c.value)
          /\ b.active = a.active /\ b.pay = a.pay
      BY <2>2 DEF Noted, Correction, Audit
    <3>2. /\ new.present = row.present /\ new.active = row.active
          /\ new.hidden = (IF c.value = "true" THEN "1" ELSE "0")
          /\ new.pay = row.pay /\ new.pinned = row.pinned
      BY <2>2 DEF Corrected, Row
    <3>3. b.hidden # NoEdit /\ HiddenCell(b.hidden) = new.hidden
      BY <3>1, <3>2, PaysAssumption DEF FlagText, HiddenCell, Flags
    <3> HIDE DEF new, b
    <3>0. /\ from.present /\ new.present
          /\ new.active = IF b.active = NoEdit THEN from.active
                          ELSE FromAuditActive(b.active)
          /\ new.pay = IF b.pay = NoEdit THEN from.pay ELSE b.pay
          /\ new.pinned = (from.pinned \/ b.pay # NoEdit)
          /\ new.hidden \in IF b.hidden = NoEdit THEN {from.hidden}
                            ELSE {b.hidden, HiddenCell(b.hidden)}
      BY <1>2, <2>0, <2>c, <3>1, <3>2, <3>3
    <3>4. Carries(new, from, b)
      BY <2>0, <3>0, CarriesColumns
    <3> QED
      BY <2>0, <3>4 DEF new, b
  <2>3. CASE c.field = "pay"
    <3>1. /\ c.value \in Pays /\ b.pay = c.value
          /\ b.active = a.active /\ b.hidden = a.hidden
      BY <2>3 DEF Noted, Correction, Audit
    <3>2. /\ new.present = row.present /\ new.active = row.active
          /\ new.hidden = row.hidden /\ new.pay = c.value /\ new.pinned = TRUE
      BY <2>3 DEF Corrected, Row
    <3>3. b.pay # NoEdit
      BY <3>1, PaysAssumption
    <3> HIDE DEF new, b
    <3>0. /\ from.present /\ new.present
          /\ new.active = IF b.active = NoEdit THEN from.active
                          ELSE FromAuditActive(b.active)
          /\ new.pay = IF b.pay = NoEdit THEN from.pay ELSE b.pay
          /\ new.pinned = (from.pinned \/ b.pay # NoEdit)
          /\ new.hidden \in IF b.hidden = NoEdit THEN {from.hidden}
                            ELSE {b.hidden, HiddenCell(b.hidden)}
      BY <1>2, <2>0, <2>c, <3>1, <3>2, <3>3
    <3>4. Carries(new, from, b)
      BY <2>0, <3>0, CarriesColumns
    <3> QED
      BY <2>0, <3>4 DEF new, b
  <2> QED
    BY <2>1, <2>2, <2>3 DEF Correction
<1> QED
  BY <1>1, <1>2

\* Every pipeline Role readers find is the last published one under the
\* corrections on record.
LEMMA NextContent ==
    PublicationInv /\ CatalogueIsOnePublication /\ [Next]_vars
        => CatalogueIsOnePublication'
<1> SUFFICES ASSUME PublicationInv, CatalogueIsOnePublication, [Next]_vars,
                    NEW r \in PipelineRoles
             PROVE  Carries(live'[r], base'[r], audit'[r])
  BY DEF CatalogueIsOnePublication
<1>0. /\ Carries(live[r], base[r], audit[r])
      /\ r \in Roles /\ live[r] \in Row /\ base[r] \in Row /\ audit[r] \in Audit
      /\ live \in [Roles -> Row] /\ audit \in [Roles -> Audit]
      /\ form \in [Admins -> [correction: Corrections, seen: Row] \cup {NoForm}]
      /\ \A t \in Threads : pc[t] # "idle" => upload[t].snapshot \in Catalogue
  BY SnapshotsAssumption, UploadsAssumption
     DEF CatalogueIsOnePublication, PublicationInv, TypeOK, Serving, Roles, Catalogue, Upload
<1>1. ASSUME UNCHANGED siteVars PROVE Carries(live'[r], base'[r], audit'[r])
  BY <1>0, <1>1 DEF siteVars
<1>2. ASSUME NEW t \in Threads, Published(t)
      PROVE  Carries(live'[r], base'[r], audit'[r])
  <2>1. work[t] = NewCatalogue(upload[t].snapshot, stash[t])
    BY <1>2 DEF Published, PublicationInv, Held, WorkHeld
  <2>2. /\ live'[r] = Reapplied(upload[t].snapshot[r], audit[r])
        /\ base'[r] = upload[t].snapshot[r] /\ audit' = audit
    BY <1>0, <1>2, <2>1 DEF Published, NewCatalogue
  <2>3. upload[t].snapshot[r] \in Row
    BY <1>0, <1>2 DEF Published, Catalogue
  <2> QED
    BY <1>0, <2>2, <2>3, ReappliedCarries
<1>3. ASSUME NEW a \in Admins, ApplyEdit(a)
      PROVE  Carries(live'[r], base'[r], audit'[r])
  <2> DEFINE c == form[a].correction
  <2>1. c \in Correction /\ c.role \in Roles
    BY <1>0, <1>3, CorrectionsAssumption DEF ApplyEdit, Correction
  <2> HIDE DEF c
  <2>2. base' = base
    BY <1>3 DEF ApplyEdit
  <2>3. CASE UNCHANGED <<live, audit>>
    BY <1>0, <2>2, <2>3
  <2>4. CASE /\ live' = IF live[c.role].present
                        THEN [live EXCEPT ![c.role] = Corrected(live[c.role], c)]
                        ELSE live
             /\ audit' = [audit EXCEPT ![c.role] = Noted(audit[c.role], c)]
    <3>1. CASE c.role = r
      <4>1. /\ live'[r] = IF live[r].present THEN Corrected(live[r], c) ELSE live[r]
            /\ audit'[r] = Noted(audit[r], c)
        BY <1>0, <2>4, <3>1
      <4> QED
        BY <1>0, <2>1, <2>2, <4>1, CorrectedCarries
    <3>2. CASE c.role # r
      BY <1>0, <2>1, <2>2, <2>4, <3>2
    <3> QED
      BY <3>1, <3>2
  <2> QED
    BY <1>3, <2>3, <2>4 DEF ApplyEdit, c
<1>4. ASSUME NEW d \in DirectRoles, Approve(d)
      PROVE  Carries(live'[r], base'[r], audit'[r])
  BY <1>0, <1>4, RolesAssumption DEF Approve
<1> QED
  BY <1>1, <1>2, <1>3, <1>4, WhoWrites

THEOREM OnePublication == Spec => []CatalogueIsOnePublication
<1>1. Init => CatalogueIsOnePublication
  <2> SUFFICES ASSUME Init, NEW r \in PipelineRoles
               PROVE  Carries(live[r], base[r], audit[r])
    BY DEF CatalogueIsOnePublication
  <2>1. live[r] = Seed[r] /\ base[r] = Seed[r] /\ audit[r] = NoAudit /\ Seed[r] \in Row
    BY SnapshotsAssumption DEF Init, Roles, Catalogue
  <2>2. NoAudit \in Audit
    BY DEF NoAudit, Audit, AuditFlag
  <2>3. Seed[r] = Reapplied(Seed[r], NoAudit)
    BY <2>1 DEF Reapplied, NoAudit, Row
  <2>4. Carries(Seed[r], Seed[r], NoAudit)
    BY <2>1, <2>2, <2>3, ReappliedCarries
  <2> QED
    BY <2>1, <2>4
<1>2. PublicationInv /\ CatalogueIsOnePublication /\ [Next]_vars
        => CatalogueIsOnePublication'
  BY NextContent
<1> QED
  BY <1>1, <1>2, PublicationInvariant, PTL DEF Spec

----------------------------------------------------------------------------
(* The direct Roles, read before the transaction and put back inside it.   *)

\* `row' carried an earlier audit: it may lack later corrections, and has none
\* that is not on record.
Fits(row, from, a) ==
    /\ row.present
    /\ a.active = NoEdit => row.active = from.active
    /\ a.pay = NoEdit => row.pay = from.pay /\ row.pinned = from.pinned
    /\ a.hidden = NoEdit => row.hidden = from.hidden

\* What one thread remembers of one direct Role.
Remembered(t, d) ==
    pc[t] \in {"begin", "import", "commit"} =>
        \/ stash[t][d] = AbsentRow
        \/ /\ Fits(stash[t][d], ApprovedRow, audit[d])
           /\ live[d].present /\ d \in approved

\* A direct Role on the board was approved and carries its corrections; one
\* that was never approved has left no trace.
OnRecord(d) ==
    /\ \/ live[d] = AbsentRow
       \/ live[d].present /\ d \in approved /\ Carries(live[d], ApprovedRow, audit[d])
    /\ d \notin approved =>
         /\ audit[d] = NoAudit
         /\ \A a \in Admins : form[a] # NoForm => form[a].correction.role # d

DirectInv ==
    \A d \in DirectRoles : OnRecord(d) /\ \A t \in Threads : Remembered(t, d)

\* A row that carries its audit fits it, and one more correction keeps it fit.
LEMMA CarriesFits ==
    ASSUME NEW row \in Row, NEW from \in Row, NEW a \in Audit, from.present,
           Carries(row, from, a)
    PROVE  Fits(row, from, a)
<1>1. /\ row.present
      /\ row.active = IF a.active = NoEdit THEN from.active
                      ELSE FromAuditActive(a.active)
      /\ row.pay = IF a.pay = NoEdit THEN from.pay ELSE a.pay
      /\ row.pinned = (from.pinned \/ a.pay # NoEdit)
      /\ row.hidden \in IF a.hidden = NoEdit THEN {from.hidden}
                        ELSE {a.hidden, HiddenCell(a.hidden)}
  BY CarriesColumns
<1>2. row.pinned \in BOOLEAN /\ from.pinned \in BOOLEAN
  BY DEF Row
<1> QED
  BY <1>1, <1>2 DEF Fits

LEMMA NotedFits ==
    ASSUME NEW row, NEW from, NEW a \in Audit, NEW c \in Correction, Fits(row, from, a)
    PROVE  Fits(row, from, Noted(a, c))
<1>1. /\ Noted(a, c).active = NoEdit => a.active = NoEdit
      /\ Noted(a, c).hidden = NoEdit => a.hidden = NoEdit
      /\ Noted(a, c).pay = NoEdit => a.pay = NoEdit
  <2>1. CASE c.field = "active"
    BY <2>1, PaysAssumption DEF Noted, Correction, Audit, FlagText
  <2>2. CASE c.field = "hidden"
    BY <2>2, PaysAssumption DEF Noted, Correction, Audit, FlagText
  <2>3. CASE c.field = "pay"
    BY <2>3, PaysAssumption DEF Noted, Correction, Audit, Flags
  <2> QED
    BY <2>1, <2>2, <2>3 DEF Correction
<1> QED
  BY <1>1 DEF Fits

\* The audit laid over a row that fits it gives a row that carries it.
LEMMA FitsCarries ==
    ASSUME NEW row \in Row, NEW from \in Row, NEW a \in Audit, from.present,
           Fits(row, from, a), from.pinned => row.pinned,
           ~from.pinned /\ a.pay = NoEdit => ~row.pinned
    PROVE  Carries(Reapplied(row, a), from, a)
<1> DEFINE new == Reapplied(row, a)
<1>1. new \in Row
  BY ReappliedType
<1>2. /\ new.present = row.present
      /\ new.active = IF a.active = NoEdit THEN row.active ELSE FromAuditActive(a.active)
      /\ new.pay = IF a.pay = NoEdit THEN row.pay ELSE a.pay
      /\ new.pinned = (row.pinned \/ a.pay # NoEdit)
      /\ new.hidden = IF a.hidden = NoEdit THEN row.hidden ELSE a.hidden
  BY DEF Reapplied, Row, Fits, FromAuditHidden
<1>3. row.pinned \in BOOLEAN /\ from.pinned \in BOOLEAN
  BY DEF Row
<1> HIDE DEF new
<1>4. /\ new.present
      /\ new.active = IF a.active = NoEdit THEN from.active ELSE FromAuditActive(a.active)
      /\ new.pay = IF a.pay = NoEdit THEN from.pay ELSE a.pay
      /\ new.pinned = (from.pinned \/ a.pay # NoEdit)
      /\ new.hidden \in IF a.hidden = NoEdit THEN {from.hidden}
                        ELSE {a.hidden, HiddenCell(a.hidden)}
  BY <1>2, <1>3 DEF Fits
<1>5. Carries(new, from, a)
  BY <1>1, <1>4, CarriesColumns
<1> QED
  BY <1>5 DEF new

LEMMA NextDirect == PublicationInv /\ DirectInv /\ [Next]_vars => DirectInv'
<1> SUFFICES ASSUME PublicationInv, DirectInv, [Next]_vars, NEW d \in DirectRoles
             PROVE  OnRecord(d)' /\ \A t \in Threads : Remembered(t, d)'
  BY DEF DirectInv
<1>0. /\ d \in Roles /\ d \notin PipelineRoles
      /\ live \in [Roles -> Row] /\ audit \in [Roles -> Audit]
      /\ pc \in [Threads -> PC] /\ stash \in [Threads -> [DirectRoles -> Row]]
      /\ form \in [Admins -> [correction: Corrections, seen: Row] \cup {NoForm}]
      /\ Exclusive /\ NoForm \notin [correction: Corrections, seen: Row]
      /\ \A t \in Threads : pc[t] = "commit" => work[t] = NewCatalogue(upload[t].snapshot, stash[t])
  BY RolesAssumption, NullsAssumption DEF PublicationInv, TypeOK, Roles, Held, WorkHeld
<1>1. OnRecord(d) /\ \A t \in Threads : Remembered(t, d)
  BY DEF DirectInv
<1>2. /\ AbsentRow \in Row /\ ApprovedRow \in Row /\ ~AbsentRow.present
      /\ ApprovedRow.present /\ ~ApprovedRow.pinned /\ NoAudit \in Audit
  BY AbsentIsRow DEF AbsentRow, ApprovedRow, NoAudit, Audit, AuditFlag
\* Steps of a request that neither read nor write the direct Roles.
<1>3. ASSUME UNCHANGED <<live, audit, approved, form>> PROVE OnRecord(d)'
  BY <1>1, <1>3 DEF OnRecord
<1>4. ASSUME NEW t \in Threads, UNCHANGED <<live, audit, approved>>,
             \A s \in Threads : s # t => pc'[s] = pc[s] /\ stash'[s] = stash[s],
             \/ pc'[t] \notin {"begin", "import", "commit"}
             \/ pc[t] \in {"begin", "import", "commit"} /\ stash'[t] = stash[t]
      PROVE  \A s \in Threads : Remembered(s, d)'
  BY <1>1, <1>4 DEF Remembered
<1>5. ASSUME NEW t \in Threads, NEW why, Leave(t, why), UNCHANGED siteVars
      PROVE  \A s \in Threads : Remembered(s, d)'
  <2>1. /\ pc'[t] = "done"
        /\ \A s \in Threads : s # t => pc'[s] = pc[s] /\ stash'[s] = stash[s]
    BY <1>0, <1>5 DEF Leave
  <2> QED
    BY <1>4, <1>5, <2>1 DEF siteVars
<1>6. ASSUME NEW t \in Threads, NEW label \in PC \ {"begin", "import", "commit"},
             Goto(t, label), UNCHANGED <<siteVars, stash>>
      PROVE  \A s \in Threads : Remembered(s, d)'
  <2>1. /\ pc'[t] = label /\ \A s \in Threads : s # t => pc'[s] = pc[s]
    BY <1>0, <1>6 DEF Goto
  <2> QED
    BY <1>4, <1>6, <2>1 DEF siteVars
<1>7. ASSUME NEW t \in Threads, NEW u \in Uploads, Receive(t, u)
      PROVE  OnRecord(d)' /\ \A s \in Threads : Remembered(s, d)'
  BY <1>3, <1>5, <1>6, <1>7 DEF Receive, siteVars, PC
<1>8. ASSUME NEW t \in Threads,
             Validate(t) \/ CheckReceipt(t) \/ BackUp(t) \/ Finish(t) \/ Fail(t) \/ Reply(t)
      PROVE  OnRecord(d)' /\ \A s \in Threads : Remembered(s, d)'
  <2>1. UNCHANGED <<siteVars, form>>
    BY <1>8 DEF Validate, CheckReceipt, BackUp, Finish, Fail, Reply
  <2>2. \/ \E why : Leave(t, why)
        \/ \E label \in PC \ {"begin", "import", "commit"} : Goto(t, label) /\ UNCHANGED stash
    BY <1>8 DEF Validate, CheckReceipt, BackUp, Finish, Fail, Reply, PC
  <2> QED
    BY <1>3, <1>5, <1>6, <2>1, <2>2 DEF siteVars
<1>9. ASSUME NEW t \in Threads, ReadDirect(t)
      PROVE  OnRecord(d)' /\ \A s \in Threads : Remembered(s, d)'
  <2>1. /\ UNCHANGED <<live, audit, approved, form>>
        /\ stash' = [stash EXCEPT ![t] = [e \in DirectRoles |-> live[e]]]
        /\ pc' = [pc EXCEPT ![t] = "begin"]
    BY <1>9 DEF ReadDirect, Goto, siteVars
  <2>2. stash'[t][d] = live[d]
    BY <1>0, <2>1
  <2>3. live[d] = AbsentRow \/ (Fits(live[d], ApprovedRow, audit[d]) /\ live[d].present /\ d \in approved)
    BY <1>0, <1>1, <1>2, CarriesFits DEF OnRecord
  <2>4. Remembered(t, d)'
    BY <2>1, <2>2, <2>3 DEF Remembered
  <2>5. \A s \in Threads : s # t => Remembered(s, d)'
    BY <1>0, <1>1, <2>1 DEF Remembered
  <2> QED
    BY <1>3, <2>1, <2>4, <2>5
<1>10. ASSUME NEW t \in Threads, Begin(t)
       PROVE  OnRecord(d)' /\ \A s \in Threads : Remembered(s, d)'
  <2>1. /\ pc[t] = "begin" /\ UNCHANGED <<live, audit, approved, form, stash>>
        /\ \A s \in Threads : s # t => pc'[s] = pc[s]
    BY <1>0, <1>10 DEF Begin, Goto, siteVars
  <2> QED
    BY <1>3, <1>4, <2>1
<1>11. ASSUME NEW t \in Threads, Import(t)
       PROVE  OnRecord(d)' /\ \A s \in Threads : Remembered(s, d)'
  <2>1. UNCHANGED <<siteVars, form>>
    BY <1>11 DEF Import
  <2>2. CASE upload[t].compatible
    <3>1. /\ pc[t] = "import" /\ UNCHANGED stash
          /\ \A s \in Threads : s # t => pc'[s] = pc[s]
      BY <1>0, <1>11, <2>2 DEF Import, Goto
    <3> QED
      BY <1>3, <1>4, <2>1, <3>1 DEF siteVars
  <2>3. CASE ~upload[t].compatible
    BY <1>3, <1>5, <1>11, <2>1, <2>3 DEF Import, siteVars
  <2> QED
    BY <2>2, <2>3
<1>12. ASSUME NEW t \in Threads, Published(t)
       PROVE  OnRecord(d)' /\ \A s \in Threads : Remembered(s, d)'
  <2>1. /\ pc[t] = "commit" /\ UNCHANGED <<audit, approved, form>>
        /\ live'[d] = Reapplied(stash[t][d], audit[d])
        /\ stash[t][d] \in Row /\ audit[d] \in Audit
    BY <1>0, <1>12 DEF Published, NewCatalogue
  <2>0. \A s \in Threads : Remembered(s, d)'
    <3>1. \A s \in Threads : pc'[s] \notin {"begin", "import", "commit"}
      BY <1>0, <1>12 DEF Published, Exclusive, Working, PC
    <3> QED
      BY <3>1 DEF Remembered
  <2>2. CASE stash[t][d] = AbsentRow
    <3>1. live'[d] = AbsentRow
      BY <1>2, <2>1, <2>2 DEF Reapplied
    <3> QED
      BY <1>1, <2>0, <2>1, <3>1 DEF OnRecord
  <2>3. CASE stash[t][d] # AbsentRow
    <3>1. Fits(stash[t][d], ApprovedRow, audit[d]) /\ d \in approved
      BY <1>1, <2>1, <2>3 DEF Remembered
    <3>2. Carries(live'[d], ApprovedRow, audit[d])
      BY <1>2, <2>1, <3>1, FitsCarries DEF Fits
    <3>3. live'[d].present
      BY <2>1, <3>1, ReappliedPresent DEF Fits
    <3> QED
      BY <1>1, <2>0, <2>1, <3>1, <3>2, <3>3 DEF OnRecord
  <2> QED
    BY <2>2, <2>3
<1>13. ASSUME NEW t \in Threads, Commit(t)
       PROVE  OnRecord(d)' /\ \A s \in Threads : Remembered(s, d)'
  BY <1>3, <1>5, <1>12, <1>13, CommitPublishes DEF Commit, siteVars
<1>14. ASSUME NEW a \in Admins, NEW c \in Corrections, OpenForm(a, c)
       PROVE  OnRecord(d)' /\ \A s \in Threads : Remembered(s, d)'
  <2>1. /\ UNCHANGED <<live, audit, approved, pc, stash>> /\ live[c.role].present
        /\ form' = [form EXCEPT ![a] = [correction |-> c, seen |-> live[c.role]]]
    BY <1>14 DEF OpenForm, siteVars, localVars
  <2>2. c.role = d => d \in approved
    BY <1>1, <1>2, <2>1 DEF OnRecord
  <2>3. OnRecord(d)'
    BY <1>0, <1>1, <2>1, <2>2 DEF OnRecord
  <2>4. \A s \in Threads : Remembered(s, d)'
    BY <1>1, <2>1 DEF Remembered
  <2> QED
    BY <2>3, <2>4
<1>15. ASSUME NEW a \in Admins, ApplyEdit(a)
       PROVE  OnRecord(d)' /\ \A s \in Threads : Remembered(s, d)'
  <2> DEFINE c == form[a].correction
  <2>1. /\ c \in Correction /\ c.role \in Roles
        /\ c.role = d => d \in approved
    BY <1>0, <1>1, <1>15, CorrectionsAssumption DEF ApplyEdit, Correction, OnRecord
  <2>2. form' = [form EXCEPT ![a] = NoForm] /\ UNCHANGED <<approved, pc, stash>>
    BY <1>15 DEF ApplyEdit, localVars
  <2> HIDE DEF c
  <2>3. CASE c.role # d \/ UNCHANGED <<live, audit>>
    <3>1. live'[d] = live[d] /\ audit'[d] = audit[d]
      BY <1>0, <1>15, <2>1, <2>3 DEF ApplyEdit, c
    <3> QED
      BY <1>0, <1>1, <2>2, <3>1 DEF OnRecord, Remembered
  <2>4. CASE /\ c.role = d
             /\ live' = IF live[c.role].present
                        THEN [live EXCEPT ![c.role] = Corrected(live[c.role], c)]
                        ELSE live
             /\ audit' = [audit EXCEPT ![c.role] = Noted(audit[c.role], c)]
    <3>1. /\ audit'[d] = Noted(audit[d], c)
          /\ live'[d] = IF live[d].present THEN Corrected(live[d], c) ELSE live[d]
          /\ live[d] \in Row /\ audit[d] \in Audit
      BY <1>0, <2>4
    <3>2. live'[d].present = live[d].present
      BY <2>1, <3>1, CorrectedPresent
    <3>3. live[d].present => Carries(live'[d], ApprovedRow, audit'[d])
      BY <1>1, <1>2, <2>1, <3>1, CorrectedCarries DEF OnRecord
    <3>4. OnRecord(d)'
      BY <1>1, <1>2, <2>1, <2>2, <2>4, <3>1, <3>2, <3>3 DEF OnRecord
    <3>5. ASSUME NEW s \in Threads PROVE Remembered(s, d)'
      BY <1>1, <2>1, <2>2, <3>1, <3>2, NotedFits DEF Remembered
    <3> QED
      BY <3>4, <3>5
  <2> QED
    BY <1>15, <2>3, <2>4 DEF ApplyEdit, c
<1>16. ASSUME NEW e \in DirectRoles, Approve(e)
       PROVE  OnRecord(d)' /\ \A s \in Threads : Remembered(s, d)'
  <2>1. /\ e \notin approved /\ live' = [live EXCEPT ![e] = ApprovedRow]
        /\ approved' = approved \cup {e} /\ UNCHANGED <<audit, pc, stash, form>>
    BY <1>16 DEF Approve, localVars
  <2>2. CASE e = d
    <3>1. live'[d] = ApprovedRow /\ audit'[d] = NoAudit /\ d \in approved'
      BY <1>0, <1>1, <2>1, <2>2 DEF OnRecord
    <3>2. Carries(ApprovedRow, ApprovedRow, NoAudit)
      <4>1. ApprovedRow = Reapplied(ApprovedRow, NoAudit)
        BY DEF Reapplied, ApprovedRow, NoAudit
      <4> QED
        BY <1>2, <4>1, ReappliedCarries
    <3>3. OnRecord(d)'
      BY <1>2, <3>1, <3>2 DEF OnRecord
    <3>4. \A s \in Threads : Remembered(s, d)'
      BY <1>1, <2>1, <2>2 DEF Remembered
    <3> QED
      BY <3>3, <3>4
  <2>3. CASE e # d
    BY <1>0, <1>1, <2>1, <2>3 DEF OnRecord, Remembered
  <2> QED
    BY <2>2, <2>3
<1>17. ASSUME Crash
       PROVE  OnRecord(d)' /\ \A s \in Threads : Remembered(s, d)'
  BY <1>1, <1>17 DEF Crash, siteVars, OnRecord, Remembered
<1>18. ASSUME UNCHANGED vars
       PROVE  OnRecord(d)' /\ \A s \in Threads : Remembered(s, d)'
  BY <1>1, <1>18 DEF vars, OnRecord, Remembered
<1> QED
  BY <1>7, <1>8, <1>9, <1>10, <1>11, <1>13, <1>14, <1>15, <1>16, <1>17, <1>18
     DEF Next, Step

LEMMA InitDirect == Init => DirectInv
BY RolesAssumption
   DEF Init, DirectInv, OnRecord, Remembered, Roles

\* A direct Role on the board carries every correction on record.
THEOREM DirectCarry == Spec => []DirectRolesCarryCorrections
<1>1. DirectInv => DirectRolesCarryCorrections
  BY DEF DirectInv, OnRecord, DirectRolesCarryCorrections, AbsentRow
<1> QED
  BY <1>1, InitDirect, NextDirect, PublicationInvariant, PTL DEF Spec

----------------------------------------------------------------------------
(* The publication implements the promise of ADR 0015.                     *)

\* Two rows that carry the same audit over the same row are the same but for
\* how admin_hidden is written.
LEMMA CarriesSame ==
    ASSUME NEW x \in Row, NEW y \in Row, NEW from \in Row, NEW a \in Audit,
           from.present, Carries(x, from, a), Carries(y, from, a)
    PROVE  SameButHidden(x, y)
<1> DEFINE active == IF a.active = NoEdit THEN from.active ELSE FromAuditActive(a.active)
           pay == IF a.pay = NoEdit THEN from.pay ELSE a.pay
           pinned == from.pinned \/ a.pay # NoEdit
<1>1. x.present /\ x.active = active /\ x.pay = pay /\ x.pinned = pinned
  BY CarriesColumns
<1>2. y.present /\ y.active = active /\ y.pay = pay /\ y.pinned = pinned
  BY CarriesColumns
<1>3. x.present \in BOOLEAN /\ y.present \in BOOLEAN
  BY DEF Row
<1> QED
  BY <1>1, <1>2, <1>3, SameColumns, ZenonT(60)

LEMMA SameRows ==
    /\ \A row, a : Handover!Reapplied(row, a) = Reapplied(row, a)
    /\ \A row, c : Handover!Corrected(row, c) = Corrected(row, c)
    /\ \A a, c : Handover!Noted(a, c) = Noted(a, c)
    /\ Handover!AbsentRow = AbsentRow /\ Handover!ApprovedRow = ApprovedRow
    /\ Handover!NoAudit = NoAudit /\ Handover!Roles = Roles
    /\ \A x, y : Handover!SameButHidden(x, y) = SameButHidden(x, y)
<1>1. \A row, a : Handover!Reapplied(row, a) = Reapplied(row, a)
  BY Zenon DEF Handover!Reapplied, Reapplied, Handover!FromAuditActive, FromAuditActive,
       Handover!FromAuditHidden, FromAuditHidden
<1>2. \A row, c : Handover!Corrected(row, c) = Corrected(row, c)
  BY Zenon DEF Handover!Corrected, Corrected
<1>3. \A a, c : Handover!Noted(a, c) = Noted(a, c)
  BY Zenon DEF Handover!Noted, Noted, Handover!FlagText, FlagText
<1>4. /\ Handover!AbsentRow = AbsentRow /\ Handover!ApprovedRow = ApprovedRow
      /\ Handover!NoAudit = NoAudit /\ Handover!Roles = Roles
  BY DEF Handover!AbsentRow, AbsentRow, Handover!ApprovedRow, ApprovedRow,
         Handover!NoAudit, NoAudit, Handover!Roles, Roles
<1>5. \A x, y : Handover!SameButHidden(x, y) = SameButHidden(x, y)
  BY Zenon DEF Handover!SameButHidden, SameButHidden
<1> QED
  BY <1>1, <1>2, <1>3, <1>4, <1>5

LEMMA HandoverStart == Init => Handover!HandoverInit
BY SameRows DEF Init, Handover!HandoverInit

\* A publication, a correction and an approval are the steps of the promise.
LEMMA HandoverStep ==
    PublicationInv /\ DirectInv /\ [Next]_vars
        => [Handover!HandoverNext]_(Handover!handoverVars)
<1> SUFFICES ASSUME PublicationInv, DirectInv, [Next]_vars
             PROVE  [Handover!HandoverNext]_(Handover!handoverVars)
  OBVIOUS
<1>0. /\ live \in [Roles -> Row] /\ audit \in [Roles -> Audit]
      /\ form \in [Admins -> [correction: Corrections, seen: Row] \cup {NoForm}]
      /\ \A t \in Threads : pc[t] = "commit" => work[t] = NewCatalogue(upload[t].snapshot, stash[t])
      /\ \A t \in Threads : pc[t] # "idle" => upload[t] \in Uploads
      /\ \A t \in Threads : pc[t] = "commit" => receipts[upload[t].run] = NoSnapshot
      /\ \A u \in Uploads : u.run \in Runs /\ u.snapshot \in Snapshots
      /\ stash \in [Threads -> [DirectRoles -> Row]]
  BY UploadsAssumption
     DEF PublicationInv, TypeOK, Held, WorkHeld, Serving, ReceiptInv, ReceiptsAgree, Upload
<1>1. ASSUME UNCHANGED siteVars PROVE UNCHANGED Handover!handoverVars
  BY <1>1 DEF siteVars, Handover!handoverVars
<1>2. ASSUME NEW t \in Threads, Published(t) PROVE Handover!HandoverNext
  <2> DEFINE n == upload[t].run
             s == upload[t].snapshot
  <2>1. /\ pc[t] = "commit" /\ live' = NewCatalogue(s, stash[t]) /\ audit' = audit
        /\ receipts' = [receipts EXCEPT ![n] = s] /\ receipts[n] = NoSnapshot
        /\ n \in Runs /\ s \in Snapshots
    BY <1>0, <1>2 DEF Published
  <2> HIDE DEF n, s
  <2>2. \A r \in PipelineRoles : live'[r] = Reapplied(s[r], audit[r])
    BY <2>1 DEF NewCatalogue, Roles
  <2>3. ASSUME NEW d \in DirectRoles
        PROVE  live'[d] = AbsentRow \/ (live[d].present /\ SameButHidden(live'[d], live[d]))
    <3>1. /\ live'[d] = Reapplied(stash[t][d], audit[d]) /\ stash[t][d] \in Row
          /\ audit[d] \in Audit /\ live[d] \in Row
      BY <1>0, <2>1, RolesAssumption DEF NewCatalogue, Roles
    <3>2. CASE stash[t][d] = AbsentRow
      BY <3>1, <3>2 DEF Reapplied, AbsentRow
    <3>3. CASE stash[t][d] # AbsentRow
      <4>1. Fits(stash[t][d], ApprovedRow, audit[d]) /\ live[d].present
        BY <2>1, <3>3 DEF DirectInv, Remembered
      <4>2. /\ ApprovedRow.present /\ ~ApprovedRow.pinned /\ ApprovedRow \in Row
        BY AbsentIsRow DEF ApprovedRow
      <4>3. Carries(live'[d], ApprovedRow, audit[d]) /\ live'[d] \in Row
        BY <3>1, <4>1, <4>2, FitsCarries, ReappliedType DEF Fits
      <4>4. Carries(live[d], ApprovedRow, audit[d])
        BY <4>1 DEF DirectInv, OnRecord, AbsentRow
      <4> QED
        BY <3>1, <4>1, <4>2, <4>3, <4>4, CarriesSame
    <3> QED
      BY <3>2, <3>3
  <2>4. Handover!Publish(n, s)
    BY <2>1, <2>2, <2>3, SameRows DEF Handover!Publish
  <2> QED
    BY <2>1, <2>4 DEF Handover!HandoverNext
<1>3. ASSUME NEW a \in Admins, ApplyEdit(a) PROVE [Handover!HandoverNext]_(Handover!handoverVars)
  <2> DEFINE c == form[a].correction
  <2>1. c \in Corrections /\ receipts' = receipts
    BY <1>0, <1>3 DEF ApplyEdit
  <2> HIDE DEF c
  <2>2. CASE UNCHANGED <<live, audit>>
    BY <2>1, <2>2 DEF Handover!handoverVars
  <2>3. CASE /\ live' = IF live[c.role].present
                        THEN [live EXCEPT ![c.role] = Corrected(live[c.role], c)]
                        ELSE live
             /\ audit' = [audit EXCEPT ![c.role] = Noted(audit[c.role], c)]
    <3>1. Handover!Correct(c)
      BY <2>1, <2>3, SameRows, Zenon DEF Handover!Correct
    <3> QED
      BY <2>1, <3>1 DEF Handover!HandoverNext
  <2> QED
    BY <1>3, <2>2, <2>3 DEF ApplyEdit, c
<1>4. ASSUME NEW d \in DirectRoles, Approve(d) PROVE Handover!HandoverNext
  <2>1. Handover!GoLive(d)
    BY <1>4, SameRows DEF Approve, Handover!GoLive
  <2> QED
    BY <2>1 DEF Handover!HandoverNext
<1> QED
  BY <1>1, <1>2, <1>3, <1>4, WhoWrites

\* Every behaviour of the publication is one the promise allows.
THEOREM Refinement == Spec => HandsOver
BY InitDirect, NextDirect, HandoverStart, HandoverStep, PublicationInvariant, PTL
   DEF Spec, HandsOver, Handover!HandoverSpec

----------------------------------------------------------------------------
(* Migrations: the statements of the phases.                               *)

\* What a statement that only adds to the schema does, or one that reads rows.
SchemaOnly == {"table", "column", "index", "indexwith", "reads"}

\* A list of statements, each of which does one of what is named.
Consists(q, what) ==
    /\ Len(q) \in Nat /\ DOMAIN q = 1..Len(q)
    /\ \A i \in 1..Len(q) : q[i].does \in what

\* Every phase but four only adds to the schema or reads.
LEMMA SchemaPhases ==
    ASSUME NEW n \in Phases \ {30, 35, 39, 42}
    PROVE  Consists(Statements(n), SchemaOnly)
  <1> USE DEF St, JobsTable, Col, Index, IndexWith, Cols, Rows, J, E
  <1>10. Consists(phase_10, SchemaOnly)
    BY DEF phase_10, ensure_schema, Consists, SchemaOnly
  <1>11. Consists(phase_11, SchemaOnly)
    BY DEF phase_11, Consists, SchemaOnly
  <1>12. Consists(phase_12, SchemaOnly)
    BY DEF phase_12, Consists, SchemaOnly
  <1>13. Consists(phase_13, SchemaOnly)
    BY DEF phase_13, Consists, SchemaOnly
  <1>14. Consists(phase_14, SchemaOnly)
    BY DEF phase_14, Consists, SchemaOnly
  <1>15. Consists(phase_15, SchemaOnly)
    BY DEF phase_15, Consists, SchemaOnly
  <1>16. Consists(phase_16, SchemaOnly)
    BY DEF phase_16, Consists, SchemaOnly
  <1>17. Consists(phase_17, SchemaOnly)
    BY DEF phase_17, Consists, SchemaOnly
  <1>18. Consists(phase_18, SchemaOnly)
    BY DEF phase_18, Consists, SchemaOnly
  <1>19. Consists(phase_19, SchemaOnly)
    BY DEF phase_19, Consists, SchemaOnly
  <1>20. Consists(phase_20, SchemaOnly)
    BY DEF phase_20, Consists, SchemaOnly
  <1>21. Consists(phase_21, SchemaOnly)
    BY DEF phase_21, Consists, SchemaOnly
  <1>22. Consists(phase_22, SchemaOnly)
    BY DEF phase_22, Consists, SchemaOnly
  <1>23. Consists(phase_23, SchemaOnly)
    BY DEF phase_23, Consists, SchemaOnly
  <1>24. Consists(phase_24, SchemaOnly)
    BY DEF phase_24, Consists, SchemaOnly
  <1>25. Consists(phase_25, SchemaOnly)
    BY DEF phase_25, Consists, SchemaOnly
  <1>26. Consists(phase_26, SchemaOnly)
    BY DEF phase_26, Consists, SchemaOnly
  <1>27. Consists(phase_27, SchemaOnly)
    BY DEF phase_27, Consists, SchemaOnly
  <1>28. Consists(phase_28, SchemaOnly)
    BY DEF phase_28, Consists, SchemaOnly
  <1>29. Consists(phase_29, SchemaOnly)
    BY DEF phase_29, Consists, SchemaOnly
  <1>31. Consists(phase_31, SchemaOnly)
    BY DEF phase_31, Consists, SchemaOnly
  <1>32. Consists(phase_32, SchemaOnly)
    BY DEF phase_32, Consists, SchemaOnly
  <1>33. Consists(phase_33, SchemaOnly)
    BY DEF phase_33, Consists, SchemaOnly
  <1>34. Consists(phase_34, SchemaOnly)
    BY DEF phase_34, Consists, SchemaOnly
  <1>36. Consists(phase_36, SchemaOnly)
    BY DEF phase_36, Consists, SchemaOnly
  <1>37. Consists(phase_37, SchemaOnly)
    BY DEF phase_37, Consists, SchemaOnly
  <1>38. Consists(phase_38, SchemaOnly)
    BY DEF phase_38, Consists, SchemaOnly
  <1>40. Consists(phase_40, SchemaOnly)
    BY DEF phase_40, Consists, SchemaOnly
  <1>41. Consists(phase_41, SchemaOnly)
    BY DEF phase_41, Consists, SchemaOnly
  <1>43. Consists(phase_43, SchemaOnly)
    BY DEF phase_43, Consists, SchemaOnly
  <1> QED
    BY <1>10, <1>11, <1>12, <1>13, <1>14, <1>15, <1>16, <1>17, <1>18, <1>19, <1>20, <1>21,
       <1>22, <1>23, <1>24, <1>25, <1>26, <1>27, <1>28, <1>29, <1>31, <1>32, <1>33, <1>34,
       <1>36, <1>37, <1>38, <1>40, <1>41, <1>43 DEF Statements, MIGRATIONS, Phases

Kinds == SchemaOnly \cup {"date", "undate", "reopen", "copy", "drop", "rename", "lock", "pick"}

\* The four others, and what they alone do.
LEMMA FourPhases ==
    Statements(30) = phase_30 /\ Statements(35) = phase_35 /\ Statements(39) = phase_39 /\ Statements(42) = phase_42
  BY DEF Statements, MIGRATIONS

LEMMA OneOfAKind ==
    ASSUME NEW n \in Phases
    PROVE  /\ Consists(Statements(n), Kinds)
           /\ n # 35 => Consists(Statements(n), Kinds \ {"copy", "drop", "rename"})
           /\ n # 30 => Consists(Statements(n), Kinds \ {"date", "undate"})
           /\ n # 42 => Consists(Statements(n), Kinds \ {"lock", "pick"})
  <1> USE DEF St, JobsTable, Col, Index, Rows, J, E
  <1>1. CASE n \notin {30, 35, 39, 42}
    BY <1>1, SchemaPhases DEF Consists, Kinds, SchemaOnly
  <1>2. CASE n = 30
    BY <1>2, FourPhases DEF Consists, Kinds, SchemaOnly, phase_30
  <1>3. CASE n = 35
    <2>1. Consists(phase_35, {"table", "copy", "drop", "rename", "index"})
      BY DEF Consists, phase_35
    <2> QED
      BY <1>3, <2>1, FourPhases DEF Consists, Kinds, SchemaOnly
  <1>4. CASE n = 39
    BY <1>4, FourPhases DEF Consists, Kinds, SchemaOnly, phase_39
  <1>5. CASE n = 42
    <2>1. Consists(phase_42, {"table", "lock", "pick"})
      BY DEF Consists, phase_42
    <2> QED
      BY <1>5, <2>1, FourPhases DEF Consists, Kinds, SchemaOnly
  <1> QED
    BY <1>1, <1>2, <1>3, <1>4, <1>5

\* The closing dates, the company runs and the locked week, statement by statement.
LEMMA DatingPhase ==
    /\ Len(Statements(30)) = 3
    /\ Statements(30)[1].does = "column" /\ Statements(30)[2].does = "date" /\ Statements(30)[3].does = "undate"
  BY FourPhases DEF phase_30, St, Col, Rows

LEMMA RekeyingPhase ==
    /\ Len(Statements(35)) = 5
    /\ Statements(35)[1] = St("table", "company_runs_v2", "none")
    /\ Statements(35)[2] = St("copy", "pipeline_company_runs", "none")
    /\ Statements(35)[3] = St("drop", "pipeline_company_runs", "none")
    /\ Statements(35)[4] = St("rename", "company_runs_v2", "pipeline_company_runs")
    /\ Statements(35)[5] = St("index", "pipeline_company_runs", "date")
  BY FourPhases DEF phase_35, JobsTable, Index, Rows

LEMMA LockingPhase ==
    /\ Len(Statements(42)) = 4
    /\ Statements(42)[1].does = "table" /\ Statements(42)[2].does = "table"
    /\ Statements(42)[3].does = "lock" /\ Statements(42)[4].does = "pick"
  BY FourPhases DEF phase_42, St, JobsTable, Rows

----------------------------------------------------------------------------
(* Migrations: the invariant.                                              *)

Listings == [active : BOOLEAN, dated : BOOLEAN, tech : BOOLEAN]
IsDatabase(d) ==
    /\ DOMAIN d = {"tables", "columns", "indexes", "ledger", "runs", "copied", "rows", "week"}
    /\ d.ledger \subseteq Phases /\ d.rows \subseteq Listings

MigrationsTyped ==
    /\ began \in Starts /\ IsDatabase(db) /\ IsDatabase(job)
    /\ wrote \in BOOLEAN /\ running \in Phases \cup {0, -1} /\ step \in Nat \ {0}

\* What the connection sees is what is committed, unless it has written.
SeesTheCommitted ==
    /\ ~wrote => job = db
    /\ job.ledger = db.ledger
    /\ running <= 0 => ~wrote

\* The phases before the one at work are on record, it is not, and it ends with its rows committed.
PhasesAreInOrder ==
    running > 0 =>
        /\ running \notin db.ledger /\ \A n \in 10..(running - 1) : n \in db.ledger
        /\ step <= Len(Statements(running)) + 2
        /\ step = Len(Statements(running)) + 2 => ~wrote

\* A statement on the schema has had its effect.
Applied(d, s) ==
    /\ s.does = "table" => s.table \in d.tables
    /\ s.does = "column" => <<s.table, s.name>> \in d.columns

\* Between the drop and the rename of phase 35 no table has the name.
Renaming == running = 35 /\ step = 4

WholeBut(d, n, gone) ==
    \A s \in Range(Statements(n)) :
        /\ s.does = "table" /\ s.table \notin gone => s.table \in d.tables
        /\ s.does = "column" => <<s.table, s.name>> \in d.columns

RecordedIsWhole ==
    \A n \in db.ledger :
        /\ WholeBut(db, n, {"company_runs_v2"})
        /\ WholeBut(job, n, {"company_runs_v2"} \cup (IF Renaming THEN {"pipeline_company_runs"} ELSE {}))

\* What the phase at work has behind it.
BehindIsApplied ==
    running > 0 /\ running # 35 =>
        \A i \in 1..Len(Statements(running)) : i < step => Applied(job, Statements(running)[i])

\* The runs are committed under one key or the other; on their way they are in the copy.
RunsAreKept ==
    /\ running = 35 /\ step \in 3..6 => wrote
    /\ began.phase = 34 =>
        /\ CompanyRuns \subseteq db.runs
        /\ ~Renaming => CompanyRuns \subseteq job.runs
        /\ running = 35 /\ step \in 3..4 => CompanyRuns \subseteq job.copied

Dated(rs) == \A r \in rs : r.active # r.dated
DatesAreSet ==
    /\ 30 \in db.ledger => Dated(db.rows) /\ Dated(job.rows)
    /\ running = 30 /\ step = 3 => \A r \in job.rows : ~r.active => r.dated
    /\ running = 30 /\ step >= 4 => Dated(job.rows)

WeeksAreFilled ==
    /\ db.week # "locked"
    /\ job.week = "locked" => running = 42 /\ step = 4 /\ wrote

MigrationsInv ==
    /\ MigrationsTyped /\ SeesTheCommitted /\ PhasesAreInOrder /\ RecordedIsWhole /\ BehindIsApplied
    /\ RunsAreKept /\ DatesAreSet /\ WeeksAreFilled

----------------------------------------------------------------------------
(* Migrations: what a statement does to a database.                        *)

LEMMA StatementsKeepDatabases ==
    ASSUME IsDatabase(job), NEW s, s.does \in Kinds
    PROVE  /\ IsDatabase(After(s)) /\ After(s).ledger = job.ledger
  <1> DEFINE d == After(s)
  <1>1. CASE s.does = "table"
    BY <1>1 DEF After, IsDatabase
  <1>2. CASE s.does \in {"column", "index", "indexwith", "reads"}
    BY <1>2 DEF After, IsDatabase
  <1>3. CASE s.does = "date"
    BY <1>3 DEF After, IsDatabase, Listings
  <1>4. CASE s.does = "undate"
    BY <1>4 DEF After, IsDatabase, Listings
  <1>5. CASE s.does = "reopen"
    BY <1>5 DEF After, IsDatabase, Listings, Reopened
  <1>6. CASE s.does \in {"copy", "drop", "rename", "lock", "pick"}
    BY <1>6 DEF After, IsDatabase
  <1> QED
    BY <1>1, <1>2, <1>3, <1>4, <1>5, <1>6 DEF Kinds, SchemaOnly

\* The change of the key, statement by statement.
LEMMA RekeyingEffects ==
    ASSUME IsDatabase(job), NEW i \in 1..5, NEW d, d = After(Statements(35)[i])
    PROVE  /\ d.columns = job.columns
           /\ i = 1 => d.tables = job.tables \cup {"company_runs_v2"} /\ d.runs = job.runs
           /\ i = 2 => d.tables = job.tables /\ d.runs = job.runs /\ d.copied = job.copied \cup job.runs
           /\ i = 3 => d.tables = job.tables \ {"pipeline_company_runs"} /\ d.copied = job.copied
           /\ i = 4 => /\ d.tables = (job.tables \ {"company_runs_v2"}) \cup {"pipeline_company_runs"}
                      /\ d.runs = job.copied
           /\ i = 5 => d.tables = job.tables /\ d.runs = job.runs
  <1> DEFINE s == Statements(35)[i]
  <1>1. CASE i = 1
    <2>1. s.does = "table" /\ s.table = "company_runs_v2"
      BY <1>1, RekeyingPhase DEF St
    <2>2. After(s) = [job EXCEPT !.tables = @ \cup {"company_runs_v2"}, !.columns = @ \cup {<<J, c>> : c \in {}}]
      BY <2>1 DEF After, J
    <2>3. d.columns = job.columns /\ d.tables = job.tables \cup {"company_runs_v2"} /\ d.runs = job.runs
      <3>1. {<<J, c>> : c \in {}} = {}
        OBVIOUS
      <3> QED
        BY <2>2, <3>1 DEF IsDatabase
    <2> QED
      BY <1>1, <2>3
  <1>2. CASE i = 2
    <2>1. s.does = "copy"
      BY <1>2, RekeyingPhase DEF St
    <2>2. After(s) = [job EXCEPT !.copied = @ \cup job.runs]
      BY <2>1 DEF After
    <2>3. d.columns = job.columns /\ d.tables = job.tables /\ d.runs = job.runs /\ d.copied = job.copied \cup job.runs
      BY <2>2 DEF IsDatabase
    <2> QED
      BY <1>2, <2>3
  <1>3. CASE i = 3
    <2>1. s.does = "drop" /\ s.table = "pipeline_company_runs"
      BY <1>3, RekeyingPhase DEF St
    <2>2. After(s) = [job EXCEPT !.tables = @ \ {"pipeline_company_runs"}, !.runs = {}]
      BY <2>1 DEF After
    <2>3. d.columns = job.columns /\ d.tables = job.tables \ {"pipeline_company_runs"} /\ d.copied = job.copied
      BY <2>2 DEF IsDatabase
    <2> QED
      BY <1>3, <2>3
  <1>4. CASE i = 4
    <2>1. s.does = "rename" /\ s.table = "company_runs_v2" /\ s.name = "pipeline_company_runs"
      BY <1>4, RekeyingPhase DEF St
    <2>2. After(s) = [job EXCEPT !.tables = (@ \ {"company_runs_v2"}) \cup {"pipeline_company_runs"}, !.runs = job.copied,
                                 !.copied = {}]
      BY <2>1 DEF After
    <2>3. d.columns = job.columns /\ d.tables = (job.tables \ {"company_runs_v2"}) \cup {"pipeline_company_runs"} /\ d.runs = job.copied
      BY <2>2 DEF IsDatabase
    <2> QED
      BY <1>4, <2>3
  <1>5. CASE i = 5
    <2>1. s.does = "index"
      BY <1>5, RekeyingPhase DEF St
    <2>2. After(s) = [job EXCEPT !.indexes = @ \cup {<<s.table, s.name>>}]
      BY <2>1 DEF After
    <2>3. d.columns = job.columns /\ d.tables = job.tables /\ d.runs = job.runs
      BY <2>2 DEF IsDatabase
    <2> QED
      BY <1>5, <2>3
  <1> QED
    BY <1>1, <1>2, <1>3, <1>4, <1>5

\* All but the drop and the rename add to the schema.
LEMMA StatementsAdd ==
    ASSUME IsDatabase(job), NEW s, s.does \in Kinds \ {"copy", "drop", "rename"}
    PROVE  /\ job.tables \subseteq After(s).tables /\ job.columns \subseteq After(s).columns
           /\ Applied(After(s), s)
           /\ After(s).runs = job.runs /\ After(s).copied = job.copied
  <1>1. CASE s.does = "table"
    BY <1>1 DEF After, IsDatabase, Applied
  <1>2. CASE s.does \in {"column", "index", "indexwith", "reads"}
    BY <1>2 DEF After, IsDatabase, Applied
  <1>3. CASE s.does \in {"date", "undate", "reopen", "lock", "pick"}
    BY <1>3 DEF After, IsDatabase, Applied
  <1> QED
    BY <1>1, <1>2, <1>3 DEF Kinds, SchemaOnly

\* Rows change by three statements.
LEMMA StatementsDate ==
    ASSUME IsDatabase(job), NEW s, s.does \in Kinds
    PROVE  /\ s.does \notin {"date", "undate"} /\ Dated(job.rows) => Dated(After(s).rows)
           /\ s.does \in SchemaOnly => After(s).rows = job.rows
           /\ s.does = "date" => \A r \in After(s).rows : ~r.active => r.dated
           /\ s.does = "undate" /\ (\A r \in job.rows : ~r.active => r.dated) => Dated(After(s).rows)
  <1>1. CASE s.does \in SchemaOnly
    BY <1>1 DEF After, IsDatabase, SchemaOnly
  <1>2. CASE s.does = "date"
    BY <1>2 DEF After, IsDatabase, SchemaOnly, Listings
  <1>3. CASE s.does = "undate"
    BY <1>3 DEF After, IsDatabase, SchemaOnly, Listings, Dated
  <1>4. CASE s.does = "reopen"
    BY <1>4 DEF After, IsDatabase, SchemaOnly, Listings, Dated, Reopened
  <1>5. CASE s.does \in {"copy", "drop", "rename", "lock", "pick"}
    BY <1>5 DEF After, IsDatabase, SchemaOnly
  <1> QED
    BY <1>1, <1>2, <1>3, <1>4, <1>5 DEF Kinds

\* The week changes by two.
LEMMA StatementsLock ==
    ASSUME IsDatabase(job), NEW s, s.does \in Kinds
    PROVE  /\ s.does \notin {"lock", "pick"} => After(s).week = job.week
           /\ s.does = "pick" => After(s).week # "locked"
  <1>1. CASE s.does = "table"
    BY <1>1 DEF After, IsDatabase
  <1>2. CASE s.does \in {"column", "index", "indexwith", "reads"}
    BY <1>2 DEF After, IsDatabase
  <1>3. CASE s.does \in {"date", "undate", "reopen", "copy", "drop", "rename", "lock", "pick"}
    BY <1>3 DEF After, IsDatabase
  <1> QED
    BY <1>1, <1>2, <1>3 DEF Kinds, SchemaOnly


----------------------------------------------------------------------------
(* Migrations: every step keeps the invariant.                             *)

LEMMA MigrationsStart ==
    ASSUME MigrationsAssumption, MigrationsInit
    PROVE  MigrationsInv
  <1> DEFINE k == began.phase
             d == MigratedTo(k)
  <1>1. k \in 9..43 /\ began \in Starts /\ began.ledger \in BOOLEAN
    BY DEF MigrationsAssumption, MigrationsInit
  <1>2. /\ IsDatabase(db) /\ (db.ledger = {} \/ db.ledger = 10..k)
        /\ db.tables = d.tables /\ db.columns = d.columns /\ db.runs = d.runs
        /\ db.rows = d.rows /\ db.week = "open"
    <2>1. d.rows \subseteq Listings
      <3>1. \A r \in RowsAtStart : r \in Listings /\ [r EXCEPT !.dated = FALSE] \in Listings
        BY DEF MigrationsAssumption, Listings
      <3> QED
        BY <3>1 DEF MigratedTo
    <2>2. 10..k \subseteq Phases
      BY <1>1 DEF Phases
    <2> QED
      BY <1>1, <2>1, <2>2 DEF MigrationsInit, MigratedTo, Unrecorded, IsDatabase
  <1>3. job = db /\ wrote = FALSE /\ running = -1 /\ step = 1
    BY DEF MigrationsInit
  <1>4. RecordedIsWhole
    <2> SUFFICES ASSUME NEW n \in 10..k PROVE WholeBut(d, n, {"company_runs_v2"})
      BY <1>2, <1>3 DEF RecordedIsWhole, WholeBut, Renaming
    <2> SUFFICES ASSUME NEW s \in Range(Statements(n))
                 PROVE  /\ s.does = "table" => s.table \in d.tables
                        /\ s.does = "column" => <<s.table, s.name>> \in d.columns
      BY DEF WholeBut
    <2>1. s \in Until(k)
      BY DEF Until
    <2> QED
      BY <2>1 DEF MigratedTo
  <1>5. DatesAreSet
    <2>1. k >= 30 => Dated(d.rows)
      BY <1>1 DEF MigratedTo, Dated
    <2>2. ASSUME 30 \in db.ledger PROVE k >= 30
      <3>1. 30 \in 10..k
        BY <1>2, <2>2
      <3> QED
        BY <1>1, <3>1
    <2> QED
      BY <1>2, <1>3, <2>1, <2>2 DEF DatesAreSet
  <1>6. RunsAreKept
    BY <1>2, <1>3 DEF RunsAreKept, MigratedTo
  <1>7. MigrationsTyped /\ SeesTheCommitted
    <2>1. IsDatabase(job) /\ job.ledger = db.ledger
      BY <1>2, <1>3
    <2>2. running \in Phases \cup {0, -1}
      BY <1>3
    <2>3. step \in Nat \ {0}
      BY <1>3
    <2>4. wrote \in BOOLEAN
      BY <1>3
    <2> QED
      BY <1>1, <1>2, <1>3, <2>1, <2>2, <2>3, <2>4 DEF MigrationsTyped, SeesTheCommitted
  <1>8. PhasesAreInOrder /\ BehindIsApplied
    BY <1>3 DEF PhasesAreInOrder, BehindIsApplied
  <1>9. WeeksAreFilled
    BY <1>2, <1>3 DEF WeeksAreFilled
  <1> QED
    BY <1>4, <1>5, <1>6, <1>7, <1>8, <1>9 DEF MigrationsInv

\* A statement of a phase is run whole: nothing of phase 35 is left out, since phase 34 is on record.
LEMMA StatementsAreRun ==
    ASSUME MigrationsInv, AtStatement
    PROVE  LET n == running
               s == Statements(n)[step]
           IN /\ n \in Phases /\ n > 0 /\ step \in 1..Len(Statements(n)) /\ s = Now
              /\ IsDatabase(job) /\ IsDatabase(db) /\ DOMAIN Statements(n) = 1..Len(Statements(n))
              /\ Len(Statements(n)) \in Nat /\ s.does \in Kinds /\ ~LeftOut(s)
              /\ Execute => /\ job' = After(s) /\ wrote' = (wrote \/ OpensATransaction(s)) /\ step' = step + 1
                            /\ (wrote' => db' = db) /\ (~wrote' => db' = job')
                            /\ UNCHANGED <<began, running, seen, editor, found, lost>>
  <1> DEFINE n == running
             s == Statements(n)[step]
  <1>1. /\ n \in Phases /\ n > 0 /\ step \in 1..Len(Statements(n)) /\ s = Now
        /\ IsDatabase(job) /\ IsDatabase(db) /\ DOMAIN Statements(n) = 1..Len(Statements(n))
        /\ Len(Statements(n)) \in Nat /\ s.does \in Kinds
    <2>1. n \in Phases /\ step \in 1..Len(Statements(n))
      BY DEF AtStatement, MigrationsInv, MigrationsTyped, Phases
    <2>2. n > 0 /\ s = Now /\ IsDatabase(job) /\ IsDatabase(db)
      BY DEF AtStatement, Now, MigrationsInv, MigrationsTyped
    <2>3. Consists(Statements(n), Kinds)
      BY <2>1, OneOfAKind
    <2> QED
      BY <2>1, <2>2, <2>3 DEF Consists
  <1>2. n = 35 => 34 \in db.ledger /\ "pipeline_company_runs" \in db.tables
    <2> SUFFICES ASSUME n = 35 PROVE 34 \in db.ledger /\ "pipeline_company_runs" \in db.tables
      OBVIOUS
    <2>1. 34 \in db.ledger
      BY DEF MigrationsInv, PhasesAreInOrder
    <2>2. Statements(34)[1] = JobsTable("pipeline_company_runs") /\ 1 \in DOMAIN Statements(34)
      BY DEF Statements, MIGRATIONS, phase_34
    <2>3. JobsTable("pipeline_company_runs") \in Range(Statements(34))
      BY <2>2 DEF Range
    <2>4. WholeBut(db, 34, {"company_runs_v2"})
      BY <2>1 DEF MigrationsInv, RecordedIsWhole
    <2> QED
      BY <2>1, <2>3, <2>4 DEF WholeBut, JobsTable, St
  <1>3. ~LeftOut(s)
    BY <1>2 DEF LeftOut
  <1>4. Execute => /\ job' = After(s) /\ wrote' = (wrote \/ OpensATransaction(s)) /\ step' = step + 1
                   /\ (wrote' => db' = db) /\ (~wrote' => db' = job')
                   /\ UNCHANGED <<began, running, seen, editor, found, lost>>
    BY <1>1, <1>3 DEF Execute
  <1> QED
    BY <1>1, <1>3, <1>4

\* A statement that can be run leaves what is on record whole.
LEMMA StatementsRun ==
    ASSUME MigrationsInv, Execute
    PROVE  MigrationsInv'
  <1> DEFINE n == running
             s == Statements(n)[step]
  <1>1. /\ n \in Phases /\ n > 0 /\ step \in 1..Len(Statements(n)) /\ step' = step + 1
        /\ IsDatabase(job) /\ IsDatabase(db) /\ DOMAIN Statements(n) = 1..Len(Statements(n))
        /\ Len(Statements(n)) \in Nat /\ s.does \in Kinds
    BY StatementsAreRun DEF Execute
  <1>2. /\ job' = After(s) /\ wrote' = (wrote \/ OpensATransaction(s)) /\ (wrote' => db' = db) /\ (~wrote' => db' = job')
        /\ running' = running /\ began' = began
    BY StatementsAreRun DEF Execute
  <1>3. IsDatabase(job') /\ IsDatabase(db') /\ job'.ledger = db'.ledger /\ db'.ledger = db.ledger /\ wrote' \in BOOLEAN
    BY <1>1, <1>2, StatementsKeepDatabases DEF MigrationsInv, SeesTheCommitted, MigrationsTyped, OpensATransaction
  <1>4. MigrationsTyped' /\ SeesTheCommitted' /\ PhasesAreInOrder'
    <2>1. MigrationsTyped'
      BY <1>1, <1>2, <1>3 DEF MigrationsInv, MigrationsTyped
    <2>2. SeesTheCommitted'
      BY <1>1, <1>2, <1>3 DEF SeesTheCommitted, Phases
    <2>3. PhasesAreInOrder'
      BY <1>1, <1>2, <1>3 DEF MigrationsInv, PhasesAreInOrder
    <2> QED
      BY <2>1, <2>2, <2>3
  <1>5. n # 35 => RecordedIsWhole' /\ BehindIsApplied' /\ RunsAreKept'
    <2> SUFFICES ASSUME n # 35 PROVE RecordedIsWhole' /\ BehindIsApplied' /\ RunsAreKept'
      OBVIOUS
    <2>1. s.does \in Kinds \ {"copy", "drop", "rename"}
      BY <1>1, OneOfAKind DEF Consists
    <2>2. /\ job.tables \subseteq job'.tables /\ job.columns \subseteq job'.columns /\ Applied(job', s)
          /\ job'.runs = job.runs /\ job'.copied = job.copied
      BY <1>1, <1>2, <2>1, StatementsAdd
    <2>3. RecordedIsWhole'
      <3>1. ~Renaming /\ ~Renaming'
        BY <1>2 DEF Renaming
      <3>2. \A p \in db.ledger : WholeBut(job', p, {"company_runs_v2"})
        BY <2>2, <3>1 DEF MigrationsInv, RecordedIsWhole, WholeBut
      <3>3. \A p \in db.ledger : WholeBut(db', p, {"company_runs_v2"})
        BY <1>2, <3>2 DEF MigrationsInv, RecordedIsWhole
      <3> QED
        BY <1>3, <3>1, <3>2, <3>3 DEF RecordedIsWhole, WholeBut
    <2>4. BehindIsApplied'
      <3> SUFFICES ASSUME NEW i \in 1..Len(Statements(n)), i < step + 1 PROVE Applied(job', Statements(n)[i])
        BY <1>1, <1>2 DEF BehindIsApplied
      <3>1. CASE i = step
        BY <2>2, <3>1
      <3>2. CASE i < step
        BY <1>1, <2>2, <3>2 DEF MigrationsInv, BehindIsApplied, Applied
      <3> QED
        BY <1>1, <3>1, <3>2
    <2>5. RunsAreKept'
      BY <1>2, <2>2 DEF MigrationsInv, RunsAreKept, Renaming
    <2> QED
      BY <2>3, <2>4, <2>5
  <1>6. n = 35 => RecordedIsWhole' /\ BehindIsApplied' /\ RunsAreKept'
    <2> SUFFICES ASSUME n = 35 PROVE RecordedIsWhole' /\ RunsAreKept'
      BY <1>2 DEF BehindIsApplied
    <2> DEFINE old == "pipeline_company_runs"
               new == "company_runs_v2"
    <2>1. step \in 1..5 /\ Renaming = (step = 4) /\ Renaming' = (step = 3)
      BY <1>1, <1>2, RekeyingPhase DEF Renaming
    <2>2. /\ job.columns \subseteq job'.columns
          /\ step \in {1, 2, 5} => job.tables \subseteq job'.tables /\ job'.runs = job.runs
          /\ step = 2 => job'.copied = job.copied \cup job.runs
          /\ step = 3 => job'.tables = job.tables \ {old} /\ job'.copied = job.copied
          /\ step = 4 => job'.tables = (job.tables \ {new}) \cup {old} /\ job'.runs = job.copied
          /\ step = 2 => wrote'
      <3>1. job' = After(Statements(35)[step])
        BY <1>2
      <3>2. step = 2 => s.does = "copy"
        BY RekeyingPhase DEF St
      <3>3. step = 2 => wrote'
        BY <1>2, <3>2 DEF OpensATransaction
      <3> QED
        BY <1>1, <2>1, <3>1, <3>3, RekeyingEffects
    <2>3. step \in 3..5 => wrote /\ wrote'
      <3> SUFFICES ASSUME step \in 3..5 PROVE wrote
        BY <1>2
      <3>1. running = 35 /\ step \in 3..6
        OBVIOUS
      <3> QED
        BY <3>1 DEF MigrationsInv, RunsAreKept
    <2>4. RunsAreKept'
      <3>1. running' = 35 /\ step' \in 3..6 => wrote'
        BY <1>1, <1>2, <2>1, <2>2, <2>3
      <3>2. began.phase = 34 => CompanyRuns \subseteq job.runs \/ step = 4
        BY <2>1 DEF MigrationsInv, RunsAreKept
      <3>3. began.phase = 34 /\ step \in 3..4 => CompanyRuns \subseteq job.copied
        BY DEF MigrationsInv, RunsAreKept
      <3>4. began.phase = 34 => (step = 3 \/ CompanyRuns \subseteq job'.runs)
        BY <2>1, <2>2, <3>2, <3>3
      <3>5. began.phase = 34 /\ step \in 2..3 => CompanyRuns \subseteq job'.copied
        BY <2>1, <2>2, <3>2, <3>3
      <3>6. began.phase = 34 => CompanyRuns \subseteq db'.runs
        BY <1>2, <2>1, <2>3, <3>4 DEF MigrationsInv, RunsAreKept
      <3> QED
        <4>1. step' = step + 1 /\ step \in 1..5 /\ began' = began /\ (step' \in 3..4 => step \in 2..3)
          BY <1>1, <1>2, <2>1
        <4>2. began'.phase = 34 => (~Renaming' => CompanyRuns \subseteq job'.runs)
          BY <2>1, <3>4, <4>1
        <4> QED
          BY <3>1, <3>5, <3>6, <4>1, <4>2 DEF RunsAreKept
    <2>5. RecordedIsWhole'
      <3> SUFFICES ASSUME NEW p \in db.ledger, NEW q \in Range(Statements(p))
                   PROVE  /\ q.does = "table" /\ q.table # new => q.table \in db'.tables
                          /\ q.does = "table" /\ q.table # new /\ (step = 3 => q.table # old) => q.table \in job'.tables
                          /\ q.does = "column" => /\ <<q.table, q.name>> \in db'.columns
                                                  /\ <<q.table, q.name>> \in job'.columns
        BY <1>3, <2>1 DEF RecordedIsWhole, WholeBut
      <3>1. /\ q.does = "table" /\ q.table # new => q.table \in db.tables
            /\ q.does = "table" /\ q.table # new /\ (step = 4 => q.table # old) => q.table \in job.tables
            /\ q.does = "column" => /\ <<q.table, q.name>> \in db.columns /\ <<q.table, q.name>> \in job.columns
        BY <2>1 DEF MigrationsInv, RecordedIsWhole, WholeBut
      <3>2. q.does = "column" => <<q.table, q.name>> \in job'.columns
        BY <2>2, <3>1
      <3>3. q.does = "table" /\ q.table # new /\ (step = 3 => q.table # old) => q.table \in job'.tables
        BY <2>1, <2>2, <3>1
      <3>4. CASE wrote'
        BY <1>2, <3>1, <3>2, <3>3, <3>4
      <3>5. CASE ~wrote'
        BY <1>2, <2>1, <2>3, <3>2, <3>3, <3>5
      <3> QED
        BY <3>4, <3>5
    <2> QED
      BY <2>4, <2>5
  <1>7. DatesAreSet'
    <2>1. n # 30 => s.does \notin {"date", "undate"}
      BY <1>1, OneOfAKind DEF Consists
    <2>2. n = 30 => step \in 1..3 /\ (step = 2 => s.does = "date") /\ (step = 3 => s.does = "undate")
      BY <1>1, DatingPhase
    <2>3. 30 \in db.ledger => n # 30 /\ Dated(db.rows) /\ Dated(job.rows)
      BY <1>1 DEF MigrationsInv, PhasesAreInOrder, DatesAreSet
    <2>4. 30 \in db.ledger => Dated(job'.rows) /\ Dated(db'.rows)
      BY <1>1, <1>2, <2>1, <2>3, StatementsDate
    <2>5. n = 30 /\ step = 2 => \A r \in job'.rows : ~r.active => r.dated
      BY <1>1, <1>2, <2>2, StatementsDate
    <2>6. n = 30 /\ step = 3 => Dated(job'.rows)
      BY <1>1, <1>2, <2>2, StatementsDate DEF MigrationsInv, DatesAreSet
    <2> QED
      BY <1>1, <1>2, <1>3, <2>2, <2>4, <2>5, <2>6 DEF DatesAreSet
  <1>8. WeeksAreFilled'
    <2>1. n # 42 => s.does \notin {"lock", "pick"}
      BY <1>1, OneOfAKind DEF Consists
    <2>2. n = 42 => step \in 1..4 /\ (step \in 1..2 => s.does = "table") /\ (step = 3 => s.does = "lock")
                    /\ (step = 4 => s.does = "pick")
      BY <1>1, LockingPhase
    <2>3. job'.week = "locked" => n = 42 /\ step = 3
      BY <1>1, <1>2, <2>1, <2>2, StatementsLock DEF MigrationsInv, WeeksAreFilled
    <2>4. n = 42 /\ step = 3 => wrote'
      BY <1>2, <2>2 DEF OpensATransaction
    <2> QED
      BY <1>1, <1>2, <2>3, <2>4 DEF MigrationsInv, WeeksAreFilled
  <1> QED
    BY <1>4, <1>5, <1>6, <1>7, <1>8 DEF MigrationsInv


\* Some numbers have a least one.
LEMMA LeastOf ==
    ASSUME NEW S \in SUBSET Nat, S # {}
    PROVE  \E x \in S : \A y \in S : x <= y
  <1>1. PICK x \in S : \A y \in S : <<y, x>> \notin OpToRel(<, Nat)
    BY WFMin, NatLessThanWellFounded, Zenon
  <1>2. \A y \in S : ~(y < x)
    BY <1>1 DEF OpToRel
  <1> QED
    BY <1>2

\* The first phase that is pending.
LEMMA FirstPending ==
    ASSUME Pending # {}
    PROVE  Min(Pending) \in Pending /\ \A n \in 10..(Min(Pending) - 1) : n \in db.ledger
  <1>1. Pending \subseteq Nat
    BY DEF Pending, Phases
  <1>2. PICK m \in Pending : \A y \in Pending : m <= y
    BY <1>1, LeastOf
  <1>3. Min(Pending) \in Pending /\ \A y \in Pending : Min(Pending) <= y
    BY <1>2 DEF Min
  <1> QED
    BY <1>3 DEF Pending, Phases

LEMMA PhasesStart ==
    ASSUME MigrationsInv, StartPhase
    PROVE  MigrationsInv'
  <1> DEFINE n == Min(Pending)
  <1>1. /\ n \in Phases \ db.ledger /\ \A p \in 10..(n - 1) : p \in db.ledger
        /\ running' = n /\ running = 0 /\ step' = 1 /\ db' = db /\ job' = job /\ wrote' = wrote /\ began' = began
    BY FirstPending DEF StartPhase, Pending
  <1>2. ~wrote /\ job = db
    BY <1>1 DEF MigrationsInv, SeesTheCommitted
  <1>3. MigrationsTyped' /\ SeesTheCommitted'
    BY <1>1, <1>2 DEF MigrationsInv, MigrationsTyped, SeesTheCommitted
  <1>4. PhasesAreInOrder' /\ BehindIsApplied'
    <2>1. Consists(Statements(n), Kinds)
      BY <1>1, OneOfAKind
    <2> QED
      BY <1>1, <1>2, <2>1 DEF PhasesAreInOrder, BehindIsApplied, Consists
  <1>5. RecordedIsWhole'
    BY <1>1 DEF MigrationsInv, RecordedIsWhole, WholeBut, Renaming
  <1>6. RunsAreKept' /\ DatesAreSet' /\ WeeksAreFilled'
    BY <1>1, <1>2 DEF MigrationsInv, RunsAreKept, DatesAreSet, WeeksAreFilled, Renaming
  <1> QED
    BY <1>3, <1>4, <1>5, <1>6 DEF MigrationsInv

\* Between two phases, and when all are applied, nothing of a phase is under way.
LEMMA MigrationsRest ==
    ASSUME MigrationsInv, BeginPhase \/ AllApplied \/ UNCHANGED migrationVars
    PROVE  MigrationsInv'
  <1>1. CASE UNCHANGED migrationVars
    BY <1>1 DEF migrationVars, MigrationsInv, MigrationsTyped, SeesTheCommitted, PhasesAreInOrder, RecordedIsWhole,
       WholeBut, Renaming, BehindIsApplied, Applied, RunsAreKept, DatesAreSet, WeeksAreFilled
  <1>2. CASE BeginPhase \/ AllApplied
    <2>1. /\ running \in {0, -1} /\ running' \in {0, -1}
          /\ db' = db /\ job' = job /\ wrote' = wrote /\ began' = began /\ step' = step
      BY <1>2 DEF BeginPhase, AllApplied
    <2>2. ~wrote
      BY <2>1 DEF MigrationsInv, SeesTheCommitted
    <2>3. MigrationsTyped' /\ SeesTheCommitted'
      BY <2>1, <2>2 DEF MigrationsInv, MigrationsTyped, SeesTheCommitted
    <2>4. PhasesAreInOrder' /\ BehindIsApplied'
      <3>1. ~(running' > 0)
        BY <2>1
      <3> QED
        BY <3>1 DEF PhasesAreInOrder, BehindIsApplied
    <2>5. RecordedIsWhole'
      BY <2>1 DEF MigrationsInv, RecordedIsWhole, WholeBut, Renaming
    <2>6. RunsAreKept' /\ DatesAreSet' /\ WeeksAreFilled'
      BY <2>1 DEF MigrationsInv, RunsAreKept, DatesAreSet, WeeksAreFilled, Renaming
    <2> QED
      BY <2>3, <2>4, <2>5, <2>6 DEF MigrationsInv
  <1> QED
    BY <1>1, <1>2

\* The end of a phase commits its rows.
LEMMA PhasesCommit ==
    ASSUME MigrationsInv, CommitPhase
    PROVE  MigrationsInv'
  <1>1. /\ running \in Phases /\ running > 0 /\ step = Len(Statements(running)) + 1 /\ step' = step + 1 /\ step \in Nat
        /\ db' = job /\ job' = job /\ ~wrote' /\ wrote' \in BOOLEAN /\ running' = running /\ began' = began
    <2>1. running \in Phases /\ step \in Nat
      BY DEF CommitPhase, MigrationsInv, MigrationsTyped
    <2>2. wrote' = FALSE
      BY DEF CommitPhase
    <2> QED
      BY <2>1, <2>2 DEF CommitPhase
  <1>2. Len(Statements(running)) \in Nat
    BY <1>1, OneOfAKind DEF Consists
  <1>3. (running = 35 => step = 6) /\ (running = 42 => step = 5) /\ (running = 30 => step = 4)
    <2>1. ASSUME running = 35 PROVE step = 6
      <3>1. Len(Statements(running)) = 5
        BY <2>1, RekeyingPhase
      <3> QED
        BY <1>1, <3>1
    <2>2. ASSUME running = 42 PROVE step = 5
      <3>1. Len(Statements(running)) = 4
        BY <2>2, LockingPhase
      <3> QED
        BY <1>1, <3>1
    <2>3. ASSUME running = 30 PROVE step = 4
      <3>1. Len(Statements(running)) = 3
        BY <2>3, DatingPhase
      <3> QED
        BY <1>1, <3>1
    <2> QED
      BY <2>1, <2>2, <2>3
  <1>4. ~Renaming /\ ~Renaming'
    BY <1>1, <1>3 DEF Renaming
  <1>5. MigrationsTyped' /\ SeesTheCommitted'
    BY <1>1 DEF MigrationsInv, MigrationsTyped, SeesTheCommitted
  <1>6. PhasesAreInOrder' /\ BehindIsApplied'
    BY <1>1, <1>2 DEF MigrationsInv, PhasesAreInOrder, SeesTheCommitted, BehindIsApplied, Applied
  <1>7. RecordedIsWhole'
    <2>1. job.ledger = db.ledger
      BY DEF MigrationsInv, SeesTheCommitted
    <2> QED
      BY <1>1, <1>4, <2>1 DEF MigrationsInv, RecordedIsWhole, WholeBut
  <1>8. RunsAreKept'
    BY <1>1, <1>3, <1>4 DEF MigrationsInv, RunsAreKept
  <1>9. DatesAreSet'
    BY <1>1, <1>3 DEF MigrationsInv, DatesAreSet, SeesTheCommitted
  <1>10. WeeksAreFilled'
    BY <1>1, <1>3 DEF MigrationsInv, WeeksAreFilled
  <1> QED
    BY <1>5, <1>6, <1>7, <1>8, <1>9, <1>10 DEF MigrationsInv

\* A phase goes on record when all of it is behind.
LEMMA PhasesAreRecorded ==
    ASSUME MigrationsInv, Record
    PROVE  MigrationsInv'
  <1> DEFINE n == running
  <1>1. /\ n \in Phases /\ n > 0 /\ step = Len(Statements(n)) + 2 /\ step' = step
        /\ db' = [db EXCEPT !.ledger = @ \cup {n}] /\ job' = db' /\ running' = 0 /\ wrote' = wrote /\ began' = began
    <2>1. n \in Phases
      BY DEF Record, MigrationsInv, MigrationsTyped
    <2> QED
      BY <2>1 DEF Record
  <1>2. ~wrote /\ job = db /\ wrote \in BOOLEAN /\ step \in Nat
    <2>1. ~wrote
      BY <1>1 DEF MigrationsInv, PhasesAreInOrder
    <2>2. job = db
      BY <2>1 DEF MigrationsInv, SeesTheCommitted
    <2>3. wrote \in BOOLEAN /\ step \in Nat
      BY DEF MigrationsInv, MigrationsTyped
    <2> QED
      BY <2>1, <2>2, <2>3
  <1>3. /\ Consists(Statements(n), Kinds) /\ (n = 35 => step = 7) /\ (n = 30 => step = 5)
    <2>1. ASSUME n = 35 PROVE step = 7
      <3>1. Len(Statements(n)) = 5
        BY <2>1, RekeyingPhase
      <3> QED
        BY <1>1, <3>1
    <2>2. ASSUME n = 30 PROVE step = 5
      <3>1. Len(Statements(n)) = 3
        BY <2>2, DatingPhase
      <3> QED
        BY <1>1, <3>1
    <2>3. Consists(Statements(n), Kinds)
      BY <1>1, OneOfAKind
    <2> QED
      BY <2>1, <2>2, <2>3
  <1>4. /\ IsDatabase(db) /\ IsDatabase(db') /\ db'.ledger = db.ledger \cup {n}
        /\ db'.tables = db.tables /\ db'.columns = db.columns /\ db'.runs = db.runs /\ db'.rows = db.rows
        /\ db'.week = db.week
    BY <1>1 DEF MigrationsInv, MigrationsTyped, IsDatabase
  <1>5. MigrationsTyped' /\ SeesTheCommitted' /\ PhasesAreInOrder' /\ BehindIsApplied'
    <2>1. MigrationsTyped'
      BY <1>1, <1>2, <1>4 DEF MigrationsInv, MigrationsTyped
    <2> QED
      BY <1>1, <1>2, <2>1 DEF SeesTheCommitted, PhasesAreInOrder, BehindIsApplied
  <1>6. ~Renaming'
    BY <1>1 DEF Renaming
  <1>7. RecordedIsWhole'
    <2> SUFFICES ASSUME NEW p \in db.ledger \cup {n} PROVE WholeBut(db', p, {"company_runs_v2"})
      BY <1>1, <1>4, <1>6 DEF RecordedIsWhole, WholeBut
    <2>1. CASE p \in db.ledger
      BY <1>4, <2>1 DEF MigrationsInv, RecordedIsWhole, WholeBut
    <2>2. CASE p = n /\ n = 35
      <3>1. Statements(35) = phase_35
        BY FourPhases
      <3>2. \A q \in Range(Statements(35)) : q.does # "column" /\ (q.does = "table" => q.table = "company_runs_v2")
        <4> SUFFICES ASSUME NEW i \in 1..5
                     PROVE  LET q == Statements(35)[i]
                            IN q.does # "column" /\ (q.does = "table" => q.table = "company_runs_v2")
          BY <1>3, <2>2, RekeyingPhase DEF Range, Consists
        <4> QED
          BY RekeyingPhase DEF St
      <3> QED
        BY <2>2, <3>2 DEF WholeBut
    <2>3. CASE p = n /\ n # 35
      <3> SUFFICES ASSUME NEW q \in Range(Statements(n)) PROVE Applied(db', q)
        BY <2>3 DEF WholeBut, Applied
      <3>1. PICK i \in 1..Len(Statements(n)) : q = Statements(n)[i]
        BY <1>3 DEF Range, Consists
      <3>2. i < step
        BY <1>1, <1>3, <3>1 DEF Consists
      <3>3. Applied(db, q)
        BY <1>1, <1>2, <2>3, <3>1, <3>2 DEF MigrationsInv, BehindIsApplied
      <3> QED
        BY <1>4, <3>3 DEF Applied
    <2> QED
      BY <2>1, <2>2, <2>3
  <1>8. RunsAreKept'
    <2>1. ~Renaming
      BY <1>3 DEF Renaming
    <2> QED
      BY <1>1, <1>2, <1>4, <2>1 DEF MigrationsInv, RunsAreKept
  <1>9. DatesAreSet'
    BY <1>1, <1>2, <1>3, <1>4 DEF MigrationsInv, DatesAreSet
  <1>10. WeeksAreFilled'
    BY <1>1, <1>2, <1>4 DEF MigrationsInv, WeeksAreFilled
  <1> QED
    BY <1>5, <1>7, <1>8, <1>9, <1>10 DEF MigrationsInv

\* A phase that raises and a process that is lost leave what was committed.
LEMMA PhasesEnd ==
    ASSUME MigrationsInv, RaisePhase \/ Die
    PROVE  MigrationsInv'
  <1>1. /\ db' = db /\ job' = db /\ ~wrote' /\ wrote' \in BOOLEAN /\ running' = -1 /\ step' = step /\ began' = began
    BY DEF RaisePhase, Die
  <1>2. MigrationsTyped' /\ SeesTheCommitted'
    BY <1>1 DEF MigrationsInv, MigrationsTyped, SeesTheCommitted
  <1>3. PhasesAreInOrder' /\ BehindIsApplied'
    BY <1>1 DEF PhasesAreInOrder, BehindIsApplied
  <1>4. RecordedIsWhole'
    BY <1>1 DEF MigrationsInv, RecordedIsWhole, WholeBut, Renaming
  <1>5. RunsAreKept' /\ DatesAreSet' /\ WeeksAreFilled'
    BY <1>1 DEF MigrationsInv, RunsAreKept, DatesAreSet, WeeksAreFilled, Renaming
  <1> QED
    BY <1>2, <1>3, <1>4, <1>5 DEF MigrationsInv

\* The editor only adds to the schema, and only while nobody else has written.
LEMMA EditorsAdd ==
    ASSUME MigrationsInv, Editor
    PROVE  MigrationsInv'
  <1>1. CASE EditorReads
    BY <1>1 DEF EditorReads, MigrationsInv, MigrationsTyped, SeesTheCommitted, PhasesAreInOrder, RecordedIsWhole,
       WholeBut, Renaming, BehindIsApplied, Applied, RunsAreKept, DatesAreSet, WeeksAreFilled
  <1>2. ASSUME /\ ~wrote /\ job' = db' /\ IsDatabase(db')
               /\ db'.ledger = db.ledger /\ db.tables \subseteq db'.tables /\ db.columns \subseteq db'.columns
               /\ db'.runs = db.runs /\ db'.copied = db.copied /\ db'.rows = db.rows /\ db'.week = db.week
               /\ UNCHANGED <<began, wrote, running, step>>
        PROVE  MigrationsInv'
    <2>1. job = db
      BY <1>2 DEF MigrationsInv, SeesTheCommitted
    <2>2. MigrationsTyped' /\ SeesTheCommitted' /\ PhasesAreInOrder'
      BY <1>2 DEF MigrationsInv, MigrationsTyped, SeesTheCommitted, PhasesAreInOrder
    <2>3. RecordedIsWhole'
      BY <1>2, <2>1 DEF MigrationsInv, RecordedIsWhole, WholeBut, Renaming
    <2>4. BehindIsApplied'
      BY <1>2, <2>1 DEF MigrationsInv, BehindIsApplied, Applied
    <2>5. RunsAreKept' /\ DatesAreSet' /\ WeeksAreFilled'
      BY <1>2, <2>1 DEF MigrationsInv, RunsAreKept, DatesAreSet, WeeksAreFilled, Renaming
    <2> QED
      BY <2>2, <2>3, <2>4, <2>5 DEF MigrationsInv
  <1>3. ASSUME NEW t, NEW c, NEW from, NEW to, EditorAdds(t, c, from, to) PROVE MigrationsInv'
    BY <1>2, <1>3 DEF EditorAdds, IsDatabase, MigrationsInv, MigrationsTyped
  <1>4. CASE EditorCreates
    BY <1>2, <1>4 DEF EditorCreates, IsDatabase, MigrationsInv, MigrationsTyped
  <1> QED
    BY <1>1, <1>3, <1>4 DEF Editor


----------------------------------------------------------------------------
(* Migrations: each phase finds the tables and columns it speaks of.        *)

\* A statement of a list speaks of a table and a column that were there, or that an earlier
\* statement of the list has added.
Speaks(q, i, tables, columns) ==
    q[i].does # "table" =>
        /\ \/ q[i].table \in tables
           \/ \E j \in 1..(i - 1) : q[j].does = "table" /\ q[j].table = q[i].table
        /\ q[i].does \in {"index", "indexwith", "reads", "date", "undate", "reopen"} /\ q[i].name \notin {"none", "date"} =>
           \/ <<q[i].table, q[i].name>> \in columns
           \/ \E j \in 1..(i - 1) : q[j].does = "column" /\ q[j].table = q[i].table /\ q[j].name = q[i].name

\* Every statement of a list does, and the list adds no column twice.
Follows(q, tables, columns) ==
    /\ \A i \in 1..Len(q) : Speaks(q, i, tables, columns)
    /\ \A i, j \in 1..Len(q) : i # j /\ q[i].does = "column" /\ q[j].does = "column" =>
           q[i].table # q[j].table \/ q[i].name # q[j].name

\* What the phases before this one add.
TablesBefore(n) == {s.table : s \in {x \in Until(n - 1) : x.does = "table"}} \ {"company_runs_v2"}
ColumnsBefore(n) == {<<s.table, s.name>> : s \in {x \in Until(n - 1) : x.does = "column"}}

LEMMA FollowsMore ==
    ASSUME NEW q, NEW t, NEW c, Follows(q, t, c), NEW tables, NEW columns, t \subseteq tables, c \subseteq columns
    PROVE  Follows(q, tables, columns)
  BY DEF Follows, Speaks

LEMMA AddedBefore ==
    ASSUME NEW n \in Phases, NEW m \in Phases, m < n, NEW i \in DOMAIN Statements(m), NEW s, s = Statements(m)[i]
    PROVE  /\ s.does = "table" /\ s.table # "company_runs_v2" => s.table \in TablesBefore(n)
           /\ s.does = "column" => <<s.table, s.name>> \in ColumnsBefore(n)
  <1>1. m \in 10..(n - 1)
    BY DEF Phases
  <1>2. s \in Range(Statements(m))
    BY DEF Range
  <1>3. s \in Until(n - 1)
    BY <1>1, <1>2 DEF Until
  <1> QED
    BY <1>3 DEF TablesBefore, ColumnsBefore

\* What later phases speak of, and the phase that adds it.
LEMMA WhatIsThere ==
    ASSUME NEW n \in Phases
    PROVE  /\ n > 10 => J \in TablesBefore(n)
           /\ n > 12 => E \in TablesBefore(n)
           /\ n > 19 => <<J, "apply_url">> \in ColumnsBefore(n)
           /\ n > 18 => <<E, "title_en">> \in ColumnsBefore(n)
           /\ n > 14 => <<E, "salary_estimated_min">> \in ColumnsBefore(n)
           /\ n > 14 => <<E, "salary_estimated_max">> \in ColumnsBefore(n)
           /\ n > 23 => <<E, "prompt_version">> \in ColumnsBefore(n)
           /\ n > 26 => "linkedin_posts" \in TablesBefore(n)
           /\ n > 26 => "recruiter_fetch_state" \in TablesBefore(n)
           /\ n > 38 => <<J, "vacancy_id">> \in ColumnsBefore(n)
  <1> USE DEF St, JobsTable, Col, Index, Cols, J, E
  <1>1. n > 10 => J \in TablesBefore(n)
    <2>1. 10 \in Phases /\ 1 \in DOMAIN Statements(10) /\ Statements(10)[1] = St("table", J, "none")
      BY DEF Phases, Statements, MIGRATIONS, phase_10, ensure_schema
    <2>2. Statements(10)[1].table = J /\ Statements(10)[1].does = "table"
      BY <2>1
    <2> QED
      BY <2>1, <2>2, AddedBefore
  <1>2. n > 12 => E \in TablesBefore(n)
    <2>1. 12 \in Phases /\ 1 \in DOMAIN Statements(12) /\ Statements(12)[1] = St("table", E, "none")
      BY DEF Phases, Statements, MIGRATIONS, phase_12
    <2>2. Statements(12)[1].table = E /\ Statements(12)[1].does = "table"
      BY <2>1
    <2> QED
      BY <2>1, <2>2, AddedBefore
  <1>3. n > 19 => <<J, "apply_url">> \in ColumnsBefore(n)
    <2>1. 19 \in Phases /\ 1 \in DOMAIN Statements(19) /\ Statements(19)[1] = St("column", J, "apply_url")
      BY DEF Phases, Statements, MIGRATIONS, phase_19
    <2>2. Statements(19)[1].table = J /\ Statements(19)[1].does = "column"
      BY <2>1
    <2> QED
      BY <2>1, <2>2, AddedBefore
  <1>4. n > 18 => <<E, "title_en">> \in ColumnsBefore(n)
    <2>1. 18 \in Phases /\ 1 \in DOMAIN Statements(18) /\ Statements(18)[1] = St("column", E, "title_en")
      BY DEF Phases, Statements, MIGRATIONS, phase_18
    <2>2. Statements(18)[1].table = E /\ Statements(18)[1].does = "column"
      BY <2>1
    <2> QED
      BY <2>1, <2>2, AddedBefore
  <1>5. n > 14 => <<E, "salary_estimated_min">> \in ColumnsBefore(n)
    <2>1. 14 \in Phases /\ 1 \in DOMAIN Statements(14) /\ Statements(14)[1] = St("column", E, "salary_estimated_min")
      BY DEF Phases, Statements, MIGRATIONS, phase_14
    <2>2. Statements(14)[1].table = E /\ Statements(14)[1].does = "column"
      BY <2>1
    <2> QED
      BY <2>1, <2>2, AddedBefore
  <1>6. n > 14 => <<E, "salary_estimated_max">> \in ColumnsBefore(n)
    <2>1. 14 \in Phases /\ 2 \in DOMAIN Statements(14) /\ Statements(14)[2] = St("column", E, "salary_estimated_max")
      BY DEF Phases, Statements, MIGRATIONS, phase_14
    <2>2. Statements(14)[2].table = E /\ Statements(14)[2].does = "column"
      BY <2>1
    <2> QED
      BY <2>1, <2>2, AddedBefore
  <1>7. n > 23 => <<E, "prompt_version">> \in ColumnsBefore(n)
    <2>1. 23 \in Phases /\ 1 \in DOMAIN Statements(23) /\ Statements(23)[1] = St("column", E, "prompt_version")
      BY DEF Phases, Statements, MIGRATIONS, phase_23
    <2>2. Statements(23)[1].table = E /\ Statements(23)[1].does = "column"
      BY <2>1
    <2> QED
      BY <2>1, <2>2, AddedBefore
  <1>8. n > 26 => "linkedin_posts" \in TablesBefore(n)
    <2>1. 26 \in Phases /\ 1 \in DOMAIN Statements(26) /\ Statements(26)[1] = St("table", "linkedin_posts", "none")
      BY DEF Phases, Statements, MIGRATIONS, phase_26
    <2>2. Statements(26)[1].table = "linkedin_posts" /\ Statements(26)[1].does = "table"
      BY <2>1
    <2> QED
      BY <2>1, <2>2, AddedBefore
  <1>9. n > 26 => "recruiter_fetch_state" \in TablesBefore(n)
    <2>1. 26 \in Phases /\ 3 \in DOMAIN Statements(26) /\ Statements(26)[3] = St("table", "recruiter_fetch_state", "none")
      BY DEF Phases, Statements, MIGRATIONS, phase_26
    <2>2. Statements(26)[3].table = "recruiter_fetch_state" /\ Statements(26)[3].does = "table"
      BY <2>1
    <2> QED
      BY <2>1, <2>2, AddedBefore
  <1>10. n > 38 => <<J, "vacancy_id">> \in ColumnsBefore(n)
    <2>1. 38 \in Phases /\ 1 \in DOMAIN Statements(38) /\ Statements(38)[1] = St("column", J, "vacancy_id")
      BY DEF Phases, Statements, MIGRATIONS, phase_38
    <2>2. Statements(38)[1].table = J /\ Statements(38)[1].does = "column"
      BY <2>1
    <2> QED
      BY <2>1, <2>2, AddedBefore
  <1> QED
    BY <1>1, <1>2, <1>3, <1>4, <1>5, <1>6, <1>7, <1>8, <1>9, <1>10

LEMMA PhasesFollow ==
    ASSUME NEW n \in Phases \ {10, 35}
    PROVE  Follows(Statements(n), TablesBefore(n), ColumnsBefore(n))
  <1> USE DEF St, JobsTable, Col, Index, IndexWith, Cols, Rows, J, E
  <1> DEFINE later == {<<E, "title_en">>, <<E, "prompt_version">>, <<E, "salary_estimated_min">>,
                       <<E, "salary_estimated_max">>}
             recruiters == {"linkedin_posts", "recruiter_fetch_state"}
  <1>11. Follows(phase_11, {}, {})
    BY DEF phase_11, Follows, Speaks
  <1>12. Follows(phase_12, {}, {})
    BY DEF phase_12, Follows, Speaks
  <1>13. Follows(phase_13, {J, E}, {})
    BY DEF phase_13, Follows, Speaks
  <1>14. Follows(phase_14, {J, E}, {})
    BY DEF phase_14, Follows, Speaks
  <1>15. Follows(phase_15, {J, E}, {})
    BY DEF phase_15, Follows, Speaks
  <1>16. Follows(phase_16, {J, E}, {})
    BY DEF phase_16, Follows, Speaks
  <1>17. Follows(phase_17, {J, E}, {})
    BY DEF phase_17, Follows, Speaks
  <1>18. Follows(phase_18, {J, E}, {})
    BY DEF phase_18, Follows, Speaks
  <1>19. Follows(phase_19, {J, E}, {})
    BY DEF phase_19, Follows, Speaks
  <1>20. Follows(phase_20, {J, E}, {<<J, "apply_url">>})
    BY DEF phase_20, Follows, Speaks
  <1>21. Follows(phase_21, {J, E}, {<<J, "apply_url">>})
    BY DEF phase_21, Follows, Speaks
  <1>22. Follows(phase_22, {J, E}, {<<J, "apply_url">>})
    BY DEF phase_22, Follows, Speaks
  <1>23. Follows(phase_23, {J, E}, {<<J, "apply_url">>})
    BY DEF phase_23, Follows, Speaks
  <1>24. Follows(phase_24, {J, E}, {<<J, "apply_url">>})
    BY DEF phase_24, Follows, Speaks
  <1>25. Follows(phase_25, {J, E}, {<<J, "apply_url">>})
    BY DEF phase_25, Follows, Speaks
  <1>26. Follows(phase_26, {J, E}, {<<J, "apply_url">>})
    BY DEF phase_26, Follows, Speaks
  <1>27. Follows(phase_27, {J, E} \cup recruiters, later)
    BY DEF phase_27, Follows, Speaks
  <1>28. Follows(phase_28, {J, E} \cup recruiters, later)
    BY DEF phase_28, Follows, Speaks
  <1>29. Follows(phase_29, {J, E} \cup recruiters, later)
    BY DEF phase_29, Follows, Speaks
  <1>30. Follows(phase_30, {J, E} \cup recruiters, later)
    BY DEF phase_30, Follows, Speaks
  <1>31. Follows(phase_31, {J, E} \cup recruiters, later)
    BY DEF phase_31, Follows, Speaks
  <1>32. Follows(phase_32, {J, E} \cup recruiters, later)
    BY DEF phase_32, Follows, Speaks
  <1>33. Follows(phase_33, {J, E} \cup recruiters, later)
    BY DEF phase_33, Follows, Speaks
  <1>34. Follows(phase_34, {J, E} \cup recruiters, later)
    BY DEF phase_34, Follows, Speaks
  <1>36. Follows(phase_36, {J, E} \cup recruiters, later)
    BY DEF phase_36, Follows, Speaks
  <1>37. Follows(phase_37, {J, E} \cup recruiters, later)
    BY DEF phase_37, Follows, Speaks
  <1>38. Follows(phase_38, {J, E} \cup recruiters, later)
    BY DEF phase_38, Follows, Speaks
  <1>39. Follows(phase_39, {J, E} \cup recruiters, later \cup {<<J, "vacancy_id">>})
    BY DEF phase_39, Follows, Speaks
  <1>40. Follows(phase_40, {J, E} \cup recruiters, later \cup {<<J, "vacancy_id">>})
    BY DEF phase_40, Follows, Speaks
  <1>41. Follows(phase_41, {J, E} \cup recruiters, later \cup {<<J, "vacancy_id">>})
    BY DEF phase_41, Follows, Speaks
  <1>42. Follows(phase_42, {J, E} \cup recruiters, later \cup {<<J, "vacancy_id">>})
    BY DEF phase_42, Follows, Speaks
  <1>43. Follows(phase_43, {J, E} \cup recruiters, later \cup {<<J, "vacancy_id">>})
    BY DEF phase_43, Follows, Speaks
  <1>51. n \in 11..12 => Follows(Statements(n), TablesBefore(n), ColumnsBefore(n))
    <2> SUFFICES ASSUME n \in 11..12 PROVE Follows(Statements(n), TablesBefore(n), ColumnsBefore(n))
      OBVIOUS
    <2>1. Follows(Statements(n), {}, {})
      BY <1>11, <1>12 DEF Statements, MIGRATIONS
    <2>2. {} \subseteq TablesBefore(n) /\ {} \subseteq ColumnsBefore(n)
      BY WhatIsThere
    <2> QED
      BY <2>1, <2>2, FollowsMore
  <1>52. n \in 13..19 => Follows(Statements(n), TablesBefore(n), ColumnsBefore(n))
    <2> SUFFICES ASSUME n \in 13..19 PROVE Follows(Statements(n), TablesBefore(n), ColumnsBefore(n))
      OBVIOUS
    <2>1. Follows(Statements(n), {J, E}, {})
      BY <1>13, <1>14, <1>15, <1>16, <1>17, <1>18, <1>19 DEF Statements, MIGRATIONS
    <2>2. {J, E} \subseteq TablesBefore(n) /\ {} \subseteq ColumnsBefore(n)
      BY WhatIsThere
    <2> QED
      BY <2>1, <2>2, FollowsMore
  <1>53. n \in 20..26 => Follows(Statements(n), TablesBefore(n), ColumnsBefore(n))
    <2> SUFFICES ASSUME n \in 20..26 PROVE Follows(Statements(n), TablesBefore(n), ColumnsBefore(n))
      OBVIOUS
    <2>1. Follows(Statements(n), {J, E}, {<<J, "apply_url">>})
      BY <1>20, <1>21, <1>22, <1>23, <1>24, <1>25, <1>26 DEF Statements, MIGRATIONS
    <2>2. {J, E} \subseteq TablesBefore(n) /\ {<<J, "apply_url">>} \subseteq ColumnsBefore(n)
      BY WhatIsThere
    <2> QED
      BY <2>1, <2>2, FollowsMore
  <1>54. n \in 27..38 => Follows(Statements(n), TablesBefore(n), ColumnsBefore(n))
    <2> SUFFICES ASSUME n \in 27..38 PROVE Follows(Statements(n), TablesBefore(n), ColumnsBefore(n))
      OBVIOUS
    <2>1. Follows(Statements(n), {J, E} \cup recruiters, later)
      BY <1>27, <1>28, <1>29, <1>30, <1>31, <1>32, <1>33, <1>34, <1>36, <1>37, <1>38 DEF Statements, MIGRATIONS
    <2>2. {J, E} \cup recruiters \subseteq TablesBefore(n) /\ later \subseteq ColumnsBefore(n)
      BY WhatIsThere
    <2> QED
      BY <2>1, <2>2, FollowsMore
  <1>55. n \in 39..43 => Follows(Statements(n), TablesBefore(n), ColumnsBefore(n))
    <2> SUFFICES ASSUME n \in 39..43 PROVE Follows(Statements(n), TablesBefore(n), ColumnsBefore(n))
      OBVIOUS
    <2>1. Follows(Statements(n), {J, E} \cup recruiters, later \cup {<<J, "vacancy_id">>})
      BY <1>39, <1>40, <1>41, <1>42, <1>43 DEF Statements, MIGRATIONS
    <2>2. {J, E} \cup recruiters \subseteq TablesBefore(n) /\ later \cup {<<J, "vacancy_id">>} \subseteq ColumnsBefore(n)
      BY WhatIsThere
    <2> QED
      BY <2>1, <2>2, FollowsMore
  <1> QED
    BY <1>51, <1>52, <1>53, <1>54, <1>55 DEF Phases


----------------------------------------------------------------------------
(* Migrations: what stops a phase.                                         *)

\* The jobs table has the columns it was created with; before phase 10 is on record the one of
\* phase 38 is among them.
JobsIsThere(d) ==
    J \in d.tables =>
        /\ <<J, "company_slug">> \in d.columns /\ <<J, "seniority">> \in d.columns /\ <<J, "source">> \in d.columns
        /\ 10 \notin d.ledger => <<J, "vacancy_id">> \in d.columns

\* The columns ahead of a phase are there exactly when it has seen them.
SeenIsTrue ==
    editor = "idle" /\ running > 0 =>
        \A i \in 1..Len(Statements(running)) :
            LET s == Statements(running)[i]
            IN i >= step /\ s.does = "column" => (<<s.table, s.name>> \in seen <=> <<s.table, s.name>> \in job.columns)

Undisturbed ==
    /\ lost \in Nat
    /\ JobsIsThere(db) /\ JobsIsThere(job)
    /\ running = 35 /\ step \in 2..4 => "company_runs_v2" \in job.tables
    /\ SeenIsTrue

\* The databases migrate can work on: with a ledger, or migrated up to phase 38 at least.
Migratable == \A b \in Starts : b.ledger \/ b.phase >= 38

LEMMA UndisturbedAtFirst ==
    ASSUME Migratable, MigrationsAssumption, MigrationsInit
    PROVE  Undisturbed
  <1> DEFINE k == began.phase
             d == MigratedTo(k)
  <1>1. k \in 9..43 /\ (began.ledger \/ k >= 38) /\ job = db /\ running = -1 /\ lost = 0
    BY DEF MigrationsAssumption, MigrationsInit, Migratable
  <1>2. /\ db.tables = d.tables /\ db.columns = d.columns
        /\ began.ledger => db.ledger = 10..k
    BY DEF MigrationsInit, MigratedTo, Unrecorded
  <1>3. <<J, "company_slug">> \in d.columns /\ <<J, "seniority">> \in d.columns /\ <<J, "source">> \in d.columns
    BY DEF MigratedTo
  <1>4. J \in d.tables => k # 9
    <2> SUFFICES ASSUME k = 9 PROVE d.tables = {}
      OBVIOUS
    <2>1. Until(k) = {}
      BY DEF Until
    <2> QED
      BY <2>1 DEF MigratedTo
  <1>5. k >= 38 => <<J, "vacancy_id">> \in d.columns
    <2> SUFFICES ASSUME k >= 38 PROVE <<J, "vacancy_id">> \in d.columns
      OBVIOUS
    <2>1. Statements(38)[1] = St("column", J, "vacancy_id") /\ 1 \in DOMAIN Statements(38)
      BY DEF Statements, MIGRATIONS, phase_38, Col
    <2>2. St("column", J, "vacancy_id") \in Range(Statements(38))
      BY <2>1 DEF Range
    <2>3. 38 \in 10..k
      BY <1>1
    <2>4. St("column", J, "vacancy_id") \in Until(k)
      BY <2>2, <2>3 DEF Until
    <2> QED
      BY <2>4 DEF MigratedTo, St
  <1>6. JobsIsThere(db)
    <2>1. CASE began.ledger
      <3>1. J \in db.tables => 10 \in db.ledger
        <4>1. J \in db.tables => k # 9
          BY <1>2, <1>4
        <4>2. ASSUME k # 9 PROVE 10 \in 10..k
          BY <1>1, <4>2
        <4> QED
          BY <1>2, <2>1, <4>1, <4>2
      <3> QED
        BY <1>2, <1>3, <3>1 DEF JobsIsThere
    <2>2. CASE k >= 38
      BY <1>2, <1>3, <1>5, <2>2 DEF JobsIsThere
    <2> QED
      BY <1>1, <2>1, <2>2
  <1>7. JobsIsThere(job) /\ SeenIsTrue
    BY <1>1, <1>6 DEF SeenIsTrue
  <1> QED
    BY <1>1, <1>6, <1>7 DEF Undisturbed

\* Which columns a statement adds.
LEMMA StatementsAddColumns ==
    ASSUME IsDatabase(job), NEW s, s.does \in Kinds \ {"copy", "drop", "rename"}
    PROVE  /\ J \in After(s).tables /\ J \notin job.tables => \A c \in BaseColumns : <<J, c>> \in After(s).columns
           /\ J \in job.tables => After(s).columns = job.columns \cup (IF s.does = "column" THEN {<<s.table, s.name>>} ELSE {})
  <1>1. CASE s.does = "table"
    <2>1. After(s) = [job EXCEPT !.tables = @ \cup {s.table}, !.columns = @ \cup
                 {<<J, c>> : c \in IF s.table = J /\ J \notin job.tables THEN BaseColumns ELSE {}}]
      BY <1>1 DEF After
    <2>2. CASE s.table = J /\ J \notin job.tables
      BY <2>1, <2>2 DEF IsDatabase
    <2>3. CASE ~(s.table = J /\ J \notin job.tables)
      BY <1>1, <2>1, <2>3 DEF IsDatabase
    <2> QED
      BY <2>2, <2>3
  <1>2. CASE s.does \in {"column", "index", "indexwith", "reads"}
    BY <1>2 DEF After, IsDatabase
  <1>3. CASE s.does \in {"date", "undate", "reopen", "lock", "pick"}
    BY <1>3 DEF After, IsDatabase
  <1> QED
    BY <1>1, <1>2, <1>3 DEF Kinds, SchemaOnly

LEMMA StatementsUndisturbed ==
    ASSUME MigrationsInv, Undisturbed, Execute
    PROVE  Undisturbed'
  <1> DEFINE n == running
             s == Statements(n)[step]
  <1>1. /\ n \in Phases /\ n > 0 /\ step \in 1..Len(Statements(n)) /\ step' = step + 1
        /\ IsDatabase(job) /\ DOMAIN Statements(n) = 1..Len(Statements(n))
        /\ Len(Statements(n)) \in Nat /\ s.does \in Kinds
        /\ job' = After(s) /\ (wrote' => db' = db) /\ (~wrote' => db' = job')
        /\ running' = running /\ seen' = seen /\ editor' = editor /\ lost' = lost
    BY StatementsAreRun DEF Execute
  <1>2. job'.ledger = job.ledger
    BY <1>1, StatementsKeepDatabases
  <1>3. n # 35 => s.does \in Kinds \ {"copy", "drop", "rename"}
    BY <1>1, OneOfAKind DEF Consists
  <1>4. n = 35 => job'.columns = job.columns /\ (J \in job'.tables => J \in job.tables)
                  /\ (step = 1 => "company_runs_v2" \in job'.tables)
                  /\ (step \in 2..3 => ("company_runs_v2" \in job.tables => "company_runs_v2" \in job'.tables))
    <2> SUFFICES ASSUME n = 35
                 PROVE  /\ job'.columns = job.columns /\ (J \in job'.tables => J \in job.tables)
                        /\ step = 1 => "company_runs_v2" \in job'.tables
                        /\ step \in 2..3 /\ "company_runs_v2" \in job.tables => "company_runs_v2" \in job'.tables
      OBVIOUS
    <2>1. job' = After(Statements(35)[step]) /\ step \in 1..5
      BY <1>1, RekeyingPhase
    <2> QED
      BY <1>1, <2>1, RekeyingEffects DEF J
  <1>5. JobsIsThere(job')
    <2>1. CASE n = 35
      BY <1>2, <1>4, <2>1 DEF Undisturbed, JobsIsThere
    <2>2. CASE n # 35
      <3>1. job.columns \subseteq job'.columns
        BY <1>1, <1>3, <2>2, StatementsAdd
      <3>2. J \in job'.tables /\ J \notin job.tables => \A c \in BaseColumns : <<J, c>> \in job'.columns
        BY <1>1, <1>3, <2>2, StatementsAddColumns
      <3> QED
        BY <1>2, <3>1, <3>2 DEF Undisturbed, JobsIsThere, BaseColumns
    <2> QED
      BY <2>1, <2>2
  <1>6. JobsIsThere(db')
    BY <1>1, <1>5 DEF Undisturbed
  <1>7. SeenIsTrue'
    <2> SUFFICES ASSUME editor = "idle", NEW i \in 1..Len(Statements(n)), i >= step + 1,
                        NEW q, q = Statements(n)[i], q.does = "column"
                 PROVE  <<q.table, q.name>> \in seen <=> <<q.table, q.name>> \in job'.columns
      BY <1>1 DEF SeenIsTrue
    <2>1. <<q.table, q.name>> \in seen <=> <<q.table, q.name>> \in job.columns
      BY <1>1 DEF Undisturbed, SeenIsTrue
    <2>2. CASE n = 35
      BY <1>4, <2>1, <2>2
    <2>3. CASE n = 10
      <3>1. \A j \in 1..Len(Statements(10)) : Statements(10)[j].does # "column"
        <4>1. Consists(phase_10, {"table", "index"})
          BY DEF Consists, phase_10, ensure_schema, JobsTable, Index, St
        <4>2. Statements(10) = phase_10
          BY DEF Statements, MIGRATIONS
        <4> QED
          BY <4>1, <4>2 DEF Consists
      <3> QED
        BY <2>3, <3>1
    <2>4. CASE n \notin {10, 35}
      <3>1. J \in job.tables
        <4>1. 10 \in db.ledger
          <5>1. 10 \in 10..(running - 1)
            BY <1>1, <2>4 DEF Phases
          <5> QED
            BY <1>1, <5>1 DEF MigrationsInv, PhasesAreInOrder
        <4>2. Statements(10)[1] = JobsTable(J) /\ 1 \in DOMAIN Statements(10)
          BY DEF Statements, MIGRATIONS, phase_10, ensure_schema
        <4>3. JobsTable(J) \in Range(Statements(10))
          BY <4>2 DEF Range
        <4> QED
          BY <4>1, <4>3 DEF MigrationsInv, RecordedIsWhole, WholeBut, JobsTable, St, J
      <3>2. job'.columns = job.columns \cup (IF s.does = "column" THEN {<<s.table, s.name>>} ELSE {})
        BY <1>1, <1>3, <2>4, <3>1, StatementsAddColumns
      <3>3. s.does = "column" => q.table # s.table \/ q.name # s.name
        BY <1>1, <2>4, PhasesFollow DEF Follows
      <3> QED
        BY <2>1, <3>2, <3>3
    <2> QED
      BY <2>2, <2>3, <2>4
  <1>8. running' = 35 /\ step' \in 2..4 => "company_runs_v2" \in job'.tables
    <2> SUFFICES ASSUME n = 35, step + 1 \in 2..4 PROVE "company_runs_v2" \in job'.tables
      BY <1>1
    <2>1. step = 1 \/ step \in 2..3
      BY <1>1
    <2> QED
      BY <1>4, <2>1 DEF Undisturbed
  <1> QED
    BY <1>1, <1>5, <1>6, <1>7, <1>8 DEF Undisturbed


LEMMA PhasesStartUndisturbed ==
    ASSUME MigrationsInv, Undisturbed, StartPhase
    PROVE  Undisturbed'
  <1>1. /\ db' = db /\ job' = job /\ lost' = lost /\ step' = 1 /\ seen' = job.columns
    BY DEF StartPhase
  <1>2. SeenIsTrue'
    BY <1>1 DEF SeenIsTrue
  <1> QED
    BY <1>1, <1>2 DEF Undisturbed, JobsIsThere

LEMMA OthersUndisturbed ==
    ASSUME MigrationsInv, Undisturbed,
           \/ BeginPhase \/ AllApplied \/ CommitPhase \/ Record \/ RaisePhase \/ Die \/ Editor \/ UNCHANGED migrationVars
    PROVE  Undisturbed'
  <1>1. CASE UNCHANGED migrationVars
    BY <1>1 DEF migrationVars, Undisturbed, JobsIsThere, SeenIsTrue
  <1>2. CASE BeginPhase \/ AllApplied
    <2>1. db' = db /\ job' = job /\ lost' = lost /\ running' \in {0, -1}
      BY <1>2 DEF BeginPhase, AllApplied
    <2> QED
      BY <2>1 DEF Undisturbed, JobsIsThere, SeenIsTrue
  <1>3. CASE CommitPhase
    <2>1. /\ db' = job /\ job' = job /\ lost' = lost /\ running' = running /\ seen' = seen /\ editor' = editor
          /\ step' = step + 1 /\ step \in Nat /\ step = Len(Statements(running)) + 1 /\ running \in Phases
      BY <1>3 DEF CommitPhase, MigrationsInv, MigrationsTyped, Phases
    <2>2. Len(Statements(running)) \in Nat
      BY <2>1, OneOfAKind DEF Consists
    <2>3. SeenIsTrue'
      BY <2>1, <2>2 DEF SeenIsTrue
    <2>4. ASSUME running = 35 PROVE step = 6
      <3>1. Len(Statements(running)) = 5
        BY <2>4, RekeyingPhase
      <3> QED
        BY <2>1, <3>1
    <2>5. JobsIsThere(db') /\ JobsIsThere(job')
      BY <2>1 DEF Undisturbed
    <2> QED
      BY <2>1, <2>3, <2>4, <2>5 DEF Undisturbed
  <1>4. CASE Record
    <2>1. /\ db' = [db EXCEPT !.ledger = @ \cup {running}] /\ job' = db' /\ lost' = lost /\ running' = 0
      BY <1>4 DEF Record
    <2>2. JobsIsThere(db')
      BY <2>1 DEF Undisturbed, JobsIsThere, MigrationsInv, MigrationsTyped, IsDatabase
    <2> QED
      BY <2>1, <2>2 DEF Undisturbed, SeenIsTrue
  <1>5. CASE RaisePhase \/ Die
    <2>1. db' = db /\ job' = db /\ lost' \in {lost, lost + 1} /\ running' = -1
      BY <1>5 DEF RaisePhase, Die
    <2> QED
      BY <2>1 DEF Undisturbed, JobsIsThere, SeenIsTrue
  <1>6. CASE EditorReads
    <2>1. UNCHANGED <<db, job, running, step, lost>> /\ editor' = "read"
      BY <1>6 DEF EditorReads
    <2> QED
      BY <2>1 DEF Undisturbed, JobsIsThere, SeenIsTrue
  <1>7. ASSUME /\ job = db /\ job' = db' /\ db'.ledger = db.ledger /\ editor' # "idle"
               /\ db.columns \subseteq db'.columns /\ db.tables \subseteq db'.tables /\ (J \in db'.tables => J \in db.tables)
               /\ UNCHANGED <<running, step, lost>>
        PROVE  Undisturbed'
    <2>1. JobsIsThere(db')
      BY <1>7 DEF Undisturbed, JobsIsThere
    <2> QED
      BY <1>7, <2>1 DEF Undisturbed, SeenIsTrue
  <1>8. ASSUME NEW t, NEW c, NEW from, NEW to, to \in {"half", "full"}, EditorAdds(t, c, from, to) PROVE Undisturbed'
    <2>1. /\ ~wrote /\ db' = [db EXCEPT !.columns = @ \cup {<<t, c>>}] /\ job' = db' /\ editor' \in {"done", to}
          /\ UNCHANGED <<running, step, lost>>
      BY <1>8 DEF EditorAdds
    <2>2. job = db /\ IsDatabase(db)
      BY <2>1 DEF MigrationsInv, SeesTheCommitted, MigrationsTyped
    <2> QED
      BY <1>7, <1>8, <2>1, <2>2 DEF IsDatabase
  <1>9. CASE EditorCreates
    <2>1. /\ ~wrote /\ db' = [db EXCEPT !.tables = @ \cup {"admin_edits", "admin_salary_corrections"}] /\ job' = db'
          /\ editor' = "done" /\ UNCHANGED <<running, step, lost>>
      BY <1>9 DEF EditorCreates
    <2>2. job = db /\ IsDatabase(db)
      BY <2>1 DEF MigrationsInv, SeesTheCommitted, MigrationsTyped
    <2> QED
      BY <1>7, <2>1, <2>2 DEF IsDatabase, J
  <1> QED
    BY <1>1, <1>2, <1>3, <1>4, <1>5, <1>6, <1>8, <1>9 DEF Editor

\* Nothing but the editor keeps a statement from being run.
LEMMA StatementsCanBeRun ==
    ASSUME MigrationsInv, Undisturbed, AtStatement, editor = "idle"
    PROVE  RunPhase(Now)
  <1> DEFINE n == running
             s == Statements(n)[step]
             finds == {"index", "indexwith", "reads", "date", "undate", "reopen"}
  <1>1. /\ n \in Phases /\ n > 0 /\ step \in 1..Len(Statements(n)) /\ s = Now
        /\ DOMAIN Statements(n) = 1..Len(Statements(n)) /\ Len(Statements(n)) \in Nat /\ s.does \in Kinds
    BY StatementsAreRun
  <1>2. s.does = "column" => (<<s.table, s.name>> \in seen <=> <<s.table, s.name>> \in job.columns)
    BY <1>1 DEF Undisturbed, SeenIsTrue
  <1>3. ASSUME /\ s.does # "table" => s.table \in job.tables
               /\ s.does \in finds /\ s.name \notin {"none", "date"} => <<s.table, s.name>> \in job.columns
        PROVE  RunPhase(s)
    <2>1. CASE s.does = "table"
      BY <2>1 DEF RunPhase
    <2>2. CASE s.does = "column"
      BY <1>2, <1>3, <2>2 DEF RunPhase
    <2>3. CASE s.does \in finds
      BY <1>3, <2>3 DEF RunPhase
    <2>4. CASE s.does \in {"copy", "drop", "rename", "lock", "pick"}
      BY <1>3, <2>4 DEF RunPhase
    <2> QED
      BY <1>1, <2>1, <2>2, <2>3, <2>4 DEF Kinds, SchemaOnly
  <1>4. CASE n = 35
    <2>1. step # 4 => "pipeline_company_runs" \in job.tables
      <3>1. 34 \in db.ledger
        BY <1>1, <1>4 DEF MigrationsInv, PhasesAreInOrder
      <3>2. Statements(34)[1] = JobsTable("pipeline_company_runs") /\ 1 \in DOMAIN Statements(34)
        BY DEF Statements, MIGRATIONS, phase_34
      <3>3. JobsTable("pipeline_company_runs") \in Range(Statements(34))
        BY <3>2 DEF Range
      <3> QED
        BY <3>1, <3>3 DEF MigrationsInv, RecordedIsWhole, WholeBut, Renaming, JobsTable, St
    <2>2. step = 4 => "company_runs_v2" \in job.tables
      BY <1>4 DEF Undisturbed
    <2>3. step \in 1..5 /\ s = Statements(35)[step]
      BY <1>1, <1>4, RekeyingPhase
    <2>4. s.does # "table" => s.table \in job.tables
      BY <2>1, <2>2, <2>3, RekeyingPhase DEF St
    <2>5. s.does \in finds => s.name = "date"
      BY <2>3, RekeyingPhase DEF St
    <2> QED
      BY <1>1, <1>3, <2>4, <2>5
  <1>5. CASE n = 10
    <2>1. Statements(n) = phase_10
      BY <1>5 DEF Statements, MIGRATIONS
    <2>2. step \in 1..5 /\ s = phase_10[step]
      <3>1. Len(phase_10) = 5
        BY DEF phase_10, ensure_schema
      <3> QED
        BY <1>1, <2>1, <3>1
    <2>3. step > 1 => J \in job.tables
      <3>1. phase_10[1] = JobsTable(J)
        BY DEF phase_10, ensure_schema
      <3>2. step > 1 => Applied(job, Statements(n)[1])
        BY <1>1, <1>5 DEF MigrationsInv, BehindIsApplied
      <3> QED
        BY <2>1, <3>1, <3>2 DEF Applied, JobsTable, St
    <2>4. 10 \notin job.ledger
      BY <1>1, <1>5 DEF MigrationsInv, PhasesAreInOrder, SeesTheCommitted
    <2>5. step = 1 => s.does = "table"
      BY <2>2 DEF phase_10, ensure_schema, JobsTable, St
    <2>6. step > 1 => s.table = J /\ s.name \in {"company_slug", "seniority", "source", "vacancy_id"}
      BY <2>2 DEF phase_10, ensure_schema, Index, St
    <2>7. step > 1 => <<s.table, s.name>> \in job.columns
      BY <2>3, <2>4, <2>6 DEF Undisturbed, JobsIsThere
    <2> QED
      BY <1>1, <1>3, <2>2, <2>3, <2>5, <2>6, <2>7
  <1>6. CASE n \notin {10, 35}
    <2>1. Speaks(Statements(n), step, TablesBefore(n), ColumnsBefore(n))
      BY <1>1, <1>6, PhasesFollow DEF Follows
    <2>2. /\ TablesBefore(n) \subseteq job.tables
          /\ ColumnsBefore(n) \subseteq job.columns
      <3>1. \A m \in 10..(n - 1) : WholeBut(job, m, {"company_runs_v2"})
        BY <1>1, <1>6 DEF MigrationsInv, PhasesAreInOrder, RecordedIsWhole, WholeBut, Renaming
      <3>2. \A q \in Until(n - 1) : /\ q.does = "table" /\ q.table # "company_runs_v2" => q.table \in job.tables
                                    /\ q.does = "column" => <<q.table, q.name>> \in job.columns
        BY <3>1 DEF WholeBut, Until
      <3> QED
        BY <3>2 DEF TablesBefore, ColumnsBefore
    <2>3. \A j \in 1..(step - 1) : Applied(job, Statements(n)[j])
      BY <1>1, <1>6 DEF MigrationsInv, BehindIsApplied
    <2>4. s.does # "table" => s.table \in job.tables
      BY <2>1, <2>2, <2>3 DEF Speaks, Applied
    <2>5. s.does \in finds /\ s.name \notin {"none", "date"} => <<s.table, s.name>> \in job.columns
      BY <2>1, <2>2, <2>3 DEF Speaks, Applied
    <2> QED
      BY <1>1, <1>3, <2>4, <2>5
  <1> QED
    BY <1>1, <1>4, <1>5, <1>6


LEMMA MigrationsKeepInv ==
    /\ MigrationsInit => MigrationsInv
    /\ MigrationsInv /\ [MigrationsNext]_migrationVars => MigrationsInv'
    /\ MigrationsInv => RecordedPhasesAreWhole /\ CompanyRunsSurvive /\ ClosuresAreDated /\ LockedWeeksHaveTheirRoles
  <1>1. MigrationsInit => MigrationsInv
    BY MigrationsStart, MigrationsAssumption
  <1>2. MigrationsInv /\ [MigrationsNext]_migrationVars => MigrationsInv'
    BY StatementsRun, PhasesStart, MigrationsRest, PhasesCommit, PhasesAreRecorded, PhasesEnd, EditorsAdd
       DEF MigrationsNext, Migrate
  <1>3. MigrationsInv => RecordedPhasesAreWhole /\ CompanyRunsSurvive /\ ClosuresAreDated /\ LockedWeeksHaveTheirRoles
    BY DEF MigrationsInv, RecordedPhasesAreWhole, RecordedIsWhole, WholeBut, CompanyRunsSurvive, RunsAreKept,
       ClosuresAreDated, DatesAreSet, Dated, LockedWeeksHaveTheirRoles, WeeksAreFilled
  <1> QED
    BY <1>1, <1>2, <1>3

\* From any database, with a ledger or from before there was one, however often a migration is
\* lost and whatever the editor adds meanwhile: what is on record is there whole, the company
\* runs of earlier nights survive the change of their key, a Listing has a closing date exactly
\* when it is closed once phase 30 is on record, and a locked week has its Roles (migrate).
THEOREM MigrationsKeep ==
    MigrationsSpec => [](RecordedPhasesAreWhole /\ CompanyRunsSurvive /\ ClosuresAreDated /\ LockedWeeksHaveTheirRoles)
  BY MigrationsKeepInv, PTL DEF MigrationsSpec

\* From the databases that have a ledger, and those from before there was one that reached
\* phase 38, a phase is stopped by nothing but a column the editor added: with the above all
\* of MigratedWhole (MIGRATIONS: "Order is load-bearing").
THEOREM MigrationsAreWhole ==
    ASSUME Migratable
    PROVE  MigrationsSpec => MigratedWhole
  <1>1. MigrationsInit => Undisturbed
    BY UndisturbedAtFirst, MigrationsAssumption
  <1>2. MigrationsInv /\ Undisturbed /\ [MigrationsNext]_migrationVars => Undisturbed'
    BY StatementsUndisturbed, PhasesStartUndisturbed, OthersUndisturbed DEF MigrationsNext, Migrate
  <1>3. MigrationsInv /\ Undisturbed /\ [MigrationsNext]_migrationVars
        => [running > 0 /\ running' = -1 /\ lost' = lost => editor # "idle"]_migrationVars
    <2> SUFFICES ASSUME MigrationsInv, Undisturbed, MigrationsNext, running > 0, running' = -1, lost' = lost
                 PROVE  editor # "idle"
      OBVIOUS
    <2>1. CASE RaisePhase
      <3>1. AtStatement /\ ~RunPhase(Now)
        BY <2>1 DEF RaisePhase
      <3> QED
        BY <3>1, StatementsCanBeRun
    <2>2. CASE Die
      BY <2>2 DEF Die, Undisturbed
    <2>3. CASE BeginPhase \/ StartPhase \/ AllApplied \/ Record
      BY <2>3, FirstPending DEF BeginPhase, StartPhase, AllApplied, Record, Pending, Phases
    <2>4. CASE Execute \/ CommitPhase
      BY <2>4 DEF Execute, CommitPhase
    <2>5. CASE Editor
      BY <2>5 DEF Editor, EditorReads, EditorAdds, EditorCreates
    <2> QED
      BY <2>1, <2>2, <2>3, <2>4, <2>5 DEF MigrationsNext, Migrate
  <1> QED
    BY <1>1, <1>2, <1>3, MigrationsKeepInv, PTL DEF MigrationsSpec, MigratedWhole, OnlyTheEditorStopsAPhase
=============================================================================
