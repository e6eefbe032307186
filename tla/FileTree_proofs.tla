--------------------------- MODULE FileTree_proofs ---------------------------
(***************************************************************************)
(* Theorems about the file tree: its types, and that links resolve.         *)
(***************************************************************************)
EXTENDS FileTree, SequenceTheorems, TLAPS

JobsTyped == job \in [Request -> Job] /\ \A q \in Request : Prepared(job[q])

LEMMA IdleTyped == Idle \in Job /\ Prepared(Idle)
<1>1. <<>> \in Seq(Id)
  OBVIOUS
<1>2. [i \in Id |-> None] \in [Id -> Move \cup {None}]
  OBVIOUS
<1> QED
  BY <1>1, <1>2 DEF Idle, Job, Prepared

(* A step that gives one request a well-formed job keeps all well-formed.   *)
LEMMA JobSet ==
  ASSUME JobsTyped,
         NEW q \in Request,
         NEW j \in Job,
         Prepared(j),
         job' = [job EXCEPT ![q] = j]
  PROVE  JobsTyped'
BY DEF JobsTyped

LEMMA FinishTyped ==
  ASSUME JobsTyped, NEW q \in Request, Finish(q)
  PROVE  JobsTyped'
BY IdleTyped, JobSet DEF Finish

(* The fields a job may be given one by one.                                *)
LEMMA JobFields ==
  ASSUME NEW j \in Job
  PROVE  /\ \A x \in {"guard", "update", "bulkread", "bulkupdate", "bulkcommit", "insert"} :
              [j EXCEPT !.at = x] \in Job
         /\ \A x \in {"bulkread", "bulkupdate", "bulkcommit"}, n \in Name :
              [j EXCEPT !.at = x, !.name = n] \in Job
BY DEF Job

LEMMA InsertTyped ==
  ASSUME TreeTypeOK,
         NEW i \in Id, NEW n \in Name, NEW p \in Id \cup {Root},
         NEW dir \in BOOLEAN, NEW to \in Id \cup {None},
         Insert(i, n, p, dir, to)
  PROVE  /\ rows' \subseteq used' /\ used' \subseteq Id
         /\ dirs' \subseteq Id /\ trashed' \subseteq rows'
         /\ parentOf' \in [Id -> Id \cup {Root}]
         /\ nameOf' \in [Id -> Name]
         /\ target' \in [Id -> Id \cup {None}]
BY DEF TreeTypeOK, Insert

LEMMA CallKeepsTypes ==
  ASSUME TreeTypeOK, NEW q \in Request, Call(q)
  PROVE  TreeTypeOK'
<1>1. JobsTyped
  BY DEF TreeTypeOK, JobsTyped
<1>2. SUFFICES JobsTyped'
  <2>1. UNCHANGED treeVars
    BY DEF Call, RenameMove, BulkMove, CreateFolder, CreateShortcut, SoftDelete,
           Restore, PermanentDelete, Subtree
  <2> QED
    BY <2>1 DEF TreeTypeOK, JobsTyped, treeVars
<1> DEFINE Started(j) == j \in Job /\ Prepared(j) /\ job' = [job EXCEPT ![q] = j]
<1>3. ASSUME NEW i \in Id, NEW n \in Name \cup {None}, NEW p \in Id \cup {Root, None},
             RenameMove(q, i, n, p)
      PROVE  \E j : Started(j)
  <2> DEFINE par == IF p = None THEN parentOf[i] ELSE p
             nam == IF n = None THEN nameOf[i] ELSE n
             start == IF i \in dirs /\ p \in Id THEN "guard" ELSE "update"
             j == [Idle EXCEPT !.at = start, !.item = i, !.name = nam, !.parent = par]
  <2>1. par \in Id \cup {Root} /\ nam \in Name
    BY RootNoneAssumption DEF TreeTypeOK
  <2>2. start \in {"guard", "update"} /\ (start = "guard" => par \in Id)
    BY RootNoneAssumption
  <2>3. j \in Job /\ j.at = start /\ j.item = i /\ j.name = nam /\ j.parent = par
    <3> HIDE DEF par, nam, start
    <3> QED
      BY <2>1, <2>2, IdleTyped DEF Job, Idle
  <2>4. Prepared(j)
    <3> HIDE DEF par, nam, start, j
    <3> QED
      BY <2>1, <2>2, <2>3 DEF Prepared
  <2>5. job' = [job EXCEPT ![q] = j]
    BY <1>3 DEF RenameMove
  <2> QED
    BY <2>3, <2>4, <2>5
<1>4. ASSUME NEW ids \in BulkLists, NEW p \in Id \cup {Root, None}, BulkMove(q, ids, p)
      PROVE  \E j : Started(j)
  <2> DEFINE j == [Idle EXCEPT !.at = "bulkread", !.todo = ids, !.dest = p]
  <2>1. ids \in Seq(Id) /\ ids # <<>>
    BY BulkListsAssumption
  <2>2. j \in Job /\ Prepared(j)
    BY <2>1, IdleTyped DEF Job, Idle, Prepared
  <2>3. job' = [job EXCEPT ![q] = j]
    BY <1>4 DEF BulkMove
  <2> QED
    BY <2>2, <2>3
<1>5. ASSUME NEW n \in Name, NEW p \in Id \cup {Root}, CreateFolder(q, n, p)
      PROVE  \E j : Started(j)
  <2> DEFINE j == [Idle EXCEPT !.at = "recheck", !.name = n, !.parent = p]
  <2>1. j \in Job /\ Prepared(j)
    BY IdleTyped DEF Job, Idle, Prepared
  <2>2. job' = [job EXCEPT ![q] = j]
    BY <1>5 DEF CreateFolder
  <2> QED
    BY <2>1, <2>2
<1>6. ASSUME NEW t \in Id, NEW p \in Id \cup {Root}, CreateShortcut(q, t, p)
      PROVE  \E j : Started(j)
  <2> DEFINE to == IF target[t] # None THEN target[t] ELSE t
             nam == nameOf[t]
             j == [Idle EXCEPT !.at = "link", !.name = nam, !.parent = p, !.item = to]
  <2>1. to \in Id /\ nam \in Name
    BY DEF TreeTypeOK
  <2>2. j \in Job /\ Prepared(j)
    <3> HIDE DEF to, nam
    <3> QED
      BY <2>1, IdleTyped DEF Job, Idle, Prepared
  <2>3. job' = [job EXCEPT ![q] = j]
    BY <1>6 DEF CreateShortcut
  <2> QED
    BY <2>2, <2>3
<1>7. ASSUME NEW i \in Id, NEW call, NEW at \in {"trash", "restore", "delete"},
             Subtree(q, call, i, at)
      PROVE  \E j : Started(j)
  <2> DEFINE below == Below(i)
             j == [Idle EXCEPT !.at = at, !.victims = below]
  <2>1. below \in SUBSET Id
    BY DEF Below, TreeTypeOK
  <2>2. j \in Job /\ Prepared(j)
    <3> HIDE DEF below
    <3> QED
      BY <2>1, IdleTyped DEF Job, Idle, Prepared
  <2>3. job' = [job EXCEPT ![q] = j]
    BY <1>7 DEF Subtree
  <2> QED
    BY <2>2, <2>3
<1>8. \E j : Started(j)
  <2>1. CASE \E i \in Id : SoftDelete(q, i) \/ Restore(q, i) \/ PermanentDelete(q, i)
    BY <2>1, <1>7 DEF SoftDelete, Restore, PermanentDelete
  <2> QED
    BY <1>3, <1>4, <1>5, <1>6, <2>1 DEF Call
<1> QED
  BY <1>1, <1>8, JobSet

(* The steps of a BulkMove that stay inside its transaction.                *)
LEMMA BulkStepsKeepTypes ==
  ASSUME TreeTypeOK, NEW q \in Request, BulkRead(q) \/ BulkUpdate(q)
  PROVE  TreeTypeOK'
<1> DEFINE old == job[q]
           i == Head(old.todo)
<1>1. JobsTyped /\ old \in Job /\ Prepared(old)
  BY DEF TreeTypeOK, JobsTyped
<1>2. SUFFICES JobsTyped'
  BY DEF TreeTypeOK, JobsTyped, treeVars, BulkRead, BulkUpdate
<1>3. old.todo \in Seq(Id) /\ old.todo # <<>>
  BY <1>1 DEF Job, Prepared, BulkRead, BulkUpdate
<1>4. i \in Id /\ Tail(old.todo) \in Seq(Id)
  BY <1>3
<1>5. CASE BulkRead(q)
  <2> DEFINE nam == IF old.moved[i] # None THEN old.moved[i].name ELSE nameOf[i]
             j == [old EXCEPT !.at = "bulkupdate", !.name = nam]
  <2>1. nam \in Name
    <3>1. old.moved \in [Id -> Move \cup {None}]
      BY <1>1 DEF Job
    <3>2. old.moved[i] # None => old.moved[i] \in Move
      BY <3>1, <1>4
    <3> QED
      BY <3>2, <1>4 DEF TreeTypeOK, Move
  <2>2. j \in Job
    <3> HIDE DEF nam, old
    <3> QED
      BY <1>1, <2>1, JobFields
  <2>3. Prepared(j)
    <3>1. j.at = "bulkupdate" /\ j.name = nam /\ j.todo = old.todo
      BY <1>1 DEF Job
    <3> HIDE DEF j
    <3> QED
      BY <3>1, <1>3, <2>1 DEF Prepared
  <2>4. job' = [job EXCEPT ![q] = j]
    BY <1>5, <1>1 DEF BulkRead, JobsTyped
  <2> QED
    BY <1>1, <2>2, <2>3, <2>4, JobSet
<1>6. CASE BulkUpdate(q)
  <2> DEFINE rest == Tail(old.todo)
             next == IF rest = <<>> THEN "bulkcommit" ELSE "bulkread"
             write == [name |-> old.name, parent |-> old.dest]
             all == [old.moved EXCEPT ![i] = write]
             j == [old EXCEPT !.moved = all, !.todo = rest, !.at = next]
  <2>1. write \in Move
    BY <1>1, <1>6 DEF Job, Prepared, Move, BulkUpdate
  <2>2. all \in [Id -> Move \cup {None}]
    <3>1. old.moved \in [Id -> Move \cup {None}]
      BY <1>1 DEF Job
    <3> HIDE DEF write
    <3> QED
      BY <3>1, <2>1, <1>4
  <2>3. /\ next \in {"bulkcommit", "bulkread"}
        /\ next = "bulkread" => rest # <<>>
    OBVIOUS
  <2>4. j \in Job /\ j.at = next /\ j.todo = rest
    <3> HIDE DEF all, next, rest
    <3> QED
      BY <1>1, <1>4, <2>2, <2>3 DEF Job, rest
  <2>5. Prepared(j)
    <3> HIDE DEF j, next, rest
    <3> QED
      BY <2>3, <2>4 DEF Prepared
  <2>6. job' = [job EXCEPT ![q] = j]
    BY <1>6, <1>1 DEF BulkUpdate, JobsTyped, Job
  <2> QED
    BY <1>1, <2>4, <2>5, <2>6, JobSet
<1> QED
  BY <1>5, <1>6

LEMMA ProceedKeepsTypes ==
  ASSUME TreeTypeOK, NEW q \in Request, Proceed(q) \/ Abort(q)
  PROVE  TreeTypeOK'
<1>1. JobsTyped /\ job[q] \in Job /\ Prepared(job[q])
  BY DEF TreeTypeOK, JobsTyped
<1>2. CASE Finish(q) /\ UNCHANGED treeVars
  BY <1>1, <1>2, FinishTyped DEF TreeTypeOK, JobsTyped, treeVars
<1>3. CASE GuardPasses(q)
  <2> DEFINE j == [job[q] EXCEPT !.at = "update"]
  <2>1. j \in Job
    BY <1>1, JobFields
  <2>2. /\ j.at = "update" /\ j.item = job[q].item
        /\ j.name = job[q].name /\ j.parent = job[q].parent
    BY <1>1 DEF Job
  <2>3. Prepared(j)
    <3> HIDE DEF j
    <3> QED
      BY <1>1, <1>3, <2>2 DEF Prepared, GuardPasses
  <2>4. job' = [job EXCEPT ![q] = j]
    BY <1>1, <1>3 DEF GuardPasses, JobsTyped
  <2> QED
    BY <1>1, <1>3, <2>1, <2>3, <2>4, JobSet DEF GuardPasses, TreeTypeOK, JobsTyped, treeVars
<1>4. CASE Update(q)
  <2>1. /\ nameOf' \in [Id -> Name]
        /\ parentOf' \in [Id -> Id \cup {Root}]
    BY <1>1, <1>4 DEF Update, Prepared, TreeTypeOK
  <2> QED
    BY <1>1, <1>4, <2>1, FinishTyped DEF Update, TreeTypeOK, JobsTyped
<1>5. CASE BulkCommit(q)
  <2>1. job[q].moved \in [Id -> Move \cup {None}]
    BY <1>1 DEF Job
  <2>2. /\ nameOf' \in [Id -> Name]
        /\ parentOf' \in [Id -> Id \cup {Root}]
    BY <2>1, <1>5 DEF BulkCommit, Move, TreeTypeOK
  <2> QED
    BY <1>1, <1>5, <2>2, FinishTyped DEF BulkCommit, TreeTypeOK, JobsTyped
<1>6. CASE Recheck(q)
  <2>1. CASE Finish(q)
    BY <1>2, <1>6, <2>1 DEF Recheck
  <2>2. CASE job' = [job EXCEPT ![q].at = "insert"]
    <3> DEFINE j == [job[q] EXCEPT !.at = "insert"]
    <3>1. j \in Job
      BY <1>1, JobFields
    <3>2. j.at = "insert" /\ j.name = job[q].name /\ j.parent = job[q].parent
      BY <1>1 DEF Job
    <3>3. Prepared(j)
      <4> HIDE DEF j
      <4> QED
        BY <1>1, <1>6, <3>2 DEF Prepared, Recheck
    <3>4. job' = [job EXCEPT ![q] = j]
      BY <1>1, <2>2 DEF JobsTyped
    <3> QED
      BY <1>1, <1>6, <3>1, <3>3, <3>4, JobSet DEF Recheck, TreeTypeOK, JobsTyped, treeVars
  <2> QED
    BY <1>6, <2>1, <2>2 DEF Recheck
<1>7. CASE InsertFolder(q)
  <2>1. job[q].name \in Name /\ job[q].parent \in Id \cup {Root}
    BY <1>1, <1>7 DEF InsertFolder, Prepared
  <2>2. PICK i \in Id : Insert(i, job[q].name, job[q].parent, TRUE, None)
    BY <1>7 DEF InsertFolder
  <2> QED
    BY <1>1, <1>7, <2>1, <2>2, InsertTyped, FinishTyped DEF InsertFolder, TreeTypeOK, JobsTyped
<1>8. CASE InsertShortcut(q)
  <2> DEFINE dir == job[q].item \in dirs
  <2>1. /\ job[q].name \in Name /\ job[q].parent \in Id \cup {Root}
        /\ job[q].item \in Id
    BY <1>1, <1>8 DEF InsertShortcut, Prepared
  <2>2. PICK i \in Id : Insert(i, job[q].name, job[q].parent, dir, job[q].item)
    BY <1>8 DEF InsertShortcut
  <2>3. dir \in BOOLEAN
    OBVIOUS
  <2>4. /\ rows' \subseteq used' /\ used' \subseteq Id
        /\ dirs' \subseteq Id /\ trashed' \subseteq rows'
        /\ parentOf' \in [Id -> Id \cup {Root}]
        /\ nameOf' \in [Id -> Name]
        /\ target' \in [Id -> Id \cup {None}]
    <3> HIDE DEF dir
    <3> QED
      BY <2>1, <2>2, <2>3, InsertTyped
  <2>5. JobsTyped'
    BY <1>1, <1>8, FinishTyped DEF InsertShortcut
  <2> QED
    BY <2>4, <2>5 DEF TreeTypeOK, JobsTyped
<1>9. CASE SetDeletedAt(q)
  BY <1>1, <1>9, FinishTyped DEF SetDeletedAt, TreeTypeOK, JobsTyped
<1>10. CASE DeleteRows(q)
  BY <1>1, <1>10, FinishTyped DEF DeleteRows, TreeTypeOK, JobsTyped
<1>11. CASE BulkRead(q) \/ BulkUpdate(q)
  BY <1>11, BulkStepsKeepTypes
<1> QED
  BY <1>2, <1>3, <1>4, <1>5, <1>6, <1>7, <1>8, <1>9, <1>10, <1>11
     DEF Proceed, Abort, GuardRejects, UpdateFails, BulkFails, DeadlockVictim, InsertFails

LEMMA UploadKeepsTypes ==
  ASSUME TreeTypeOK, NEW n \in Name, NEW p \in Id \cup {Root}, UploadFile(n, p)
  PROVE  TreeTypeOK'
<1>1. PICK i \in Id : Insert(i, n, p, FALSE, None)
  BY DEF UploadFile
<1> QED
  BY <1>1, InsertTyped DEF UploadFile, TreeTypeOK

LEMMA InitTyped == TreeInit => TreeTypeOK
<1> SUFFICES ASSUME TreeInit PROVE TreeTypeOK
  OBVIOUS
<1>1. job \in [Request -> Job] /\ \A q \in Request : Prepared(job[q])
  BY IdleTyped DEF TreeInit
<1> QED
  BY <1>1, InitialAssumption DEF TreeInit, TreeTypeOK

(* In every reachable state the variables have their types and every        *)
(* request has the values its next statement needs.                         *)
THEOREM TreeTypeCorrect == TreeSpec => []TreeTypeOK
<1>1. TreeTypeOK /\ [TreeNext]_vars => TreeTypeOK'
  <2> SUFFICES ASSUME TreeTypeOK, [TreeNext]_vars PROVE TreeTypeOK'
    OBVIOUS
  <2>1. CASE UNCHANGED vars
    BY <2>1 DEF vars, treeVars, TreeTypeOK
  <2>2. CASE TreeNext
    BY <2>2, CallKeepsTypes, ProceedKeepsTypes, UploadKeepsTypes DEF TreeNext
  <2> QED
    BY <2>1, <2>2
<1> QED
  BY <1>1, InitTyped, PTL DEF TreeSpec
-----------------------------------------------------------------------------
(* Links.  The inductive invariant: a shortcut is inserted and a row moved   *)
(* by later steps than those that checked what they will refer to.          *)
LinkInv == TreeTypeOK /\ LinksResolve /\ PendingLinksResolve

(* What PendingLinksResolve says of one request.                            *)
Pending(j) ==
  /\ j.at = "link" => j.item \in used /\ target[j.item] = None
  /\ j.at \notin {"bulkread", "bulkupdate", "bulkcommit"} =>
       \A i \in Id : j.moved[i] = None
  /\ \A i \in Id : j.moved[i] # None => j.moved[i].parent \in rows \cup {Root, None}

LEMMA PendingByRequest == PendingLinksResolve <=> \A q \in Request : Pending(job[q])
BY DEF PendingLinksResolve, Pending

LEMMA IdlePending == Pending(Idle)
BY DEF Idle, Pending

(* A step on the requests alone, which gives one of them such a job.        *)
LEMMA JobStep ==
  ASSUME LinkInv, TreeTypeOK', UNCHANGED treeVars,
         NEW q \in Request, NEW j, Pending(j), job' = [job EXCEPT ![q] = j]
  PROVE  LinkInv'
<1>1. LinksResolve'
  BY DEF LinkInv, LinksResolve, ParentExists, treeVars
<1>2. \A p \in Request : job'[p] = j \/ job'[p] = job[p]
  BY DEF LinkInv, TreeTypeOK
<1>3. \A p \in Request : Pending(job'[p])
  BY <1>2, PendingByRequest DEF LinkInv
<1>4. PendingLinksResolve'
  BY <1>3 DEF PendingLinksResolve, Pending, treeVars
<1> QED
  BY <1>1, <1>4 DEF LinkInv

LEMMA FinishLinks ==
  ASSUME LinkInv, TreeTypeOK', NEW q \in Request, Finish(q), UNCHANGED treeVars
  PROVE  LinkInv'
BY JobStep, IdlePending DEF Finish

(* After a step that takes no row away and gives no old id another target,  *)
(* the requests stay as they should be.                                     *)
LEMMA PendingGrows ==
  ASSUME LinkInv, NEW q \in Request, Finish(q) \/ UNCHANGED job,
         rows \subseteq rows', used \subseteq used',
         \A i \in used : target'[i] = target[i]
  PROVE  PendingLinksResolve'
<1>1. \A p \in Request : job'[p] = Idle \/ job'[p] = job[p]
  BY DEF LinkInv, TreeTypeOK, Finish
<1>2. \A p \in Request : Pending(job'[p])
  BY <1>1, IdlePending, PendingByRequest DEF LinkInv
<1> QED
  BY <1>2 DEF PendingLinksResolve, Pending

LEMMA CallChangesNothing ==
  ASSUME NEW q \in Request, Call(q)
  PROVE  UNCHANGED treeVars
BY DEF Call, RenameMove, BulkMove, CreateFolder, CreateShortcut, SoftDelete,
       Restore, PermanentDelete, Subtree

LEMMA CallKeepsLinks ==
  ASSUME LinkInv, NEW q \in Request, Call(q)
  PROVE  LinkInv'
<1>1. TreeTypeOK'
  BY CallKeepsTypes DEF LinkInv
<1>2. UNCHANGED treeVars
  BY CallChangesNothing
<1> DEFINE Started(j) == Pending(j) /\ job' = [job EXCEPT ![q] = j]
<1>3. ASSUME NEW i \in Id, NEW n \in Name \cup {None}, NEW p \in Id \cup {Root, None},
             RenameMove(q, i, n, p)
      PROVE  \E j : Started(j)
  <2> DEFINE start == IF i \in dirs /\ p \in Id THEN "guard" ELSE "update"
             j == [Idle EXCEPT !.at = start, !.item = i,
                               !.name = IF n = None THEN nameOf[i] ELSE n,
                               !.parent = IF p = None THEN parentOf[i] ELSE p]
  <2>1. start \in {"guard", "update"}
    OBVIOUS
  <2>2. j.at = start /\ j.moved = [k \in Id |-> None]
    BY DEF Idle
  <2>3. Pending(j)
    <3> HIDE DEF j, start
    <3> QED
      BY <2>1, <2>2 DEF Pending
  <2>4. job' = [job EXCEPT ![q] = j]
    BY <1>3 DEF RenameMove
  <2> QED
    BY <2>3, <2>4
<1>4. ASSUME NEW ids \in BulkLists, NEW p \in Id \cup {Root, None}, BulkMove(q, ids, p)
      PROVE  \E j : Started(j)
  <2> DEFINE j == [Idle EXCEPT !.at = "bulkread", !.todo = ids, !.dest = p]
  <2>1. Pending(j)
    BY DEF Pending, Idle
  <2>2. job' = [job EXCEPT ![q] = j]
    BY <1>4 DEF BulkMove
  <2> QED
    BY <2>1, <2>2
<1>5. ASSUME NEW n \in Name, NEW p \in Id \cup {Root}, CreateFolder(q, n, p)
      PROVE  \E j : Started(j)
  <2> DEFINE j == [Idle EXCEPT !.at = "recheck", !.name = n, !.parent = p]
  <2>1. Pending(j)
    BY DEF Pending, Idle
  <2>2. job' = [job EXCEPT ![q] = j]
    BY <1>5 DEF CreateFolder
  <2> QED
    BY <2>1, <2>2
<1>6. ASSUME NEW t \in Id, NEW p \in Id \cup {Root}, CreateShortcut(q, t, p)
      PROVE  \E j : Started(j)
  <2> DEFINE to == IF target[t] # None THEN target[t] ELSE t
             j == [Idle EXCEPT !.at = "link", !.name = nameOf[t], !.parent = p, !.item = to]
  <2>1. t \in rows /\ rows \subseteq used
    BY <1>6 DEF CreateShortcut, LinkInv, TreeTypeOK
  <2>2. to \in used /\ target[to] = None
    BY <2>1 DEF LinkInv, LinksResolve
  <2>3. Pending(j)
    <3>1. j.at = "link" /\ j.item = to /\ j.moved = [k \in Id |-> None]
      BY DEF Idle
    <3> HIDE DEF j, to
    <3> QED
      BY <2>2, <3>1 DEF Pending
  <2>4. job' = [job EXCEPT ![q] = j]
    BY <1>6 DEF CreateShortcut
  <2> QED
    BY <2>3, <2>4
<1>7. ASSUME NEW i \in Id, NEW call, NEW at \in {"trash", "restore", "delete"},
             Subtree(q, call, i, at)
      PROVE  \E j : Started(j)
  <2> DEFINE j == [Idle EXCEPT !.at = at, !.victims = Below(i)]
  <2>1. Pending(j)
    BY DEF Pending, Idle
  <2>2. job' = [job EXCEPT ![q] = j]
    BY <1>7 DEF Subtree
  <2> QED
    BY <2>1, <2>2
<1>8. \E j : Started(j)
  <2>1. CASE \E i \in Id : SoftDelete(q, i) \/ Restore(q, i) \/ PermanentDelete(q, i)
    BY <2>1, <1>7 DEF SoftDelete, Restore, PermanentDelete
  <2> QED
    BY <1>3, <1>4, <1>5, <1>6, <2>1 DEF Call
<1> QED
  BY <1>1, <1>2, <1>8, JobStep

(* A new row with a parent and a target that exist.                         *)
LEMMA InsertLinks ==
  ASSUME LinkInv, TreeTypeOK',
         NEW q \in Request, Finish(q) \/ UNCHANGED job,
         NEW i \in Id, NEW n, NEW p, NEW dir, NEW to,
         Insert(i, n, p, dir, to),
         ParentExists(p),
         to # None => to \in rows /\ target[to] = None
  PROVE  LinkInv'
<1>1. /\ target' = [target EXCEPT ![i] = to]
      /\ parentOf' = [parentOf EXCEPT ![i] = p]
      /\ rows' = rows \cup {i} /\ used' = used \cup {i}
      /\ i \notin used /\ rows \subseteq used /\ used \subseteq Id
      /\ target \in [Id -> Id \cup {None}] /\ parentOf \in [Id -> Id \cup {Root}]
  BY DEF Insert, LinkInv, TreeTypeOK
<1>2. \A k \in used : target'[k] = target[k] /\ parentOf'[k] = parentOf[k]
  BY <1>1
<1>3. PendingLinksResolve'
  BY <1>1, <1>2, PendingGrows
<1>4. LinksResolve'
  <2> SUFFICES ASSUME NEW k \in rows'
               PROVE  /\ parentOf'[k] \in rows' \cup {Root}
                      /\ target'[k] # None =>
                           target'[k] \in rows' /\ target'[target'[k]] = None
    BY DEF LinksResolve, ParentExists
  <2>1. CASE k = i
    BY <1>1, <1>2, <2>1 DEF ParentExists
  <2>2. CASE k \in rows
    BY <1>1, <1>2, <2>2 DEF LinkInv, LinksResolve, ParentExists
  <2> QED
    BY <1>1, <2>1, <2>2
<1> QED
  BY <1>3, <1>4 DEF LinkInv

(* What ON DELETE CASCADE takes is closed: no row that stays refers to it.  *)
LEMMA CascadeClosed ==
  ASSUME NEW V
  PROVE  \A k \in rows : parentOf[k] \in Cascade(V) \/ target[k] \in Cascade(V)
                           => k \in Cascade(V)
BY DEF Cascade, ClosedCascade, ClosedBelow

LEMMA DeleteLinks ==
  ASSUME LinkInv, TreeTypeOK', NEW q \in Request, DeleteRows(q)
  PROVE  LinkInv'
<1> DEFINE gone == Cascade(job[q].victims \cap rows)
<1>1. /\ rows' = rows \ gone
      /\ \A i \in gone : ~DeleteLocked(q, i)
      /\ \A i \in Id \ gone : parentOf'[i] = parentOf[i] /\ target'[i] = target[i]
      /\ \A i \in Id : target'[i] = target[i] \/ target'[i] = None
      /\ used' = used
      /\ Finish(q)
  BY DEF DeleteRows
<1>2. \A k \in rows : parentOf[k] \in gone \/ target[k] \in gone => k \in gone
  BY CascadeClosed
<1>3. rows \subseteq used /\ used \subseteq Id
  BY DEF LinkInv, TreeTypeOK
<1> HIDE DEF gone
<1>4. LinksResolve'
  <2> SUFFICES ASSUME NEW k \in rows'
               PROVE  /\ parentOf'[k] \in rows' \cup {Root}
                      /\ target'[k] # None =>
                           target'[k] \in rows' /\ target'[target'[k]] = None
    BY DEF LinksResolve, ParentExists
  <2>1. /\ k \in rows /\ k \notin gone
        /\ parentOf'[k] = parentOf[k] /\ target'[k] = target[k]
    BY <1>1, <1>3
  <2>2. /\ parentOf[k] \in rows \cup {Root}
        /\ target[k] # None => target[k] \in rows /\ target[target[k]] = None
    BY <2>1 DEF LinkInv, LinksResolve, ParentExists
  <2>3. parentOf[k] \notin gone /\ target[k] \notin gone
    BY <1>2, <2>1
  <2> QED
    BY <1>1, <1>3, <2>1, <2>2, <2>3
<1>5. PendingLinksResolve'
  <2>1. \A p \in Request : job'[p] = IF p = q THEN Idle ELSE job[p]
    BY <1>1 DEF LinkInv, TreeTypeOK, Finish
  <2>2. ASSUME NEW p \in Request \ {q}, NEW i \in Id, job[p].moved[i] # None
        PROVE  job[p].moved[i].parent \in rows' \cup {Root, None}
    <3>1. job[p].moved[i].parent \in rows \cup {Root, None}
      BY <2>2 DEF LinkInv, PendingLinksResolve
    <3>2. job[p].moved[i].parent \notin gone
      BY <1>1, <2>2 DEF DeleteLocked
    <3> QED
      BY <1>1, <3>1, <3>2
  <2>3. ASSUME NEW p \in Request \ {q}
        PROVE  /\ job'[p] = job[p]
               /\ job[p].at = "link" => job[p].item \in used' /\ target'[job[p].item] = None
               /\ job[p].at \notin {"bulkread", "bulkupdate", "bulkcommit"} =>
                    \A i \in Id : job[p].moved[i] = None
               /\ \A i \in Id : job[p].moved[i] # None =>
                    job[p].moved[i].parent \in rows' \cup {Root, None}
    BY <1>1, <1>3, <2>1, <2>2 DEF LinkInv, PendingLinksResolve
  <2>4. job'[q] = Idle
    BY <2>1
  <2>5. /\ Idle.at = "idle"
        /\ \A i \in Id : Idle.moved[i] = None
    BY DEF Idle
  <2> QED
    BY <2>3, <2>4, <2>5 DEF PendingLinksResolve
<1> QED
  BY <1>4, <1>5 DEF LinkInv

LEMMA ProceedKeepsLinks ==
  ASSUME LinkInv, NEW q \in Request, Proceed(q) \/ Abort(q)
  PROVE  LinkInv'
<1>1. TreeTypeOK' /\ TreeTypeOK /\ job \in [Request -> Job] /\ job[q] \in Job
      /\ Prepared(job[q])
  BY ProceedKeepsTypes DEF LinkInv, TreeTypeOK
<1>2. Pending(job[q])
  BY PendingByRequest DEF LinkInv
<1>3. CASE Finish(q) /\ UNCHANGED treeVars
  BY <1>1, <1>3, FinishLinks
<1>4. CASE GuardPasses(q)
  <2> DEFINE j == [job[q] EXCEPT !.at = "update"]
  <2>1. j.at = "update" /\ j.moved = job[q].moved
    BY <1>1 DEF Job
  <2>2. Pending(j)
    <3> HIDE DEF j
    <3> QED
      BY <1>2, <1>4, <2>1 DEF Pending, GuardPasses
  <2>3. job' = [job EXCEPT ![q] = j]
    BY <1>1, <1>4 DEF GuardPasses
  <2> QED
    BY <1>1, <1>4, <2>2, <2>3, JobStep DEF GuardPasses
<1>5. CASE Recheck(q)
  <2> DEFINE j == [job[q] EXCEPT !.at = "insert"]
  <2>1. j.at = "insert" /\ j.moved = job[q].moved
    BY <1>1 DEF Job
  <2>2. Pending(j)
    <3> HIDE DEF j
    <3> QED
      BY <1>2, <1>5, <2>1 DEF Pending, Recheck
  <2>3. Finish(q) \/ job' = [job EXCEPT ![q] = j]
    BY <1>1, <1>5 DEF Recheck
  <2>4. UNCHANGED treeVars
    BY <1>5 DEF Recheck
  <2> QED
    BY <1>1, <2>2, <2>3, <2>4, JobStep, FinishLinks
<1>6. CASE BulkRead(q)
  <2> DEFINE j == [job[q] EXCEPT !.at = "bulkupdate", !.name = job'[q].name]
  <2>1. j.at = "bulkupdate" /\ j.moved = job[q].moved
    BY <1>1 DEF Job
  <2>2. Pending(j)
    <3> HIDE DEF j
    <3> QED
      BY <1>2, <2>1 DEF Pending
  <2>3. job' = [job EXCEPT ![q] = j]
    BY <1>1, <1>6 DEF BulkRead, Job
  <2> QED
    BY <1>1, <1>6, <2>2, <2>3, JobStep DEF BulkRead
<1>7. CASE BulkUpdate(q)
  <2> DEFINE i == Head(job[q].todo)
             write == [name |-> job[q].name, parent |-> job[q].dest]
             all == [job[q].moved EXCEPT ![i] = write]
             next == IF Tail(job[q].todo) = <<>> THEN "bulkcommit" ELSE "bulkread"
             j == [job[q] EXCEPT !.moved = all, !.todo = Tail(@), !.at = next]
  <2>1. write.parent \in rows \cup {Root, None}
    BY <1>7 DEF BulkUpdate, BulkUpdatable, ParentExists
  <2>2. \A k \in Id : all[k] = write \/ all[k] = job[q].moved[k]
    BY <1>1 DEF Job
  <2>3. next \in {"bulkcommit", "bulkread"}
    OBVIOUS
  <2>4. j.at = next /\ j.moved = all
    <3> HIDE DEF all, next
    <3> QED
      BY <1>1 DEF Job
  <2>5. Pending(j)
    <3> HIDE DEF j, all, write, next
    <3> QED
      BY <1>2, <2>1, <2>2, <2>3, <2>4 DEF Pending
  <2>6. job' = [job EXCEPT ![q] = j]
    BY <1>1, <1>7 DEF BulkUpdate, Job
  <2> QED
    BY <1>1, <1>7, <2>5, <2>6, JobStep DEF BulkUpdate
<1>8. CASE Update(q)
  <2>1. /\ ParentExists(job[q].parent)
        /\ parentOf' = [parentOf EXCEPT ![job[q].item] =
                          IF job[q].parent = Root THEN @ ELSE job[q].parent]
        /\ UNCHANGED <<rows, used, target>> /\ Finish(q)
    BY <1>8 DEF Update, Updatable
  <2>2. parentOf \in [Id -> Id \cup {Root}] /\ rows \subseteq Id
    BY <1>1 DEF TreeTypeOK
  <2>3. LinksResolve'
    BY <2>1, <2>2 DEF LinkInv, LinksResolve, ParentExists
  <2> QED
    BY <1>1, <2>1, <2>3, PendingGrows DEF LinkInv
<1>9. CASE BulkCommit(q)
  <2>1. \A k \in Id : job[q].moved[k] # None /\ job[q].moved[k].parent # None =>
          job[q].moved[k].parent \in rows \cup {Root}
    BY <1>2 DEF Pending
  <2>2. /\ \A k \in Id : parentOf'[k] = IF job[q].moved[k] # None
                                            /\ job[q].moved[k].parent # None
                                        THEN job[q].moved[k].parent ELSE parentOf[k]
        /\ UNCHANGED <<rows, used, target>> /\ Finish(q)
    BY <1>9 DEF BulkCommit
  <2>3. rows \subseteq Id
    BY <1>1 DEF TreeTypeOK
  <2>4. LinksResolve'
    BY <2>1, <2>2, <2>3 DEF LinkInv, LinksResolve, ParentExists
  <2> QED
    BY <1>1, <2>2, <2>4, PendingGrows DEF LinkInv
<1>10. CASE InsertFolder(q)
  BY <1>1, <1>10, InsertLinks DEF InsertFolder
<1>11. CASE InsertShortcut(q)
  <2>1. job[q].item \in rows /\ target[job[q].item] = None
    BY <1>2, <1>11 DEF InsertShortcut, Pending
  <2>2. PICK i \in Id : Insert(i, job[q].name, job[q].parent, job[q].item \in dirs, job[q].item)
    BY <1>11 DEF InsertShortcut
  <2> DEFINE dir == job[q].item \in dirs
  <2>3. Insert(i, job[q].name, job[q].parent, dir, job[q].item)
    BY <2>2
  <2> HIDE DEF dir
  <2> QED
    BY <1>1, <1>11, <2>1, <2>3, InsertLinks DEF InsertShortcut
<1>12. CASE SetDeletedAt(q)
  <2>1. UNCHANGED <<rows, used, target, parentOf>> /\ Finish(q)
    BY <1>12 DEF SetDeletedAt
  <2>2. LinksResolve'
    BY <2>1 DEF LinkInv, LinksResolve, ParentExists
  <2> QED
    BY <1>1, <2>1, <2>2, PendingGrows DEF LinkInv
<1>13. CASE DeleteRows(q)
  BY <1>1, <1>13, DeleteLinks
<1> QED
  BY <1>3, <1>4, <1>5, <1>6, <1>7, <1>8, <1>9, <1>10, <1>11, <1>12, <1>13
     DEF Proceed, Abort, GuardRejects, UpdateFails, BulkFails, DeadlockVictim, InsertFails

LEMMA UploadKeepsLinks ==
  ASSUME LinkInv, NEW n \in Name, NEW p \in Id \cup {Root}, UploadFile(n, p)
  PROVE  LinkInv'
<1>1. TreeTypeOK'
  BY UploadKeepsTypes DEF LinkInv
<1>2. PICK i \in Id : Insert(i, n, p, FALSE, None)
  BY DEF UploadFile
<1>3. CASE Request # {}
  BY <1>1, <1>2, <1>3, InsertLinks DEF UploadFile
<1>4. CASE Request = {}
  <2>1. PendingLinksResolve'
    BY <1>4 DEF PendingLinksResolve
  <2>2. LinksResolve'
    BY <1>2 DEF Insert, UploadFile, LinkInv, TreeTypeOK, LinksResolve, ParentExists
  <2> QED
    BY <1>1, <2>1, <2>2 DEF LinkInv
<1> QED
  BY <1>3, <1>4

LEMMA InitLinks == TreeInit => LinkInv
<1> SUFFICES ASSUME TreeInit PROVE LinkInv
  OBVIOUS
<1>1. LinksResolve
  BY InitialAssumption DEF TreeInit, LinksResolve, ParentExists
<1>2. \A q \in Request : job[q] = Idle
  BY DEF TreeInit
<1>3. PendingLinksResolve
  BY <1>2, IdlePending, PendingByRequest
<1> QED
  BY <1>1, <1>3, InitTyped DEF LinkInv

LEMMA NextLinks ==
  ASSUME LinkInv, [TreeNext]_vars
  PROVE  LinkInv'
<1>1. CASE UNCHANGED vars
  BY <1>1 DEF vars, treeVars, LinkInv, TreeTypeOK, LinksResolve, ParentExists,
              PendingLinksResolve
<1>2. CASE TreeNext
  BY <1>2, CallKeepsLinks, ProceedKeepsLinks, UploadKeepsLinks DEF TreeNext
<1> QED
  BY <1>1, <1>2

LEMMA LinkInvariant == TreeSpec => []LinkInv
BY InitLinks, NextLinks, PTL DEF TreeSpec

(* However moves, deletions and new rows are interleaved, the parent of     *)
(* every row exists, and every shortcut has a target that exists and is     *)
(* none itself.                                                             *)
THEOREM LinksCorrect == TreeSpec => []LinksResolve
<1>1. LinkInv => LinksResolve
  BY DEF LinkInv
<1> QED
  BY <1>1, LinkInvariant, PTL

-----------------------------------------------------------------------------
(* Subtrees.  Below(i) is the least set of rows with i that is closed under *)
(* taking children.                                                         *)

LEMMA BelowClosed ==
  ASSUME NEW i \in rows
  PROVE  i \in Below(i) /\ Below(i) \in SUBSET rows /\ ClosedBelow(Below(i))
BY DEF Below, ClosedBelow

LEMMA BelowLeast ==
  ASSUME NEW S \in SUBSET rows, NEW i \in S, ClosedBelow(S)
  PROVE  Below(i) \subseteq S
BY DEF Below

(* What is below something below i is below i.                              *)
LEMMA BelowTransitive ==
  ASSUME NEW i, NEW j \in Below(i)
  PROVE  Below(j) \subseteq Below(i)
<1>1. i \in rows
  BY DEF Below
<1> QED
  BY <1>1, BelowClosed, BelowLeast

(* What is below i, and not i itself, has a parent below i.                 *)
LEMMA BelowUp ==
  ASSUME NEW i \in rows, NEW k \in Below(i), k # i
  PROVE  parentOf[k] \in Below(i)
<1> SUFFICES ASSUME parentOf[k] \notin Below(i) PROVE FALSE
  OBVIOUS
<1> DEFINE S == Below(i) \ {k}
<1>1. ClosedBelow(S)
  BY BelowClosed DEF ClosedBelow
<1>2. S \in SUBSET rows /\ i \in S
  BY BelowClosed
<1> HIDE DEF S
<1>3. Below(i) \subseteq S
  BY <1>1, <1>2, BelowLeast
<1> QED
  BY <1>3 DEF S

LEMMA ParentAbove ==
  ASSUME NEW k \in rows, parentOf[k] \in rows
  PROVE  k \in Below(parentOf[k])
BY BelowClosed DEF ClosedBelow

(* A row with an ancestor among its children is on a cycle: the rows between *)
(* them are each other's ancestors.                                         *)
LEMMA LoopIsCycle ==
  ASSUME NEW k \in rows, NEW j \in Below(k), parentOf[k] = j
  PROVE  OnCycle(j)
<1> DEFINE S == {x \in Below(j) : j \in Below(x)}
<1>1. j \in rows /\ k \in Below(j)
  <2>1. j \in rows
    BY BelowClosed
  <2> QED
    BY <2>1, ParentAbove
<1>2. S \in SUBSET rows /\ j \in S
  BY <1>1, BelowClosed
<1>3. ASSUME NEW x \in S
      PROVE  parentOf[x] \in S
  <2>1. x \in rows
    BY <1>2
  <2>2. parentOf[x] \in Below(j)
    <3>1. CASE x # j
      BY <1>1, <3>1, BelowUp
    <3>2. CASE x = j /\ k = j
      BY <1>1, <3>2, BelowClosed
    <3>3. CASE x = j /\ k # j
      <4>1. parentOf[j] \in Below(k)
        BY <3>3, BelowUp
      <4> QED
        BY <1>1, <3>3, <4>1, BelowTransitive
    <3> QED
      BY <3>1, <3>2, <3>3
  <2>3. parentOf[x] \in rows
    BY <1>1, <2>2, BelowClosed
  <2>4. x \in Below(parentOf[x])
    BY <2>1, <2>3, ParentAbove
  <2>5. j \in Below(parentOf[x])
    BY <2>4, BelowTransitive
  <2> QED
    BY <2>2, <2>5
<1> HIDE DEF S
<1>4. Cyclic(S)
  BY <1>2, <1>3 DEF Cyclic
<1> QED
  BY <1>2, <1>4 DEF OnCycle

(* Why views show everything.  Take a row j that no opening of folders       *)
(* reaches, and S all that is reached.  Of the ancestors of j outside S none *)
(* is at the top, where the listing or the trash would show it, and none    *)
(* has a parent inside S, unless that is a shortcut or below j itself: the   *)
(* ancestors outside S make up a cycle.                                     *)
LEMMA LinkedIsBrowsable ==
  ASSUME TreeTypeOK, LinksResolve
  PROVE  EverythingBrowsable
<1> SUFFICES ASSUME NEW j \in rows, j \notin Browsable, ~CutOff(j)
             PROVE  FALSE
  BY DEF EverythingBrowsable
<1>1. PICK S \in SUBSET rows : /\ ListDirectory(Root) \cup ListTrash \subseteq S
                               /\ \A p \in S : ListDirectory(p) \subseteq S
                               /\ j \notin S
  BY DEF Browsable
<1> DEFINE T == {k \in rows \ S : j \in Below(k)}
<1>2. j \in T
  BY <1>1, BelowClosed
<1>3. ASSUME NEW k \in T
      PROVE  parentOf[k] \in T
  <2> DEFINE p == parentOf[k]
  <2>1. k \in rows /\ k \notin S /\ j \in Below(k)
    OBVIOUS
  <2>2. p \in rows \cup {Root}
    BY <2>1 DEF LinksResolve, ParentExists
  <2>3. p # Root
    <3> SUFFICES ASSUME p = Root PROVE FALSE
      OBVIOUS
    <3>1. k \in ListDirectory(Root) \/ k \in ListTrash
      BY <2>1, RootNoneAssumption DEF ListDirectory, ListTrash
    <3> QED
      BY <1>1, <2>1, <3>1
  <2>4. p \in rows /\ k \in Below(p)
    BY <2>1, <2>2, <2>3, ParentAbove
  <2>5. j \in Below(p)
    BY <2>1, <2>4, BelowTransitive
  <2>6. p \notin S
    <3> SUFFICES ASSUME p \in S PROVE FALSE
      OBVIOUS
    <3>1. CASE p = j
      <4>1. OnCycle(j)
        BY <2>1, <3>1, LoopIsCycle
      <4> QED
        BY <4>1, BelowClosed DEF CutOff
    <3>2. CASE p # j /\ target[p] # None
      BY <2>4, <2>5, <3>2 DEF CutOff
    <3>3. CASE target[p] = None
      <4>1. k \in ListDirectory(p) \/ k \in ListTrash
        BY <2>1, <3>3 DEF ListDirectory, ListTrash
      <4> QED
        BY <1>1, <2>1, <4>1
    <3> QED
      BY <3>1, <3>2, <3>3
  <2> QED
    BY <2>4, <2>5, <2>6
<1>4. Cyclic(T) /\ T \in SUBSET rows
  <2> HIDE DEF T
  <2>1. T \in SUBSET rows
    BY DEF T
  <2> QED
    BY <1>2, <1>3, <2>1 DEF Cyclic
<1>5. OnCycle(j)
  BY <1>2, <1>4 DEF OnCycle
<1> QED
  BY <1>5, BelowClosed DEF CutOff

(* However parts of its ancestors were moved, trashed and restored, a row   *)
(* that is below no shortcut and no cycle is found from the top-level       *)
(* listing or the trash.                                                    *)
THEOREM EverythingBrowsableCorrect == TreeSpec => []EverythingBrowsable
<1>1. LinkInv => EverythingBrowsable
  BY LinkedIsBrowsable DEF LinkInv
<1> QED
  BY <1>1, LinkInvariant, PTL

-----------------------------------------------------------------------------
(* Cycles.                                                                  *)

(* A new row has no children yet, so it closes no cycle.                    *)
LEMMA InsertKeepsAcyclic ==
  ASSUME LinkInv, NoCycles,
         NEW i \in Id, NEW n, NEW p, NEW dir, NEW to,
         Insert(i, n, p, dir, to), ParentExists(p)
  PROVE  NoCycles'
<1> SUFFICES ASSUME NEW S \in SUBSET rows', Cyclic(S)'
             PROVE  FALSE
  BY DEF NoCycles, OnCycle
<1> DEFINE T == S \ {i}
<1>1. /\ i \notin rows /\ i # Root /\ rows' = rows \cup {i}
      /\ parentOf'[i] = p
      /\ \A k \in rows : parentOf'[k] = parentOf[k]
  BY RootNoneAssumption DEF Insert, LinkInv, TreeTypeOK
<1>2. \A k \in T : k \in rows /\ parentOf[k] \in T
  BY <1>1 DEF Cyclic, LinkInv, LinksResolve, ParentExists
<1>3. T # {}
  BY <1>1 DEF Cyclic, ParentExists
<1>4. T \in SUBSET rows /\ Cyclic(T)
  <2> HIDE DEF T
  <2> QED
    BY <1>2, <1>3 DEF Cyclic
<1> QED
  BY <1>3, <1>4 DEF NoCycles, OnCycle

LEMMA DeleteKeepsAcyclic ==
  ASSUME LinkInv, NoCycles, NEW q \in Request, DeleteRows(q)
  PROVE  NoCycles'
<1>1. rows' \subseteq rows /\ \A k \in rows' : parentOf'[k] = parentOf[k]
  BY DEF DeleteRows, LinkInv, TreeTypeOK
<1>2. \A S \in SUBSET rows' : Cyclic(S)' => Cyclic(S)
  BY <1>1 DEF Cyclic
<1> QED
  BY <1>1, <1>2 DEF NoCycles, OnCycle

LEMMA OthersKeepLinks ==
  ASSUME NoCycles, UNCHANGED <<rows, parentOf>>
  PROVE  NoCycles'
BY DEF NoCycles, OnCycle, Cyclic

(* Creating folders, files and shortcuts, trashing, restoring and deleting  *)
(* never close a cycle of parents, in whatever order their statements run;  *)
(* only what writes parent_id of an existing row can.                       *)
THEOREM CyclesComeFromMovesCorrect == TreeSpec => CyclesComeFromMoves
<1>1. ASSUME LinkInv, [TreeNext]_vars, NoCycles,
             ~(\E q \in Request : Update(q) \/ BulkCommit(q))
      PROVE  NoCycles'
  <2>1. CASE UNCHANGED <<rows, parentOf>>
    BY <1>1, <2>1, OthersKeepLinks
  <2>2. ASSUME NEW n \in Name, NEW p \in Id \cup {Root}, UploadFile(n, p)
        PROVE  NoCycles'
    BY <1>1, <2>2, InsertKeepsAcyclic DEF UploadFile
  <2>3. ASSUME NEW q \in Request, InsertFolder(q) \/ InsertShortcut(q)
        PROVE  NoCycles'
    BY <1>1, <2>3, InsertKeepsAcyclic DEF InsertFolder, InsertShortcut
  <2>4. ASSUME NEW q \in Request, DeleteRows(q)
        PROVE  NoCycles'
    BY <1>1, <2>4, DeleteKeepsAcyclic
  <2>5. ASSUME NEW q \in Request, Call(q) \/ Abort(q) \/ Recheck(q)
        PROVE  UNCHANGED <<rows, parentOf>>
    BY <2>5, CallChangesNothing DEF Abort, Recheck, treeVars
  <2>6. ASSUME NEW q \in Request,
               GuardPasses(q) \/ GuardRejects(q) \/ UpdateFails(q) \/ DeadlockVictim(q)
        PROVE  UNCHANGED <<rows, parentOf>>
    BY <2>6 DEF GuardPasses, GuardRejects, UpdateFails, DeadlockVictim, treeVars
  <2>7. ASSUME NEW q \in Request,
               BulkRead(q) \/ BulkUpdate(q) \/ BulkFails(q) \/ InsertFails(q) \/ SetDeletedAt(q)
        PROVE  UNCHANGED <<rows, parentOf>>
    BY <2>7 DEF BulkRead, BulkUpdate, BulkFails, InsertFails, SetDeletedAt, treeVars
  <2>8. CASE UNCHANGED vars
    BY <2>1, <2>8 DEF vars, treeVars
  <2>9. ASSUME NEW q \in Request, Proceed(q)
        PROVE  NoCycles'
    BY <1>1, <2>1, <2>3, <2>4, <2>5, <2>6, <2>7, <2>9 DEF Proceed
  <2> QED
    BY <1>1, <2>1, <2>2, <2>5, <2>8, <2>9 DEF TreeNext
<1>2. LinkInv /\ [TreeNext]_vars
        => [NoCycles /\ ~NoCycles' => \E q \in Request : Update(q) \/ BulkCommit(q)]_vars
  BY <1>1
<1> QED
  BY <1>2, LinkInvariant, PTL DEF TreeSpec, CyclesComeFromMoves
=============================================================================
