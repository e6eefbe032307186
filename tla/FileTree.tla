------------------------------ MODULE FileTree ------------------------------
(***************************************************************************)
(* The tree of folders, files and shortcuts: RenameMove, BulkMove,          *)
(* CreateFolder, CreateShortcut, SoftDelete, Restore and PermanentDelete of *)
(* FileService with their queries, and what ListDirectory and ListTrash     *)
(* show of the result.                                                      *)
(*                                                                          *)
(* A request q runs its statements interleaved with the others'.  A row is  *)
(* written by one UPDATE, but from a copy read earlier; statements over a   *)
(* subtree compute it from their snapshot and then write row by row.  Only  *)
(* BulkMove holds row locks from one step to the next: those of moved.      *)
(***************************************************************************)
EXTENDS Sequences

CONSTANTS
  Id,            \* ids of files rows
  Name,          \* names
  Root,          \* parent_id NULL; in a request: parent_id ""
  None,          \* no target_id; in a request: field not given
  Request,       \* concurrent requests
  Initial,       \* the top-level folders there are at the start
  Calls,         \* bound: the operations clients call
  BulkLists      \* bound: the id lists of BulkMove requests

ASSUME RootNoneAssumption == Root # None /\ Root \notin Id /\ None \notin Id \cup Name
ASSUME InitialAssumption == Initial \subseteq Id
ASSUME BulkListsAssumption == BulkLists \subseteq Seq(Id) \ {<<>>}

VARIABLES
  rows,          \* files rows
  dirs,          \* those with is_directory
  parentOf,      \* files.parent_id
  nameOf,        \* files.name
  trashed,       \* rows whose deleted_at is set
  target,        \* files.target_id
  used,          \* ids given out so far
  job            \* what each request is at, and with which values

treeVars == <<rows, dirs, parentOf, nameOf, trashed, target, used>>
vars == <<treeVars, job>>

(* item: the row of the request, a shortcut's target; name, parent: of the  *)
(* row it is about to write.  Of a BulkMove: dest, its parent_id; todo, the *)
(* ids left; moved, what is written and not committed.  victims: the        *)
(* subtree that a statement has seen.                                       *)
Move == [name : Name, parent : Id \cup {Root, None}]

Job == [at      : {"idle", "guard", "update", "bulkread", "bulkupdate", "bulkcommit",
                   "recheck", "insert", "link", "trash", "restore", "delete"},
        item    : Id \cup {None},
        dest    : Id \cup {Root, None},
        name    : Name \cup {None},
        parent  : Id \cup {Root, None},
        todo    : Seq(Id),
        moved   : [Id -> Move \cup {None}],
        victims : SUBSET Id]

Idle == [at |-> "idle", item |-> None, dest |-> None, name |-> None, parent |-> None,
         todo |-> <<>>, moved |-> [i \in Id |-> None], victims |-> {}]

(* A request has the values its next step reads.                            *)
Prepared(j) ==
  /\ j.at \in {"guard", "update"} =>
       j.item \in Id /\ j.name \in Name /\ j.parent \in Id \cup {Root}
  /\ j.at = "guard" => j.parent \in Id
  /\ j.at \in {"bulkread", "bulkupdate"} => j.todo # <<>>
  /\ j.at = "bulkupdate" => j.name \in Name
  /\ j.at \in {"recheck", "insert", "link"} => j.name \in Name /\ j.parent \in Id \cup {Root}
  /\ j.at = "link" => j.item \in Id

(* Every variable has its type, no id is a row before it is given out, and  *)
(* requests are prepared for their next step.                               *)
TreeTypeOK ==
  /\ rows \subseteq used /\ used \subseteq Id
  /\ dirs \subseteq Id /\ trashed \subseteq rows
  /\ parentOf \in [Id -> Id \cup {Root}]
  /\ nameOf \in [Id -> Name]
  /\ target \in [Id -> Id \cup {None}]
  /\ job \in [Request -> Job]
  /\ \A q \in Request : Prepared(job[q])

TreeInit ==
  /\ rows = Initial /\ used = Initial /\ dirs = Initial
  /\ parentOf = [i \in Id |-> Root]
  /\ \E n \in Name : nameOf = [i \in Id |-> n]
  /\ trashed = {}
  /\ target = [i \in Id |-> None]
  /\ job = [q \in Request |-> Idle]

-----------------------------------------------------------------------------
(* The recursive queries, as least sets closed under what they follow.      *)

(* WITH RECURSIVE subtree: i and what hangs below it, trashed or not.       *)
ClosedBelow(S) == \A k \in rows : parentOf[k] \in S => k \in S

Below(i) ==
  {j \in rows : i \in rows /\ \A S \in SUBSET rows : i \in S /\ ClosedBelow(S) => j \in S}

(* What ON DELETE CASCADE takes with the rows V: children and shortcuts,    *)
(* and what hangs below these.                                              *)
ClosedCascade(S) == ClosedBelow(S) /\ \A k \in rows : target[k] \in S => k \in S

Cascade(V) ==
  {j \in rows : \A S \in SUBSET rows : V \subseteq S /\ ClosedCascade(S) => j \in S}

(* Rows that are each other's ancestors.                                    *)
Cyclic(S) == S # {} /\ \A i \in S : parentOf[i] \in S
OnCycle(i) == \E S \in SUBSET rows : Cyclic(S) /\ i \in S

(* UNION ALL: the query below i only ends if no cycle is below i.           *)
QueryEnds(i) == \A j \in Below(i) : ~OnCycle(j)

(* IsDescendant(candidateID, ancestorID).                                   *)
IsDescendant(candidate, ancestor) ==
  candidate = ancestor \/ candidate \in Below(ancestor)

-----------------------------------------------------------------------------
(* Row locks.                                                               *)
Locked(q, i) == \E p \in Request \ {q} : job[p].moved[i] # None

(* Deleting a row waits for uncommitted rows that refer to it, too.         *)
DeleteLocked(q, i) ==
  \/ Locked(q, i)
  \/ \E p \in Request \ {q}, k \in Id :
       job[p].moved[k] # None /\ job[p].moved[k].parent = i

Finish(q) == job' = [job EXCEPT ![q] = Idle]

Starts(q, call) == job[q].at = "idle" /\ call \in Calls

(* parent_id of an existing row, or NULL.                                   *)
ParentExists(p) == p \in rows \cup {Root}

(* Wrong Insert: a row that has the id is overwritten.                      *)
Upsert(i, name, parent, dir, to) ==
  /\ i \in Id
  /\ used' = used \cup {i}
  /\ rows' = rows \cup {i}
  /\ dirs' = IF dir THEN dirs \cup {i} ELSE dirs \ {i}
  /\ nameOf' = [nameOf EXCEPT ![i] = name]
  /\ parentOf' = [parentOf EXCEPT ![i] = parent]
  /\ target' = [target EXCEPT ![i] = to]
  /\ UNCHANGED trashed

Insert(i, name, parent, dir, to) ==
  /\ i \in Id \ used
  /\ used' = used \cup {i}
  /\ rows' = rows \cup {i}
  /\ dirs' = IF dir THEN dirs \cup {i} ELSE dirs
  /\ nameOf' = [nameOf EXCEPT ![i] = name]
  /\ parentOf' = [parentOf EXCEPT ![i] = parent]
  /\ target' = [target EXCEPT ![i] = to]
  /\ UNCHANGED trashed

-----------------------------------------------------------------------------
(* PATCH /api/files/{id}.                                                   *)

(* Wrong RenameMove: a parent_id that is not given is taken for nil.        *)
RenameMoveNil(q, i, n, p) ==
  /\ Starts(q, "renamemove")
  /\ i \in rows
  /\ p # i
  /\ job' = [job EXCEPT ![q] =
       [Idle EXCEPT !.at = IF i \in dirs /\ p \in Id THEN "guard" ELSE "update",
                    !.item = i,
                    !.name = IF n = None THEN nameOf[i] ELSE n,
                    !.parent = p]]
  /\ UNCHANGED treeVars

(* GetByID, and the copy with what the caller wants to change.  A row that  *)
(* would become its own parent is rejected.                                 *)
RenameMove(q, i, n, p) ==
  LET parent == IF p = None THEN parentOf[i] ELSE p
  IN /\ Starts(q, "renamemove")
     /\ i \in rows
     /\ parent # i
     /\ job' = [job EXCEPT ![q] =
          [Idle EXCEPT !.at = IF i \in dirs /\ p \in Id THEN "guard" ELSE "update",
                       !.item = i,
                       !.name = IF n = None THEN nameOf[i] ELSE n,
                       !.parent = parent]]
     /\ UNCHANGED treeVars

(* The cycle guard for directories.                                         *)
GuardPasses(q) ==
  /\ job[q].at = "guard"
  /\ QueryEnds(job[q].parent)
  /\ ~IsDescendant(job[q].item, job[q].parent)
  /\ job' = [job EXCEPT ![q].at = "update"]
  /\ UNCHANGED treeVars

GuardRejects(q) ==
  /\ job[q].at = "guard"
  /\ QueryEnds(job[q].parent)
  /\ IsDescendant(job[q].item, job[q].parent)
  /\ Finish(q)
  /\ UNCHANGED treeVars

(* Wrong Updatable: no foreign key on parent_id.                            *)
UpdatableAnywhere(q) == job[q].item \in rows

(* The row is still there and the foreign key on parent_id is satisfied.    *)
Updatable(q) == job[q].item \in rows /\ ParentExists(job[q].parent)

(* Update: the name and the parent of the copy, but a nil parent is not     *)
(* written.                                                                 *)
Update(q) ==
  /\ job[q].at = "update"
  /\ ~Locked(q, job[q].item)
  /\ Updatable(q)
  /\ nameOf' = [nameOf EXCEPT ![job[q].item] = job[q].name]
  /\ parentOf' = [parentOf EXCEPT ![job[q].item] = IF job[q].parent = Root THEN @ ELSE job[q].parent]
  /\ Finish(q)
  /\ UNCHANGED <<rows, dirs, trashed, target, used>>

UpdateFails(q) ==
  /\ job[q].at = "update"
  /\ ~Locked(q, job[q].item)
  /\ ~Updatable(q)
  /\ Finish(q)
  /\ UNCHANGED treeVars

-----------------------------------------------------------------------------
(* POST /api/files/bulk/move: one transaction, no guard.                    *)
BulkMove(q, ids, p) ==
  /\ Starts(q, "bulkmove")
  /\ job' = [job EXCEPT ![q] = [Idle EXCEPT !.at = "bulkread", !.todo = ids, !.dest = p]]
  /\ UNCHANGED treeVars

BulkRead(q) ==
  LET i == Head(job[q].todo)
      moved == job[q].moved
  IN /\ job[q].at = "bulkread"
     /\ i \in rows
     /\ job' = [job EXCEPT ![q].at = "bulkupdate",
                           ![q].name = IF moved[i] # None THEN moved[i].name ELSE nameOf[i]]
     /\ UNCHANGED treeVars

BulkUpdatable(q) ==
  Head(job[q].todo) \in rows /\ (job[q].dest = None \/ ParentExists(job[q].dest))

BulkUpdate(q) ==
  LET i == Head(job[q].todo)
  IN /\ job[q].at = "bulkupdate"
     /\ ~Locked(q, i)
     /\ BulkUpdatable(q)
     /\ job' = [job EXCEPT
          ![q].moved[i] = [name |-> job[q].name, parent |-> job[q].dest],
          ![q].todo = Tail(@),
          ![q].at = IF Tail(job[q].todo) = <<>> THEN "bulkcommit" ELSE "bulkread"]
     /\ UNCHANGED treeVars

(* Wrong BulkFails: the transaction is neither committed nor rolled back.   *)
BulkFailsOpen(q) ==
  /\ job[q].at = "bulkread" /\ Head(job[q].todo) \notin rows
  /\ job' = [job EXCEPT ![q].at = "idle"]
  /\ UNCHANGED treeVars

BulkFails(q) ==
  /\ \/ job[q].at = "bulkread" /\ Head(job[q].todo) \notin rows
     \/ /\ job[q].at = "bulkupdate"
        /\ ~Locked(q, Head(job[q].todo))
        /\ ~BulkUpdatable(q)
  /\ Finish(q)
  /\ UNCHANGED treeVars

BulkCommit(q) ==
  LET moved == job[q].moved
  IN /\ job[q].at = "bulkcommit"
     /\ nameOf' = [i \in Id |-> IF moved[i] # None THEN moved[i].name ELSE nameOf[i]]
     /\ parentOf' = [i \in Id |-> IF moved[i] # None /\ moved[i].parent # None
                                  THEN moved[i].parent ELSE parentOf[i]]
     /\ Finish(q)
     /\ UNCHANGED <<rows, dirs, trashed, target, used>>

(* Two transactions move the same rows in different order: Postgres aborts  *)
(* one of a cycle of waiting transactions.                                  *)
WaitsFor(q, p) ==
  job[q].at = "bulkupdate" /\ q # p /\ job[p].moved[Head(job[q].todo)] # None

DeadlockVictim(q) ==
  /\ \E S \in SUBSET Request :
       /\ q \in S
       /\ \A r \in S : (\E p \in S : WaitsFor(r, p)) /\ (\E p \in S : WaitsFor(p, r))
  /\ Finish(q)
  /\ UNCHANGED treeVars

-----------------------------------------------------------------------------
(* POST /api/folders: looked up before and again inside the transaction.    *)
FolderExists(n, p) == \E i \in (rows \cap dirs) \ trashed : nameOf[i] = n /\ parentOf[i] = p

CreateFolder(q, n, p) ==
  /\ Starts(q, "createfolder")
  /\ ~FolderExists(n, p)
  /\ job' = [job EXCEPT ![q] = [Idle EXCEPT !.at = "recheck", !.name = n, !.parent = p]]
  /\ UNCHANGED treeVars

Recheck(q) ==
  /\ job[q].at = "recheck"
  /\ IF FolderExists(job[q].name, job[q].parent)
     THEN Finish(q)
     ELSE job' = [job EXCEPT ![q].at = "insert"]
  /\ UNCHANGED treeVars

(* Create, GrantPermission and COMMIT.                                      *)
InsertFolder(q) ==
  /\ job[q].at = "insert"
  /\ ParentExists(job[q].parent)
  /\ \E i \in Id : Insert(i, job[q].name, job[q].parent, TRUE, None)
  /\ Finish(q)

(* Wrong CreateShortcut: the target of a shortcut is not resolved.          *)
CreateShortcutChain(q, t, p) ==
  /\ Starts(q, "shortcut")
  /\ t \in rows
  /\ job' = [job EXCEPT ![q] =
       [Idle EXCEPT !.at = "link", !.name = nameOf[t], !.parent = p, !.item = t]]
  /\ UNCHANGED treeVars

(* POST /api/files/shortcut: a shortcut to a shortcut gets its target.      *)
CreateShortcut(q, t, p) ==
  /\ Starts(q, "shortcut")
  /\ t \in rows
  /\ job' = [job EXCEPT ![q] =
       [Idle EXCEPT !.at = "link", !.name = nameOf[t], !.parent = p,
                    !.item = IF target[t] # None THEN target[t] ELSE t]]
  /\ UNCHANGED treeVars

InsertShortcut(q) ==
  /\ job[q].at = "link"
  /\ job[q].item \in rows /\ ParentExists(job[q].parent)
  /\ \E i \in Id : Insert(i, job[q].name, job[q].parent, job[q].item \in dirs, job[q].item)
  /\ Finish(q)

(* Foreign key violation: the parent or the target was deleted meanwhile.   *)
InsertFails(q) ==
  /\ \/ job[q].at = "insert" /\ ~ParentExists(job[q].parent)
     \/ job[q].at = "link" /\ ~(job[q].item \in rows /\ ParentExists(job[q].parent))
  /\ Finish(q)
  /\ UNCHANGED treeVars

(* A Complete of the upload service commits a file.                         *)
UploadFile(n, p) ==
  /\ "upload" \in Calls
  /\ ParentExists(p)
  /\ \E i \in Id : Insert(i, n, p, FALSE, None)
  /\ UNCHANGED job

-----------------------------------------------------------------------------
(* Trash and deletion: a statement sees the subtree in its snapshot ...     *)
Subtree(q, call, i, at) ==
  /\ Starts(q, call)
  /\ i \in rows
  /\ QueryEnds(i)
  /\ job' = [job EXCEPT ![q] = [Idle EXCEPT !.at = at, !.victims = Below(i)]]
  /\ UNCHANGED treeVars

SoftDelete(q, i) == Subtree(q, "softdelete", i, "trash")
Restore(q, i) == Subtree(q, "restore", i, "restore")
PermanentDelete(q, i) == Subtree(q, "delete", i, "delete")

(* ... and writes the rows that are still there, when nobody holds them.    *)
SetDeletedAt(q) ==
  /\ job[q].at \in {"trash", "restore"}
  /\ \A i \in job[q].victims : ~Locked(q, i)
  /\ trashed' = IF job[q].at = "trash" THEN trashed \cup (job[q].victims \cap rows)
                                       ELSE trashed \ job[q].victims
  /\ Finish(q)
  /\ UNCHANGED <<rows, dirs, parentOf, nameOf, target, used>>

DeleteRows(q) ==
  LET gone == Cascade(job[q].victims \cap rows)
  IN /\ job[q].at = "delete"
     /\ \A i \in gone : ~DeleteLocked(q, i)
     /\ rows' = rows \ gone
     /\ dirs' = dirs \ gone
     /\ trashed' = trashed \ gone
     /\ parentOf' = [i \in Id |-> IF i \in gone THEN Root ELSE parentOf[i]]
     /\ target' = [i \in Id |-> IF i \in gone THEN None ELSE target[i]]
     /\ Finish(q)
     /\ UNCHANGED <<nameOf, used>>

(* A statement fails or the client goes away: what the request did not      *)
(* commit is forgotten.                                                     *)
Abort(q) ==
  /\ job[q].at # "idle"
  /\ Finish(q)
  /\ UNCHANGED treeVars

-----------------------------------------------------------------------------
Call(q) ==
  \/ \E i \in Id, n \in Name \cup {None}, p \in Id \cup {Root, None} : RenameMove(q, i, n, p)
  \/ \E ids \in BulkLists, p \in Id \cup {Root, None} : BulkMove(q, ids, p)
  \/ \E n \in Name, p \in Id \cup {Root} : CreateFolder(q, n, p)
  \/ \E t \in Id, p \in Id \cup {Root} : CreateShortcut(q, t, p)
  \/ \E i \in Id : SoftDelete(q, i) \/ Restore(q, i) \/ PermanentDelete(q, i)

Proceed(q) ==
  \/ GuardPasses(q)
  \/ GuardRejects(q)
  \/ Update(q)
  \/ UpdateFails(q)
  \/ BulkRead(q)
  \/ BulkUpdate(q)
  \/ BulkFails(q)
  \/ BulkCommit(q)
  \/ DeadlockVictim(q)
  \/ Recheck(q)
  \/ InsertFolder(q)
  \/ InsertShortcut(q)
  \/ InsertFails(q)
  \/ SetDeletedAt(q)
  \/ DeleteRows(q)

TreeNext ==
  \/ \E q \in Request : Call(q) \/ Proceed(q) \/ Abort(q)
  \/ \E n \in Name, p \in Id \cup {Root} : UploadFile(n, p)

TreeSpec == TreeInit /\ [][TreeNext]_vars

(* A goroutine that runs is scheduled, and a row lock is granted in turn:   *)
(* who waits for it is not overtaken for ever.                              *)
TreeFairSpec ==
  /\ TreeSpec
  /\ \A q \in Request : SF_vars(Proceed(q))

-----------------------------------------------------------------------------
(* What the views show.                                                     *)

(* Wrong ListDirectory: trashed children are never shown.                   *)
ListLiveOnly(p) ==
  LET folder == IF p \in Id /\ target[p] # None THEN target[p] ELSE p
  IN {i \in rows \ trashed : parentOf[i] = folder}

(* ListDirectory resolves a shortcut; a trashed folder shows all children.  *)
ListDirectory(p) ==
  LET folder == IF p \in Id /\ target[p] # None THEN target[p] ELSE p
  IN {i \in rows : parentOf[i] = folder /\ (folder \in trashed \/ i \notin trashed)}

(* ListTrash: the roots of what is trashed.                                 *)
ListTrash == {i \in trashed : parentOf[i] = Root \/ parentOf[i] \notin trashed}

(* What can be reached from the two views by opening folders.               *)
Browsable ==
  {j \in rows : \A S \in SUBSET rows :
     /\ ListDirectory(Root) \cup ListTrash \subseteq S
     /\ \A p \in S : ListDirectory(p) \subseteq S
     => j \in S}

(* A row below a shortcut, or below a cycle.                                *)
CutOff(i) ==
  \E a \in rows : i \in Below(a) /\ (OnCycle(a) \/ (a # i /\ target[a] # None))

-----------------------------------------------------------------------------
(* Properties.                                                              *)

(* Links lead somewhere: the parent of a row exists, and so does the target *)
(* of a shortcut, which is no shortcut itself, although rows are read, moved *)
(* and linked while others are deleted.                                     *)
LinksResolve ==
  \A i \in rows :
    /\ ParentExists(parentOf[i])
    /\ target[i] # None => target[i] \in rows /\ target[target[i]] = None

(* Why: a shortcut about to be inserted has a target that is none, and only *)
(* transactions of BulkMove hold rows, whose new parents stay.              *)
PendingLinksResolve ==
  \A q \in Request :
    /\ job[q].at = "link" => job[q].item \in used /\ target[job[q].item] = None
    /\ job[q].at \notin {"bulkread", "bulkupdate", "bulkcommit"} =>
         \A i \in Id : job[q].moved[i] = None
    /\ \A i \in Id : job[q].moved[i] # None =>
         job[q].moved[i].parent \in rows \cup {Root, None}

(* Nothing gets out of sight: every row that is not below a shortcut or a   *)
(* cycle is found from the top-level listing or the trash, however trashing, *)
(* restoring and moving parts of its ancestors were interleaved.            *)
EverythingBrowsable == \A i \in rows \ Browsable : CutOff(i)

(* Every request returns, although bulk moves wait for each other's rows;   *)
(* a cycle keeps recursive queries from ending.  (When no id is left the    *)
(* bound holds an insert up, not the code.)                                 *)
TreeRequestsReturn ==
  \A q \in Request :
    job[q].at # "idle" ~> \/ job[q].at = "idle"
                          \/ job[q].at \in {"insert", "link"} /\ used = Id
                          \/ \E i \in rows : OnCycle(i)

(* RenameMove guards against moving a folder into itself or a descendant.   *)
NoCycles == \A i \in rows : ~OnCycle(i)

(* A cycle comes from a move: whatever is created, trashed or deleted at the *)
(* same time, no other statement closes one.                                *)
CyclesComeFromMoves ==
  [][NoCycles /\ ~NoCycles' => \E q \in Request : Update(q) \/ BulkCommit(q)]_vars
=============================================================================
