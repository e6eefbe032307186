---------------------------- MODULE FileDeletion ----------------------------
(***************************************************************************)
(* Permanent deletion: FileService.PermanentDelete and BulkHardDelete, the  *)
(* FileRepository queries below them, and the background goroutine that     *)
(* removes the blocks they orphaned from the object store.                  *)
(*                                                                          *)
(* A deleter d is one such request.  PermanentDelete runs its statements on *)
(* the pool, each committing by itself; BulkHardDelete runs those of all    *)
(* its ids in one transaction, whose deletions dels[d] nobody else sees     *)
(* before the commit.  Folders are one level deep.                          *)
(***************************************************************************)
EXTENDS UploadService

CONSTANTS
  Deleter,       \* concurrent delete requests
  BulkLists      \* bound: the id lists of BulkHardDelete requests

Item == FileId \cup Folder

(* Folders and files are rows of one table.                                 *)
ASSUME ItemAssumption == Folder \cap FileId = {}
ASSUME BulkListsAssumption == BulkLists \subseteq Seq(Item) \ {<<>>}

VARIABLES
  dpc,           \* where a deleter is
  bulk,          \* whether it runs in a transaction of its own
  todo,          \* ids still to delete
  hashes,        \* collected from the subtree of the id at hand
  dels,          \* rows its transaction deleted and did not commit
  orphans        \* blocks it found orphaned and did not remove yet

deleterVars == <<dpc, bulk, todo, hashes, dels, orphans>>

(* A deleter has an id left while it works on one, and only a transaction   *)
(* has uncommitted deletions.                                               *)
DeletersWellFormed ==
  \A d \in Deleter :
    /\ dpc[d] \in {"lookup", "collect", "delete", "orphans"} => todo[d] # <<>>
    /\ dpc[d] = "commit" => todo[d] = <<>>
    /\ dels[d] # {} => bulk[d] /\ dpc[d] \notin {"idle", "gc"}

DeletersTypeOK ==
  /\ dpc \in [Deleter -> {"idle", "lookup", "collect", "delete", "orphans", "commit", "gc"}]
  /\ bulk \in [Deleter -> BOOLEAN]
  /\ todo \in [Deleter -> Seq(Item)]
  /\ hashes \in [Deleter -> SUBSET Hash]
  /\ dels \in [Deleter -> SUBSET Item]
  /\ orphans \in [Deleter -> SUBSET Hash]
  /\ DeletersWellFormed

DeletersInit ==
  /\ dpc = [d \in Deleter |-> "idle"]
  /\ bulk = [d \in Deleter |-> FALSE]
  /\ todo = [d \in Deleter |-> <<>>]
  /\ hashes = [d \in Deleter |-> {}]
  /\ dels = [d \in Deleter |-> {}]
  /\ orphans = [d \in Deleter |-> {}]

-----------------------------------------------------------------------------
(* files rows a statement of d sees: other transactions' deletions are not  *)
(* committed yet.                                                           *)
Rows(d) == (files \cup folders) \ dels[d]

(* The recursive CTE of DeleteRecursive from the id at hand.                *)
Subtree(d) ==
  LET root == Head(todo[d])
  IN {i \in Rows(d) : i = root \/ (i \in files /\ root \in Folder /\ fileParent[i] = root)}

(* The rows a committed DELETE takes away; file_blocks rows cascade.        *)
RemoveRows(gone) ==
  /\ files' = files \ gone
  /\ folders' = folders \ gone
  /\ fileBlocks' = [f \in FileId |-> IF f \in gone THEN <<>> ELSE fileBlocks[f]]

deletionFrame == <<urls, jobs, sessionVars, requestVars,
                   blockRows, nfiles, fileParent, origin>>
rowVars == <<folders, files, fileBlocks>>

(* DELETE /api/files/{id}/permanent of a row the caller owns.               *)
PermanentDelete(d, i) ==
  /\ dpc[d] = "idle"
  /\ i \in files \cup folders
  /\ dpc' = [dpc EXCEPT ![d] = "collect"]
  /\ todo' = [todo EXCEPT ![d] = <<i>>]
  /\ UNCHANGED <<deletionFrame, rowVars, objects, bulk, hashes, dels, orphans>>

(* DELETE /api/files/bulk/permanent: one transaction for all ids.           *)
BulkHardDelete(d, ids) ==
  /\ dpc[d] = "idle"
  /\ dpc' = [dpc EXCEPT ![d] = "lookup"]
  /\ bulk' = [bulk EXCEPT ![d] = TRUE]
  /\ todo' = [todo EXCEPT ![d] = ids]
  /\ UNCHANGED <<deletionFrame, rowVars, objects, hashes, dels, orphans>>

(* The request is over, with its goroutine and what its transaction did not *)
(* commit.                                                                  *)
Stop(d) ==
  /\ dpc' = [dpc EXCEPT ![d] = "idle"]
  /\ bulk' = [bulk EXCEPT ![d] = FALSE]
  /\ todo' = [todo EXCEPT ![d] = <<>>]
  /\ hashes' = [hashes EXCEPT ![d] = {}]
  /\ dels' = [dels EXCEPT ![d] = {}]
  /\ orphans' = [orphans EXCEPT ![d] = {}]

(* GetByID of the next id of the list.                                      *)
Lookup(d) ==
  /\ dpc[d] = "lookup"
  /\ Head(todo[d]) \in Rows(d)
  /\ dpc' = [dpc EXCEPT ![d] = "collect"]
  /\ UNCHANGED <<deletionFrame, rowVars, objects, bulk, todo, hashes, dels, orphans>>

LookupFails(d) ==
  /\ dpc[d] = "lookup"
  /\ Head(todo[d]) \notin Rows(d)
  /\ Stop(d)
  /\ UNCHANGED <<deletionFrame, rowVars, objects>>

(* First statement of DeleteRecursive.                                      *)
CollectSubtreeHashes(d) ==
  /\ dpc[d] = "collect"
  /\ hashes' = [hashes EXCEPT ![d] = UNION {Range(fileBlocks[f]) : f \in Subtree(d) \cap files}]
  /\ dpc' = [dpc EXCEPT ![d] = "delete"]
  /\ UNCHANGED <<deletionFrame, rowVars, objects, bulk, todo, dels, orphans>>

(* Second statement.  Rows another transaction has deleted are locked until *)
(* it ends.                                                                 *)
DeleteSubtree(d) ==
  /\ dpc[d] = "delete"
  /\ \A e \in Deleter \ {d} : Subtree(d) \cap dels[e] = {}
  /\ IF bulk[d]
     THEN /\ dels' = [dels EXCEPT ![d] = @ \cup Subtree(d)]
          /\ UNCHANGED rowVars
     ELSE /\ RemoveRows(Subtree(d))
          /\ UNCHANGED dels
  /\ dpc' = [dpc EXCEPT ![d] = "orphans"]
  /\ UNCHANGED <<deletionFrame, objects, bulk, todo, hashes, orphans>>

(* Wrong Orphaned: the blocks are taken for the subtree's own.              *)
OrphanedUnshared(d) == hashes[d] \cap blockRows

(* Third statement: of the collected hashes, those no visible file uses.    *)
Orphaned(d) ==
  {h \in hashes[d] \cap blockRows :
     \A f \in files \cap Rows(d) : h \notin Range(fileBlocks[f])}

(* Wrong FindOrphanedHashes: the loop over the ids does not end.            *)
FindOrphanedHashesAgain(d) ==
  /\ dpc[d] = "orphans"
  /\ orphans' = [orphans EXCEPT ![d] = @ \cup Orphaned(d)]
  /\ todo' = [todo EXCEPT ![d] = Tail(@)]
  /\ dpc' = [dpc EXCEPT ![d] = IF bulk[d] THEN "lookup" ELSE "gc"]
  /\ hashes' = [hashes EXCEPT ![d] = {}]
  /\ UNCHANGED <<deletionFrame, rowVars, objects, bulk, dels>>

FindOrphanedHashes(d) ==
  /\ dpc[d] = "orphans"
  /\ orphans' = [orphans EXCEPT ![d] = @ \cup Orphaned(d)]
  /\ todo' = [todo EXCEPT ![d] = Tail(@)]
  /\ dpc' = [dpc EXCEPT ![d] =
               IF todo'[d] # <<>> THEN "lookup" ELSE IF bulk[d] THEN "commit" ELSE "gc"]
  /\ hashes' = [hashes EXCEPT ![d] = {}]
  /\ UNCHANGED <<deletionFrame, rowVars, objects, bulk, dels>>

CommitBulk(d) ==
  /\ dpc[d] = "commit"
  /\ RemoveRows(dels[d])
  /\ dels' = [dels EXCEPT ![d] = {}]
  /\ dpc' = [dpc EXCEPT ![d] = "gc"]
  /\ UNCHANGED <<deletionFrame, objects, bulk, todo, hashes, orphans>>

(* garbageCollectBlocks: one object after the other; a failure is logged.   *)
GarbageCollectBlock(d, h, deleted) ==
  /\ dpc[d] = "gc"
  /\ h \in orphans[d]
  /\ objects' = IF deleted THEN [objects EXCEPT ![h] = "absent"] ELSE objects
  /\ orphans' = [orphans EXCEPT ![d] = @ \ {h}]
  /\ UNCHANGED <<deletionFrame, rowVars, dpc, bulk, todo, hashes, dels>>

GarbageCollected(d) ==
  /\ dpc[d] = "gc"
  /\ orphans[d] = {}
  /\ Stop(d)
  /\ UNCHANGED <<deletionFrame, rowVars, objects>>

(* Wrong StopEarly: the blocks a transaction orphaned are collected although *)
(* it is rolled back.                                                       *)
StopEarlyCollecting(d) ==
  /\ dpc[d] \notin {"idle", "gc"}
  /\ dpc' = [dpc EXCEPT ![d] = "gc"]
  /\ bulk' = [bulk EXCEPT ![d] = FALSE]
  /\ todo' = [todo EXCEPT ![d] = <<>>]
  /\ hashes' = [hashes EXCEPT ![d] = {}]
  /\ dels' = [dels EXCEPT ![d] = {}]
  /\ UNCHANGED <<deletionFrame, rowVars, objects, orphans>>

(* A statement fails or the client goes away.  A transaction is rolled      *)
(* back; what PermanentDelete has deleted stays deleted, without a GC.      *)
StopEarly(d) ==
  /\ dpc[d] \notin {"idle", "gc"}
  /\ Stop(d)
  /\ UNCHANGED <<deletionFrame, rowVars, objects>>

(* The API process dies.                                                    *)
StopDeleters ==
  /\ dpc' = [d \in Deleter |-> "idle"]
  /\ bulk' = [d \in Deleter |-> FALSE]
  /\ todo' = [d \in Deleter |-> <<>>]
  /\ hashes' = [d \in Deleter |-> {}]
  /\ dels' = [d \in Deleter |-> {}]
  /\ orphans' = [d \in Deleter |-> {}]

Delete(d) ==
  \/ \E i \in Item : PermanentDelete(d, i)
  \/ \E ids \in BulkLists : BulkHardDelete(d, ids)
  \/ Lookup(d)
  \/ LookupFails(d)
  \/ CollectSubtreeHashes(d)
  \/ DeleteSubtree(d)
  \/ FindOrphanedHashes(d)
  \/ CommitBulk(d)
  \/ \E h \in Hash, deleted \in BOOLEAN : GarbageCollectBlock(d, h, deleted)
  \/ GarbageCollected(d)
  \/ StopEarly(d)
=============================================================================
