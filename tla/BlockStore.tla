----------------------------- MODULE BlockStore -----------------------------
(***************************************************************************)
(* Blocks shared by uploads, permanent deletions and the orphan collector:  *)
(* the three work on the same tables and the same object store, and none of *)
(* them knows of the others.                                                *)
(***************************************************************************)
EXTENDS FileDeletion, Collector

VARIABLES
  exposed,       \* history: blocks a file was committed without, or that
                 \* somebody had already decided to delete by then
  collected      \* history: blocks whose object was removed, not stored since

historyVars == <<exposed, collected>>
storeVars == <<vars, deleterVars, collectorVars, historyVars>>

StoreTypeOK ==
  /\ TypeOK
  /\ DeletersTypeOK
  /\ CollectorTypeOK
  /\ exposed \in [FileId -> SUBSET Hash]
  /\ collected \subseteq Hash

StoreInit ==
  /\ Init
  /\ DeletersInit
  /\ CollectorInit
  /\ exposed = [f \in FileId |-> {}]
  /\ collected = {}

-----------------------------------------------------------------------------
(* Somebody has decided to delete the object of h and will not look again.  *)
Condemned(h) ==
  \/ \E d \in Deleter : h \in orphans[d]
  \/ phase = "sweep" /\ h \in keys

Lost(h) == objects[h] = "absent" \/ Condemned(h)

(* Keeps the history variable up to date for the files a step commits.      *)
Expose ==
  exposed' = [f \in FileId |-> IF f \in files' \ files
                               THEN {h \in Range(fileBlocks'[f]) : Lost(h)}
                               ELSE exposed[f]]

(* ... and for the objects it removes or stores again.                      *)
RememberCollected == collected' = (collected \cup Stored) \ Stored'

(* Wrong ParentUnlocked: no foreign key makes the INSERT wait.              *)
ParentNotChecked(r) == TRUE

(* INSERT INTO files waits for a transaction that has deleted the parent.   *)
ParentUnlocked(r) ==
  pc[r] = "commit" => \A d \in Deleter : parent[sess[r]] \notin dels[d]

Upload ==
  /\ \/ \E s \in Session : Client(s)
     \/ \E r \in Request : \/ \E s \in Session : Begin(r, s)
                           \/ Proceed(r) /\ ParentUnlocked(r)
                           \/ Abort(r)
  /\ Expose
  /\ RememberCollected
  /\ UNCHANGED <<deleterVars, collectorVars>>

Deletion ==
  /\ \E d \in Deleter : Delete(d)
  /\ RememberCollected
  /\ UNCHANGED <<collectorVars, exposed>>

Collection ==
  /\ Collect
  /\ RememberCollected
  /\ UNCHANGED <<deleterVars, exposed>>

(* The API process dies, with its requests and its background goroutines.   *)
ServerCrash ==
  /\ StopRequests
  /\ StopDeleters
  /\ UNCHANGED <<collectorVars, historyVars>>

(* The API process by itself, and together with nightly sweeps.             *)
OnlineNext == Upload \/ Deletion \/ ServerCrash
StoreNext == OnlineNext \/ Collection

OnlineSpec == StoreInit /\ [][OnlineNext]_storeVars
StoreSpec == StoreInit /\ [][StoreNext]_storeVars

-----------------------------------------------------------------------------
(* A block of a file can only be lost by the one race the code leaves open: *)
(* it was already gone, or already condemned by a deletion or a sweep, when *)
(* the file's Complete committed.  What is committed while nobody is after  *)
(* its blocks can be read until it is deleted.                              *)
LossOnlyFromRace ==
  \A f \in files : \A h \in Range(fileBlocks[f]) :
    objects[h] = "absent" => h \in exposed[f]

(* Why: a block that was not lost at the commit is stored, no deleter is    *)
(* after it except one that will delete the file with it, and the running   *)
(* sweep is not after it either.                                            *)
UnexposedBlocksAreSafe ==
  \A f \in files : \A h \in Range(fileBlocks[f]) \ exposed[f] :
    /\ objects[h] # "absent"
    /\ \A d \in Deleter : h \in orphans[d] => f \in dels[d]
    /\ phase = "sweep" => h \notin keys

(* The object of a block a file uses is safe from deleters and collector:   *)
(* findOrphanedHashes returns only what "is safe to delete".                *)
UsedBlocksStay ==
  \A f \in files : \A h \in Range(fileBlocks[f]) : objects[h] # "absent"

(* Initiate and GetSession give no upload URL for a block that has a row in  *)
(* blocks, and so a session can get stuck: the row outlives the object.     *)
(* That a block was collected is all that can come between, though: nobody  *)
(* is sent to a block that was never there, not by a session that only      *)
(* declared it, a Complete that failed or rolled back, or a crash.          *)
StuckOnlyByCollection ==
  \A s \in Session : status[s] = "INITIATED" =>
    \A h \in Range(manifest[s]) \ Pending(s) : objects[h] = "absent" => h \in collected

(* No file of a folder outlives it, although a folder goes with the files a *)
(* transaction has seen in it, and Completes put more into it meanwhile.    *)
NoOrphanFiles == \A f \in files : fileParent[f] \in folders \cup {Root}

(* Why: what a transaction has deleted includes the files of the folders it *)
(* has deleted, until it commits.                                           *)
DeletionsClosed ==
  \A d \in Deleter : \A f \in files : fileParent[f] \in dels[d] \cap folders => f \in dels[d]

(* Together, uploads, deletions and sweeps still implement the abstract      *)
(* catalog as far as it lists the files that were committed while nobody    *)
(* was after their blocks: those appear complete, lose no block, and go as   *)
(* a whole; an object is only removed when none of them uses it.            *)
SafeFiles == {f \in files : exposed[f] = {}}

SafeCatalog == INSTANCE BlobCatalog WITH
                 ChunkList <- Manifests,
                 stored <- Stored,
                 catalog <- [f \in SafeFiles |-> fileBlocks[f]]

ImplementsSafeCatalog == SafeCatalog!Spec
=============================================================================
