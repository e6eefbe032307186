-------------------------- MODULE BlockStore_proofs --------------------------
(***************************************************************************)
(* Theorems about BlockStore for every value of its constants.              *)
(***************************************************************************)
EXTENDS BlockStore, UploadService_proofs

-----------------------------------------------------------------------------
(* Type correctness and the blocks table.  The steps of the upload pipeline *)
(* are those of UploadService.                                              *)

CatalogInv == RowsInv /\ files \subseteq 1 .. nfiles

LEMMA InitStore == StoreInit => StoreTypeOK /\ CatalogInv
<1> SUFFICES ASSUME StoreInit PROVE StoreTypeOK /\ CatalogInv
  OBVIOUS
<1>1. TypeOK /\ RowsInv
  BY InitTyped, InitRows DEF StoreInit
<1>2. DeletersTypeOK
  BY DEF StoreInit, DeletersInit, DeletersTypeOK, DeletersWellFormed, Item
<1>3. CollectorTypeOK
  BY DEF StoreInit, CollectorInit, CollectorTypeOK
<1>4. exposed \in [FileId -> SUBSET Hash] /\ collected \subseteq Hash
  BY DEF StoreInit
<1>5. files \subseteq 1 .. nfiles
  BY DEF StoreInit, Init, NothingStored
<1> QED
  BY <1>1, <1>2, <1>3, <1>4, <1>5 DEF StoreTypeOK, CatalogInv

LEMMA CollectedTyped ==
  ASSUME collected \subseteq Hash, RememberCollected
  PROVE  collected' \subseteq Hash
BY DEF RememberCollected, Stored

LEMMA UploadIsNext ==
  ASSUME Upload
  PROVE  Next
BY DEF Upload, Next

(* File ids are given out once.                                             *)
LEMMA UploadNumbersFiles ==
  ASSUME CatalogInv, Upload
  PROVE  files' \subseteq 1 .. nfiles'
<1>1. ASSUME NEW r \in Request, Commit(r)
      PROVE  files' \subseteq 1 .. nfiles'
  BY <1>1 DEF Commit, CatalogInv, RowsInv, TypeOK
<1>2. UNCHANGED catalogVars \/ \E r \in Request : Commit(r)
  BY DEF Upload, Client, Initiate, GetSession, ExpireURLs, PutObject, Begin, Proceed,
         VerifyBlock, VerifyFails, GetOrCreate, GetOrCreateBlocks, GetOrCreateWakes,
         GetOrCreateFindsNoRows, NoRowsFails, DeadlockVictim, ParentGone,
         PublishJob, Abort, Rollback
<1> QED
  BY <1>1, <1>2 DEF CatalogInv, catalogVars

LEMMA UploadStore ==
  ASSUME StoreTypeOK, CatalogInv, Upload
  PROVE  StoreTypeOK' /\ CatalogInv'
<1>1. TypeOK' /\ RowsInv'
  BY UploadIsNext, NextTyped, NextRows DEF StoreTypeOK, CatalogInv
<1>2. DeletersTypeOK' /\ CollectorTypeOK'
  BY DEF Upload, StoreTypeOK, DeletersTypeOK, DeletersWellFormed, CollectorTypeOK,
         deleterVars, collectorVars
<1>3. exposed' \in [FileId -> SUBSET Hash]
  <2>1. \A f \in FileId : f \in files' => Range(fileBlocks'[f]) \subseteq Hash
    <3> SUFFICES ASSUME NEW f \in FileId PROVE Range(fileBlocks'[f]) \subseteq Hash
      OBVIOUS
    <3>1. CASE fileBlocks'[f] \in Manifests
      BY <3>1, ChunkListRange
    <3>2. CASE fileBlocks'[f] = <<>>
      BY <3>2 DEF Range
    <3> QED
      BY <1>1, <3>1, <3>2 DEF TypeOK
  <2> QED
    BY <2>1 DEF Upload, Expose, StoreTypeOK
<1>4. collected' \subseteq Hash
  BY CollectedTyped DEF Upload, StoreTypeOK
<1> QED
  BY <1>1, <1>2, <1>3, <1>4, UploadNumbersFiles DEF StoreTypeOK, CatalogInv

(* What a step of the deleters or the collector changes of the upload       *)
(* pipeline's state keeps its invariants: files go with their links, blocks *)
(* rows stay, objects come and go as they like.                             *)
LEMMA CatalogShrinks ==
  ASSUME CatalogInv,
         NEW gone,
         files' = files \ gone /\ folders' = folders \ gone,
         fileBlocks' = [f \in FileId |-> IF f \in gone THEN <<>> ELSE fileBlocks[f]]
           \/ fileBlocks' = fileBlocks,
         objects' \in [Hash -> Content],
         UNCHANGED deletionFrame
  PROVE  CatalogInv' /\ TypeOK'
<1> USE DEF CatalogInv, RowsInv, deletionFrame, sessionVars, requestVars
<1>1. fileBlocks' \in [FileId -> Manifests \cup {<<>>}]
      /\ files' \subseteq files /\ folders' \subseteq folders
  BY DEF TypeOK
<1>2. WellFormed'
  BY DEF TypeOK, WellFormed, InTx, Chunks
<1>3. TypeOK'
  BY <1>1, <1>2 DEF TypeOK
<1>4. OneRowPerHash' /\ UpsertedRowsExist'
  BY DEF OneRowPerHash, UpsertedRowsExist, Before, Chunks
<1>5. \A f \in files' : f \in files /\ fileBlocks'[f] = fileBlocks[f]
  BY DEF TypeOK
<1>6. LinkedRowsExist'
  BY <1>5 DEF LinkedRowsExist
<1> QED
  BY <1>3, <1>4, <1>6

LEMMA CatalogStays ==
  ASSUME CatalogInv, objects' \in [Hash -> Content], UNCHANGED <<deletionFrame, rowVars>>
  PROVE  CatalogInv' /\ TypeOK'
<1>1. /\ files' = files \ {} /\ folders' = folders \ {} /\ fileBlocks' = fileBlocks
      /\ UNCHANGED deletionFrame
  BY DEF rowVars
<1> QED
  BY <1>1, CatalogShrinks

LEMMA DeletionTyped ==
  ASSUME StoreTypeOK, CatalogInv, Deletion
  PROVE  StoreTypeOK' /\ CatalogInv'
<1> USE DEF StoreTypeOK
<1>1. PICK d \in Deleter : Delete(d)
  BY DEF Deletion
<1>2. CatalogInv' /\ TypeOK'
  <2>1. CASE UNCHANGED <<deletionFrame, rowVars, objects>>
    BY <2>1, CatalogStays DEF TypeOK
  <2>2. CASE DeleteSubtree(d) /\ ~bulk[d]
    BY <2>2, CatalogShrinks DEF DeleteSubtree, RemoveRows, TypeOK
  <2>3. CASE DeleteSubtree(d) /\ bulk[d]
    BY <2>3, CatalogStays DEF DeleteSubtree, TypeOK
  <2>4. CASE CommitBulk(d)
    BY <2>4, CatalogShrinks DEF CommitBulk, RemoveRows, TypeOK
  <2>5. ASSUME NEW h \in Hash, NEW deleted \in BOOLEAN, GarbageCollectBlock(d, h, deleted)
        PROVE  CatalogInv' /\ TypeOK'
    <3>1. objects' \in [Hash -> Content]
      BY <2>5 DEF GarbageCollectBlock, TypeOK, Content
    <3> QED
      BY <2>5, <3>1, CatalogStays DEF GarbageCollectBlock
  <2> QED
    BY <1>1, <2>1, <2>2, <2>3, <2>4, <2>5
       DEF Delete, PermanentDelete, BulkHardDelete, Lookup, LookupFails,
           CollectSubtreeHashes, FindOrphanedHashes, GarbageCollected, StopEarly
<1>3. \A e \in Deleter \ {d} :
        /\ dpc'[e] = dpc[e] /\ bulk'[e] = bulk[e] /\ todo'[e] = todo[e]
        /\ hashes'[e] = hashes[e] /\ dels'[e] = dels[e] /\ orphans'[e] = orphans[e]
  BY <1>1 DEF Delete, PermanentDelete, BulkHardDelete, Lookup, LookupFails,
              CollectSubtreeHashes, DeleteSubtree, FindOrphanedHashes, CommitBulk,
              GarbageCollectBlock, GarbageCollected, StopEarly, Stop, DeletersTypeOK
<1>4. DeletersTypeOK'
  <2> USE DEF DeletersTypeOK
  <2>1. CASE LookupFails(d) \/ GarbageCollected(d) \/ StopEarly(d)
    <3>1. Stop(d)
      BY <2>1 DEF LookupFails, GarbageCollected, StopEarly
    <3>2. /\ dpc' \in [Deleter -> {"idle", "lookup", "collect", "delete", "orphans",
                                    "commit", "gc"}]
          /\ bulk' \in [Deleter -> BOOLEAN]
          /\ todo' \in [Deleter -> Seq(Item)]
          /\ hashes' \in [Deleter -> SUBSET Hash]
          /\ dels' \in [Deleter -> SUBSET Item]
          /\ orphans' \in [Deleter -> SUBSET Hash]
      BY <3>1 DEF Stop
    <3>3. dpc'[d] = "idle" /\ dels'[d] = {}
      BY <3>1 DEF Stop
    <3> QED
      BY <1>3, <3>2, <3>3 DEF DeletersWellFormed
  <2>2. ASSUME NEW i \in Item, PermanentDelete(d, i)
        PROVE  DeletersTypeOK'
    <3>1. todo' \in [Deleter -> Seq(Item)] /\ todo'[d] # <<>>
      BY <2>2 DEF PermanentDelete
    <3> QED
      BY <1>3, <2>2, <3>1 DEF PermanentDelete, DeletersWellFormed
  <2>3. ASSUME NEW ids \in BulkLists, BulkHardDelete(d, ids)
        PROVE  DeletersTypeOK'
    BY <1>3, <2>3, BulkListsAssumption DEF BulkHardDelete, DeletersWellFormed
  <2>4. CASE Lookup(d)
    BY <1>3, <2>4 DEF Lookup, DeletersWellFormed
  <2>5. CASE CollectSubtreeHashes(d)
    <3> DEFINE found == UNION {Range(fileBlocks[f]) : f \in Subtree(d) \cap files}
    <3>1. \A f \in files : Range(fileBlocks[f]) \subseteq Hash
      BY DEF CatalogInv, RowsInv, LinkedRowsExist, TypeOK
    <3>2. found \subseteq Hash
      BY <3>1
    <3>3. hashes' \in [Deleter -> SUBSET Hash]
      BY <2>5, <3>2 DEF CollectSubtreeHashes
    <3> QED
      BY <1>3, <2>5, <3>3 DEF CollectSubtreeHashes, DeletersWellFormed
  <2>6. CASE DeleteSubtree(d)
    <3>1. Subtree(d) \subseteq Item
      BY DEF Subtree, Rows, Item, TypeOK
    <3>2. CASE bulk[d]
      <4>1. /\ dels' = [dels EXCEPT ![d] = @ \cup Subtree(d)]
            /\ dpc' = [dpc EXCEPT ![d] = "orphans"]
            /\ UNCHANGED <<bulk, todo, hashes, orphans>>
            /\ todo[d] # <<>>
        BY <2>6, <3>2 DEF DeleteSubtree, DeletersWellFormed
      <4>2. dels' \in [Deleter -> SUBSET Item]
        BY <3>1, <4>1
      <4>3. DeletersWellFormed'
        BY <1>3, <3>2, <4>1 DEF DeletersWellFormed
      <4> QED
        BY <4>1, <4>2, <4>3
    <3>3. CASE ~bulk[d]
      BY <1>3, <2>6, <3>3 DEF DeleteSubtree, DeletersWellFormed
    <3> QED
      BY <3>2, <3>3
  <2>7. CASE FindOrphanedHashes(d)
    <3>1. todo[d] \in Seq(Item) /\ todo[d] # <<>>
      BY <2>7 DEF FindOrphanedHashes, DeletersWellFormed
    <3>2. Tail(todo[d]) \in Seq(Item)
      BY <3>1
    <3>3. todo' \in [Deleter -> Seq(Item)]
      BY <2>7, <3>2 DEF FindOrphanedHashes
    <3>4. orphans' \in [Deleter -> SUBSET Hash] /\ hashes' \in [Deleter -> SUBSET Hash]
      BY <2>7 DEF FindOrphanedHashes, Orphaned
    <3>5. /\ dpc' \in [Deleter -> {"idle", "lookup", "collect", "delete", "orphans",
                                    "commit", "gc"}]
          /\ dpc'[d] \in {"lookup", "commit", "gc"}
          /\ dpc'[d] = "lookup" => todo'[d] # <<>>
          /\ dpc'[d] = "commit" => todo'[d] = <<>>
          /\ bulk[d] => dpc'[d] # "gc"
      BY <2>7 DEF FindOrphanedHashes
    <3> QED
      BY <1>3, <2>7, <3>3, <3>4, <3>5 DEF FindOrphanedHashes, DeletersWellFormed
  <2>8. CASE CommitBulk(d)
    BY <1>3, <2>8 DEF CommitBulk, DeletersWellFormed
  <2>9. ASSUME NEW h \in Hash, NEW deleted \in BOOLEAN, GarbageCollectBlock(d, h, deleted)
        PROVE  DeletersTypeOK'
    BY <1>3, <2>9 DEF GarbageCollectBlock, DeletersWellFormed
  <2> QED
    BY <1>1, <2>1, <2>2, <2>3, <2>4, <2>5, <2>6, <2>7, <2>8, <2>9 DEF Delete
<1>5. CollectorTypeOK' /\ exposed' \in [FileId -> SUBSET Hash] /\ collected' \subseteq Hash
  BY CollectedTyped DEF Deletion, CollectorTypeOK, collectorVars
<1> QED
  BY <1>2, <1>4, <1>5

LEMMA CollectionTyped ==
  ASSUME StoreTypeOK, CatalogInv, Collection
  PROVE  StoreTypeOK' /\ CatalogInv'
<1> USE DEF StoreTypeOK
<1>1. /\ objects' \in [Hash -> Content]
      /\ CollectorTypeOK'
      /\ UNCHANGED uploadVars
  BY DEF Collection, Collect, ListKeys, LoadHashes, Sweep, EndSweep, TypeOK, Content,
         CollectorTypeOK, Stored
<1>2. CatalogInv' /\ TypeOK'
  BY <1>1, CatalogStays DEF uploadVars, deletionFrame, rowVars, catalogVars
<1>3. DeletersTypeOK' /\ exposed' \in [FileId -> SUBSET Hash]
  BY DEF Collection, DeletersTypeOK, DeletersWellFormed, deleterVars
<1>4. collected' \subseteq Hash
  BY CollectedTyped DEF Collection
<1> QED
  BY <1>1, <1>2, <1>3, <1>4

LEMMA CrashStore ==
  ASSUME StoreTypeOK, CatalogInv, ServerCrash
  PROVE  StoreTypeOK' /\ CatalogInv'
<1> USE DEF StoreTypeOK, ServerCrash
<1>1. TypeOK'
  BY CrashTyped
<1>2. OneRowPerHash' /\ UpsertedRowsExist' /\ LinkedRowsExist' /\ files' \subseteq 1 .. nfiles'
  BY DEF StopRequests, CatalogInv, RowsInv, OneRowPerHash, UpsertedRowsExist, LinkedRowsExist,
         sessionVars, catalogVars
<1>3. DeletersTypeOK'
  BY DEF StopDeleters, DeletersTypeOK, DeletersWellFormed
<1>4. CollectorTypeOK' /\ exposed' \in [FileId -> SUBSET Hash] /\ collected' \subseteq Hash
  BY DEF CollectorTypeOK, collectorVars, historyVars
<1> QED
  BY <1>1, <1>2, <1>3, <1>4 DEF CatalogInv, RowsInv

-----------------------------------------------------------------------------
(* Blocks of committed files.                                               *)

StoreInv == StoreTypeOK /\ CatalogInv /\ UnexposedBlocksAreSafe

(* Uploads only add objects, and they decide to delete none: the blocks of   *)
(* the older files stay safe, and what a new file lacks is in exposed.       *)
LEMMA UploadSafe ==
  ASSUME StoreInv, Upload
  PROVE  UnexposedBlocksAreSafe'
<1> USE DEF StoreInv, StoreTypeOK
<1>1. UNCHANGED <<dpc, bulk, todo, hashes, dels, orphans, phase, keys>>
  BY DEF Upload, deleterVars, collectorVars
<1>2. \A h \in Hash : objects[h] # "absent" => objects'[h] # "absent"
  <2>1. Stored \subseteq Stored'
    BY UploadIsNext, StoredGrows
  <2> QED
    BY <2>1 DEF Stored
<1>3. \/ UNCHANGED <<files, fileBlocks>>
      \/ \E r \in Request : Commit(r)
  BY DEF Upload, Client, Initiate, GetSession, ExpireURLs, PutObject, Begin, Proceed,
         VerifyBlock, VerifyFails, GetOrCreate, GetOrCreateBlocks, GetOrCreateWakes,
         GetOrCreateFindsNoRows, NoRowsFails, DeadlockVictim, ParentGone,
         PublishJob, Abort, Rollback, catalogVars
<1>4. ASSUME NEW f \in files'
      PROVE  \/ f \in files /\ fileBlocks'[f] = fileBlocks[f] /\ exposed'[f] = exposed[f]
             \/ exposed'[f] = {h \in Range(fileBlocks'[f]) : Lost(h)} /\ objects' = objects
  <2>1. CASE UNCHANGED <<files, fileBlocks>>
    BY <2>1 DEF Upload, Expose, TypeOK
  <2>2. ASSUME NEW r \in Request, Commit(r)
        PROVE  \/ f \in files /\ fileBlocks'[f] = fileBlocks[f] /\ exposed'[f] = exposed[f]
               \/ exposed'[f] = {h \in Range(fileBlocks'[f]) : Lost(h)} /\ objects' = objects
    <3>1. nfiles + 1 \in FileId /\ nfiles + 1 \notin files
      BY <2>2, MaxFilesAssumption DEF Commit, CatalogInv, TypeOK, FileId
    <3>2. /\ files' = files \cup {nfiles + 1}
          /\ fileBlocks' = [fileBlocks EXCEPT ![nfiles + 1] = Chunks(r)]
          /\ objects' = objects
      BY <2>2 DEF Commit
    <3>3. exposed' = [g \in FileId |-> IF g \in files' \ files
                                       THEN {h \in Range(fileBlocks'[g]) : Lost(h)}
                                       ELSE exposed[g]]
      BY DEF Upload, Expose
    <3> QED
      BY <3>1, <3>2, <3>3 DEF TypeOK
  <2> QED
    BY <1>3, <2>1, <2>2
<1>5. \A f \in files' : Range(fileBlocks'[f]) \subseteq Hash
  BY UploadStore DEF CatalogInv, RowsInv, LinkedRowsExist, TypeOK
<1> QED
  BY <1>1, <1>2, <1>4, <1>5 DEF UnexposedBlocksAreSafe, Lost, Condemned

LEMMA DeletionSafe ==
  ASSUME StoreInv, Deletion
  PROVE  UnexposedBlocksAreSafe'
<1> USE DEF StoreInv, StoreTypeOK
<1>1. PICK d \in Deleter : Delete(d)
  BY DEF Deletion
<1>2. UNCHANGED <<phase, keys, exposed>>
  BY DEF Deletion, collectorVars
<1>3. \A e \in Deleter \ {d} : dels'[e] = dels[e] /\ orphans'[e] = orphans[e]
  BY <1>1 DEF Delete, PermanentDelete, BulkHardDelete, Lookup, LookupFails,
              CollectSubtreeHashes, DeleteSubtree, FindOrphanedHashes, CommitBulk,
              GarbageCollectBlock, GarbageCollected, StopEarly, Stop, DeletersTypeOK
<1>4. ASSUME UNCHANGED <<files, fileBlocks, objects>>,
             \/ orphans'[d] = {}
             \/ orphans'[d] = orphans[d] /\ dels[d] \subseteq dels'[d]
      PROVE  UnexposedBlocksAreSafe'
  BY <1>2, <1>3, <1>4 DEF UnexposedBlocksAreSafe
<1>5. CASE \/ LookupFails(d) \/ GarbageCollected(d) \/ StopEarly(d)
           \/ (\E i \in Item : PermanentDelete(d, i))
           \/ (\E ids \in BulkLists : BulkHardDelete(d, ids))
           \/ Lookup(d) \/ CollectSubtreeHashes(d)
  BY <1>4, <1>5 DEF LookupFails, GarbageCollected, StopEarly, Stop, PermanentDelete,
                    BulkHardDelete, Lookup, CollectSubtreeHashes, rowVars, DeletersTypeOK
<1>6. CASE DeleteSubtree(d)
  <2>1. CASE bulk[d]
    BY <1>4, <1>6, <2>1 DEF DeleteSubtree, rowVars, DeletersTypeOK
  <2>2. CASE ~bulk[d]
    <3>1. UNCHANGED <<orphans, dels, objects>>
      BY <1>6, <2>2 DEF DeleteSubtree
    <3>2. \A f \in files' : f \in files /\ fileBlocks'[f] = fileBlocks[f]
      BY <1>6, <2>2 DEF DeleteSubtree, RemoveRows, TypeOK
    <3> QED
      BY <1>2, <3>1, <3>2 DEF UnexposedBlocksAreSafe
  <2> QED
    BY <2>1, <2>2
<1>7. CASE FindOrphanedHashes(d)
  <2>1. UNCHANGED <<files, fileBlocks, objects, dels>>
        /\ orphans'[d] = orphans[d] \cup Orphaned(d)
    BY <1>7 DEF FindOrphanedHashes, rowVars, DeletersTypeOK
  <2>2. \A f \in files : \A h \in Range(fileBlocks[f]) : h \in Orphaned(d) => f \in dels[d]
    BY DEF Orphaned, Rows
  <2> QED
    BY <1>2, <1>3, <2>1, <2>2 DEF UnexposedBlocksAreSafe
<1>8. CASE CommitBulk(d)
  <2>1. UNCHANGED <<orphans, objects>>
    BY <1>8 DEF CommitBulk
  <2>2. \A f \in files' : f \in files /\ f \notin dels[d] /\ fileBlocks'[f] = fileBlocks[f]
    BY <1>8 DEF CommitBulk, RemoveRows, TypeOK
  <2> QED
    BY <1>2, <1>3, <2>1, <2>2 DEF UnexposedBlocksAreSafe
<1>9. ASSUME NEW h \in Hash, NEW deleted \in BOOLEAN, GarbageCollectBlock(d, h, deleted)
      PROVE  UnexposedBlocksAreSafe'
  <2>1. dels[d] = {} /\ h \in orphans[d] /\ orphans'[d] \subseteq orphans[d]
        /\ UNCHANGED <<files, fileBlocks, dels>>
    BY <1>9 DEF GarbageCollectBlock, rowVars, DeletersTypeOK, DeletersWellFormed
  <2>2. \A f \in files : h \notin Range(fileBlocks[f]) \ exposed[f]
    BY <2>1 DEF UnexposedBlocksAreSafe
  <2>3. \A g \in Hash \ {h} : objects'[g] = objects[g]
    BY <1>9 DEF GarbageCollectBlock, TypeOK
  <2>4. \A f \in files : Range(fileBlocks[f]) \subseteq Hash
    BY DEF CatalogInv, RowsInv, LinkedRowsExist, TypeOK
  <2> QED
    BY <1>2, <1>3, <2>1, <2>2, <2>3, <2>4 DEF UnexposedBlocksAreSafe
<1> QED
  BY <1>1, <1>5, <1>6, <1>7, <1>8, <1>9 DEF Delete

(* The keys are listed before the blocks rows are loaded, so what a file    *)
(* used when they were loaded, or uses since, is not among the orphans.     *)
LEMMA CollectionSafe ==
  ASSUME StoreInv, Collection
  PROVE  UnexposedBlocksAreSafe'
<1> USE DEF StoreInv, StoreTypeOK
<1>1. UNCHANGED <<files, fileBlocks, dels, orphans, exposed>>
  BY DEF Collection, Collect, ListKeys, LoadHashes, Sweep, EndSweep, uploadVars,
         catalogVars, deleterVars
<1>2. \A f \in files : Range(fileBlocks[f]) \subseteq blockRows /\ blockRows \subseteq Hash
  BY DEF CatalogInv, RowsInv, LinkedRowsExist, TypeOK
<1>3. CASE ListKeys \/ EndSweep
  BY <1>1, <1>3 DEF ListKeys, EndSweep, UnexposedBlocksAreSafe
<1>4. CASE LoadHashes
  BY <1>1, <1>2, <1>4 DEF LoadHashes, UnexposedBlocksAreSafe
<1>5. ASSUME NEW h \in Hash, NEW deleted \in BOOLEAN, Sweep(h, deleted)
      PROVE  UnexposedBlocksAreSafe'
  <2>1. phase = "sweep" /\ h \in keys /\ keys' \subseteq keys /\ phase' = phase
    BY <1>5 DEF Sweep
  <2>2. \A f \in files : h \notin Range(fileBlocks[f]) \ exposed[f]
    BY <2>1 DEF UnexposedBlocksAreSafe
  <2>3. \A g \in Hash \ {h} : objects'[g] = objects[g]
    BY <1>5 DEF Sweep, TypeOK
  <2> QED
    BY <1>1, <1>2, <2>1, <2>2, <2>3 DEF UnexposedBlocksAreSafe
<1> QED
  BY <1>3, <1>4, <1>5 DEF Collection, Collect

LEMMA NextStore ==
  ASSUME StoreInv, [StoreNext]_storeVars
  PROVE  StoreInv'
<1> USE DEF StoreInv
<1>1. CASE Upload
  BY <1>1, UploadStore, UploadSafe
<1>2. CASE Deletion
  BY <1>2, DeletionTyped, DeletionSafe
<1>3. CASE Collection
  BY <1>3, CollectionTyped, CollectionSafe
<1>4. CASE ServerCrash
  <2>1. UnexposedBlocksAreSafe'
    BY <1>4 DEF ServerCrash, StopRequests, StopDeleters, UnexposedBlocksAreSafe,
                catalogVars, collectorVars, historyVars
  <2> QED
    BY <1>4, <2>1, CrashStore
<1>5. CASE UNCHANGED storeVars
  <2>1. UNCHANGED vars
    BY <1>5 DEF storeVars
  <2>2. RowsInv' /\ TypeOK'
    BY <2>1, NextRows, NextTyped DEF CatalogInv, StoreTypeOK
  <2>3. /\ DeletersTypeOK' /\ CollectorTypeOK'
        /\ exposed' \in [FileId -> SUBSET Hash] /\ collected' \subseteq Hash
    BY <1>5 DEF storeVars, deleterVars, collectorVars, historyVars, StoreTypeOK, DeletersTypeOK,
                DeletersWellFormed, CollectorTypeOK
  <2>4. UnexposedBlocksAreSafe' /\ files' \subseteq 1 .. nfiles'
    BY <1>5 DEF storeVars, vars, catalogVars, deleterVars, collectorVars, historyVars, CatalogInv,
                UnexposedBlocksAreSafe
  <2> QED
    BY <2>2, <2>3, <2>4 DEF StoreTypeOK, CatalogInv
<1> QED
  BY <1>1, <1>2, <1>3, <1>4, <1>5 DEF StoreNext, OnlineNext

(* The type invariant of the composed system.                               *)
THEOREM StoreTypeCorrect == StoreSpec => []StoreTypeOK
<1>1. StoreInit => StoreInv
  BY InitStore DEF StoreInv, UnexposedBlocksAreSafe, StoreInit, Init, NothingStored
<1>2. StoreInv => StoreTypeOK
  BY DEF StoreInv
<1> QED
  BY <1>1, <1>2, NextStore, PTL DEF StoreSpec

(* The guarantee deletions and sweeps do give: a block of a file that was   *)
(* stored and wanted by nobody when the file was committed stays stored for *)
(* as long as the file exists, whatever else is uploaded, deleted, swept,   *)
(* rolled back or crashes meanwhile.                                        *)
THEOREM LossOnlyFromRaceCorrect == StoreSpec => []LossOnlyFromRace
<1>1. StoreInit => StoreInv
  BY InitStore DEF StoreInv, UnexposedBlocksAreSafe, StoreInit, Init, NothingStored
<1>2. StoreInv => LossOnlyFromRace
  BY DEF StoreInv, UnexposedBlocksAreSafe, LossOnlyFromRace
<1> QED
  BY <1>1, <1>2, NextStore, PTL DEF StoreSpec

-----------------------------------------------------------------------------
(* The rows of a folder.                                                    *)

RowsTreeInv == StoreTypeOK /\ CatalogInv /\ NoOrphanFiles /\ DeletionsClosed

(* Whatever else a step does: files that stay in folders that stay are in   *)
(* order as long as no transaction takes back or extends its deletions.     *)
LEMMA TreeShrinks ==
  ASSUME RowsTreeInv,
         files' \subseteq files, folders' = folders, UNCHANGED fileParent,
         \A d \in Deleter : dels'[d] = {} \/ dels'[d] = dels[d]
  PROVE  NoOrphanFiles' /\ DeletionsClosed'
BY DEF RowsTreeInv, NoOrphanFiles, DeletionsClosed

LEMMA UploadTree ==
  ASSUME RowsTreeInv, Upload
  PROVE  NoOrphanFiles' /\ DeletionsClosed'
<1> USE DEF RowsTreeInv, StoreTypeOK
<1>1. UNCHANGED dels
  BY DEF Upload, deleterVars
<1>2. ASSUME NEW r \in Request, Commit(r), ParentUnlocked(r)
      PROVE  NoOrphanFiles' /\ DeletionsClosed'
  <2> DEFINE new == nfiles + 1
             p == parent[sess[r]]
  <2>1. p \in folders \cup {Root} /\ \A d \in Deleter : p \notin dels[d]
    BY <1>2 DEF Commit, ParentUnlocked
  <2>2. new \in FileId
    BY <1>2, MaxFilesAssumption DEF Commit, TypeOK, FileId
  <2>3. files' = files \cup {new} /\ folders' = folders
        /\ fileParent' = [fileParent EXCEPT ![new] = p]
    BY <1>2 DEF Commit
  <2>4. \A f \in files' : \/ fileParent'[f] = p
                          \/ f \in files /\ fileParent'[f] = fileParent[f]
    <3> HIDE DEF new, p
    <3> QED
      BY <2>2, <2>3 DEF TypeOK
  <2> HIDE DEF new, p
  <2> QED
    BY <1>1, <2>1, <2>3, <2>4 DEF NoOrphanFiles, DeletionsClosed
<1>3. \/ UNCHANGED <<files, folders, fileParent>>
      \/ \E r \in Request : Commit(r) /\ ParentUnlocked(r)
  BY DEF Upload, Client, Initiate, GetSession, ExpireURLs, PutObject, Begin, Proceed,
         VerifyBlock, VerifyFails, GetOrCreate, GetOrCreateBlocks, GetOrCreateWakes,
         GetOrCreateFindsNoRows, NoRowsFails, DeadlockVictim, ParentGone,
         PublishJob, Abort, Rollback, catalogVars
<1> QED
  BY <1>1, <1>2, <1>3, TreeShrinks

(* The subtree of a folder holds the folder's files, but for those the same *)
(* transaction has deleted already, and no other folder.                    *)
LEMMA SubtreeWhole ==
  ASSUME RowsTreeInv, NEW d \in Deleter,
         NEW f \in files, fileParent[f] \in Subtree(d) \cap folders
  PROVE  f \in Subtree(d) \cup dels[d]
<1>1. fileParent[f] = Head(todo[d]) /\ Head(todo[d]) \in Folder
  BY ItemAssumption DEF Subtree, Rows, RowsTreeInv, StoreTypeOK, TypeOK
<1> QED
  BY <1>1 DEF Subtree, Rows

(* Rows go with the files of the folders among them.                        *)
LEMMA TreeLosesRows ==
  ASSUME RowsTreeInv, NEW gone, RemoveRows(gone), UNCHANGED fileParent,
         \A f \in files : fileParent[f] \in gone \cap folders => f \in gone,
         \A d \in Deleter : dels'[d] = {} \/ dels'[d] = dels[d]
  PROVE  NoOrphanFiles' /\ DeletionsClosed'
BY DEF RowsTreeInv, RemoveRows, NoOrphanFiles, DeletionsClosed

LEMMA DeletionTree ==
  ASSUME RowsTreeInv, Deletion
  PROVE  NoOrphanFiles' /\ DeletionsClosed'
<1> USE DEF RowsTreeInv, StoreTypeOK
<1>1. PICK d \in Deleter : Delete(d)
  BY DEF Deletion
<1>2. UNCHANGED fileParent
  BY <1>1 DEF Delete, PermanentDelete, BulkHardDelete, Lookup, LookupFails,
              CollectSubtreeHashes, DeleteSubtree, FindOrphanedHashes, CommitBulk,
              GarbageCollectBlock, GarbageCollected, StopEarly, deletionFrame
<1>3. \A e \in Deleter \ {d} : dels'[e] = dels[e]
  BY <1>1 DEF Delete, PermanentDelete, BulkHardDelete, Lookup, LookupFails,
              CollectSubtreeHashes, DeleteSubtree, FindOrphanedHashes, CommitBulk,
              GarbageCollectBlock, GarbageCollected, StopEarly, Stop, DeletersTypeOK
<1>4. CASE UNCHANGED <<files, folders>> /\ dels'[d] \in {{}, dels[d]}
  BY <1>2, <1>3, <1>4, TreeShrinks
<1>5. CASE DeleteSubtree(d)
  <2>1. CASE bulk[d]
    <3>1. UNCHANGED <<files, folders>> /\ dels'[d] = dels[d] \cup Subtree(d)
      BY <1>5, <2>1 DEF DeleteSubtree, rowVars, DeletersTypeOK
    <3>2. \A f \in files : fileParent[f] \in dels'[d] \cap folders => f \in dels'[d]
      BY <3>1, SubtreeWhole DEF DeletionsClosed
    <3> QED
      BY <1>2, <1>3, <3>1, <3>2 DEF NoOrphanFiles, DeletionsClosed
  <2>2. CASE ~bulk[d]
    <3>1. RemoveRows(Subtree(d)) /\ UNCHANGED dels
      BY <1>5, <2>2 DEF DeleteSubtree
    <3>2. dels[d] = {}
      BY <2>2 DEF DeletersTypeOK, DeletersWellFormed
    <3> QED
      BY <1>2, <3>1, <3>2, SubtreeWhole, TreeLosesRows
  <2> QED
    BY <2>1, <2>2
<1>6. CASE CommitBulk(d)
  <2>1. RemoveRows(dels[d]) /\ dels'[d] = {}
    BY <1>6 DEF CommitBulk, DeletersTypeOK
  <2> QED
    BY <1>2, <1>3, <2>1, TreeLosesRows DEF DeletionsClosed
<1>7. DeleteSubtree(d) \/ CommitBulk(d)
      \/ (UNCHANGED <<files, folders>> /\ dels'[d] \in {{}, dels[d]})
  BY <1>1 DEF Delete, PermanentDelete, BulkHardDelete, Lookup, LookupFails,
              CollectSubtreeHashes, FindOrphanedHashes,
              GarbageCollectBlock, GarbageCollected, StopEarly, Stop, rowVars, DeletersTypeOK
<1> QED
  BY <1>4, <1>5, <1>6, <1>7

LEMMA NextTree ==
  ASSUME StoreInv, RowsTreeInv, [StoreNext]_storeVars
  PROVE  RowsTreeInv'
<1>1. StoreTypeOK' /\ CatalogInv'
  BY NextStore DEF StoreInv
<1>2. CASE Collection \/ ServerCrash \/ UNCHANGED storeVars
  <2>1. UNCHANGED <<files, folders, fileParent>>
    BY <1>2 DEF Collection, Collect, ListKeys, LoadHashes, Sweep, EndSweep, ServerCrash,
                StopRequests, uploadVars, catalogVars, storeVars, vars
  <2>2. \A d \in Deleter : dels'[d] = {} \/ dels'[d] = dels[d]
    BY <1>2 DEF Collection, ServerCrash, StopDeleters, storeVars, deleterVars
  <2> QED
    BY <1>1, <2>1, <2>2, TreeShrinks DEF RowsTreeInv
<1> QED
  BY <1>1, <1>2, UploadTree, DeletionTree DEF RowsTreeInv, StoreNext, OnlineNext

(* No folder disappears under a file: not when a Complete that checked the  *)
(* folder commits while transactions delete it, not when one deletes the    *)
(* file by its id before or after its folder, and not when they fail.       *)
THEOREM NoOrphanFilesCorrect == StoreSpec => []NoOrphanFiles
<1>1. StoreInit => StoreInv /\ RowsTreeInv
  BY InitStore DEF StoreInv, RowsTreeInv, UnexposedBlocksAreSafe, NoOrphanFiles,
                   DeletionsClosed, StoreInit, Init, NothingStored
<1>2. StoreInv /\ RowsTreeInv /\ [StoreNext]_storeVars => StoreInv' /\ RowsTreeInv'
  BY NextStore, NextTree
<1>3. RowsTreeInv => NoOrphanFiles
  BY DEF RowsTreeInv
<1> QED
  BY <1>1, <1>2, <1>3, PTL DEF StoreSpec

-----------------------------------------------------------------------------
(* What Initiate goes by: a blocks row is of a block that was stored.       *)

(* Blocks that are stored, or were and have been collected: the ones that   *)
(* have ever been uploaded.                                                 *)
Uploaded == Stored \cup collected

RowsUploaded ==
  /\ RowsIn(Uploaded)
  /\ \A r \in Request : Verified(r) \subseteq Uploaded

LEMMA UploadedGrows ==
  ASSUME StoreInv, [StoreNext]_storeVars
  PROVE  Uploaded \subseteq Uploaded'
<1>1. CASE Upload \/ Deletion \/ Collection
  BY <1>1 DEF Upload, Deletion, Collection, RememberCollected, Uploaded
<1>2. CASE ServerCrash \/ UNCHANGED storeVars
  BY <1>2 DEF ServerCrash, StopRequests, storeVars, historyVars, vars, Uploaded, Stored
<1> QED
  BY <1>1, <1>2 DEF StoreNext, OnlineNext

(* Deleters and the collector write no rows and start no Complete.          *)
LEMMA OthersLeaveRows ==
  ASSUME Deletion \/ Collection
  PROVE  UNCHANGED <<blockRows, inserted, flagged, manifest, pc, sess, cursor>>
<1>1. CASE Collection
  BY <1>1 DEF Collection, Collect, ListKeys, LoadHashes, Sweep, EndSweep,
              uploadVars, catalogVars, sessionVars, requestVars
<1>2. CASE Deletion
  BY <1>2 DEF Deletion, Delete, PermanentDelete, BulkHardDelete, Lookup, LookupFails,
              CollectSubtreeHashes, DeleteSubtree, FindOrphanedHashes, CommitBulk,
              GarbageCollectBlock, GarbageCollected, StopEarly,
              deletionFrame, sessionVars, requestVars
<1> QED
  BY <1>1, <1>2

LEMMA NextRowsUploaded ==
  ASSUME StoreInv, RowsUploaded, [StoreNext]_storeVars
  PROVE  RowsUploaded'
<1> USE DEF StoreInv, StoreTypeOK, RowsUploaded
<1>1. Uploaded \subseteq Uploaded'
  BY UploadedGrows
<1>2. CASE Upload \/ UNCHANGED storeVars
  <2>1. [Next]_vars
    BY <1>2, UploadIsNext DEF storeVars
  <2>2. /\ blockRows' \subseteq Uploaded
        /\ \A r \in Request : inserted'[r] \subseteq Uploaded
        /\ \A s \in Session : flagged'[s] \subseteq Uploaded
    BY <2>1, NextRowsIn DEF RowsIn
  <2>3. ASSUME NEW r \in Request, NEW h \in Verified(r)'
        PROVE  h \in Uploaded
    <3>1. h \in Verified(r) \/ (h \in Hash /\ HeadMatches(sess[r], h))
      BY <2>1, <2>3, NextVerifies
    <3> QED
      BY <3>1 DEF HeadMatches, Uploaded, Stored
  <2> QED
    BY <1>1, <2>2, <2>3 DEF RowsIn
<1>3. CASE Deletion \/ Collection
  <2>1. UNCHANGED <<blockRows, inserted, flagged, manifest, pc, sess, cursor>>
    BY <1>3, OthersLeaveRows
  <2>2. \A r \in Request : Verified(r)' = Verified(r)
    BY <2>1 DEF Verified, InTx, Before, Chunks
  <2> QED
    BY <1>1, <2>1, <2>2 DEF RowsIn
<1>4. CASE ServerCrash
  BY <1>1, <1>4 DEF ServerCrash, StopRequests, sessionVars, catalogVars, RowsIn, Verified, InTx
<1> QED
  BY <1>2, <1>3, <1>4 DEF StoreNext, OnlineNext

(* The blocks table may be behind the object store but never ahead of it:   *)
(* what it makes Initiate leave out of an upload had been stored, whatever  *)
(* Completes verified, failed or rolled back, and whatever was collected in *)
(* between.  Only a collection can therefore leave a session without the    *)
(* means to finish.                                                         *)
THEOREM StuckOnlyByCollectionCorrect == StoreSpec => []StuckOnlyByCollection
<1>1. StoreInit => StoreInv /\ RowsUploaded
  BY InitStore DEF StoreInv, UnexposedBlocksAreSafe, RowsUploaded, RowsIn, StoreInit, Init,
                   NothingStored, NoRequests, Verified, InTx
<1>2. StoreInv /\ RowsUploaded /\ [StoreNext]_storeVars => StoreInv' /\ RowsUploaded'
  BY NextStore, NextRowsUploaded
<1>3. StoreInv /\ RowsUploaded => StuckOnlyByCollection
  BY DEF StoreInv, RowsUploaded, RowsIn, Uploaded, StuckOnlyByCollection, Pending, Stored
<1> QED
  BY <1>1, <1>2, <1>3, PTL DEF StoreSpec

-----------------------------------------------------------------------------
(* The composed system implements BlobCatalog.                              *)

Listing == [f \in SafeFiles |-> fileBlocks[f]]

LEMMA InitSafeCatalog == StoreInit => SafeCatalog!Init
BY DEF StoreInit, Init, NothingStored, SafeCatalog!Init, Stored, SafeFiles

(* A block that is about to be removed from the store is used by no file of *)
(* the catalog.                                                             *)
LEMMA SafeFilesIntact ==
  ASSUME StoreInv, NEW f \in SafeFiles
  PROVE  f \in files /\ Range(fileBlocks[f]) \ exposed[f] = Range(fileBlocks[f])
BY DEF SafeFiles

LEMMA ReclaimUnused ==
  ASSUME StoreInv, NEW h \in Hash,
         \A f \in SafeFiles : h \notin Range(fileBlocks[f]),
         objects' = [objects EXCEPT ![h] = "absent"],
         UNCHANGED <<files, fileBlocks, exposed>>
  PROVE  SafeCatalog!Reclaim(h)
<1>1. Stored' = Stored \ {h}
  BY DEF Stored, StoreInv, StoreTypeOK, TypeOK
<1>2. Listing' = Listing
  BY DEF Listing, SafeFiles
<1>3. h \notin SafeCatalog!InUse
  BY DEF SafeCatalog!InUse, SafeCatalog!Range, Range
<1> QED
  BY <1>1, <1>2, <1>3 DEF SafeCatalog!Reclaim, Listing

LEMMA RemoveFiles ==
  ASSUME StoreInv, NEW gone, RemoveRows(gone), UNCHANGED <<objects, exposed>>
  PROVE  \E F \in SUBSET FileId : SafeCatalog!Remove(F)
<1> DEFINE F == gone \cap FileId
<1>1. SafeFiles' = SafeFiles \ F
  BY DEF RemoveRows, SafeFiles, StoreInv, StoreTypeOK, TypeOK
<1>2. \A f \in SafeFiles' : f \in SafeFiles /\ fileBlocks'[f] = fileBlocks[f]
  BY DEF RemoveRows, SafeFiles, StoreInv, StoreTypeOK, TypeOK
<1>3. Listing' = [g \in DOMAIN Listing \ F |-> Listing[g]]
  BY <1>1, <1>2 DEF Listing
<1>4. Stored' = Stored
  BY DEF Stored
<1>5. SafeCatalog!Remove(F)
  BY <1>3, <1>4 DEF SafeCatalog!Remove, Listing
<1> QED
  BY <1>5

(* A COMMIT publishes the file if all its blocks are there and nobody is    *)
(* after them, and is not seen in the catalog otherwise.                    *)
LEMMA UploadCatalog ==
  ASSUME StoreInv, Upload
  PROVE  [SafeCatalog!Next]_(SafeCatalog!vars)
<1> USE DEF StoreInv, StoreTypeOK
<1>1. exposed' = [f \in FileId |-> IF f \in files' \ files
                                   THEN {h \in Range(fileBlocks'[f]) : Lost(h)}
                                   ELSE exposed[f]]
  BY DEF Upload, Expose
<1>2. CASE UNCHANGED <<files, fileBlocks>>
  <2>1. UNCHANGED exposed
    BY <1>1, <1>2
  <2>2. Listing' = Listing
    BY <1>2, <2>1 DEF Listing, SafeFiles
  <2>3. ASSUME NEW s \in Session, NEW h \in Hash, NEW c \in PutContents, PutObject(s, h, c)
        PROVE  SafeCatalog!Store(h)
    <3>1. Stored' = Stored \cup {h}
      BY <2>3, PutContentsAssumption DEF PutObject, Stored, TypeOK
    <3> QED
      BY <2>2, <3>1 DEF SafeCatalog!Store, Listing
  <2>4. CASE UNCHANGED objects
    BY <2>2, <2>4 DEF SafeCatalog!vars, Stored, Listing
  <2>5. \/ UNCHANGED objects
        \/ \E s \in Session, h \in Hash, c \in PutContents : PutObject(s, h, c)
    BY DEF Upload, Client, Initiate, GetSession, ExpireURLs, Begin, Proceed, VerifyBlock,
           VerifyFails, GetOrCreate, GetOrCreateBlocks, GetOrCreateWakes,
           GetOrCreateFindsNoRows, NoRowsFails, DeadlockVictim, Commit, ParentGone,
           PublishJob, Abort, Rollback
  <2> QED
    BY <2>3, <2>4, <2>5 DEF SafeCatalog!Next
<1>3. ASSUME NEW r \in Request, Commit(r)
      PROVE  [SafeCatalog!Next]_(SafeCatalog!vars)
  <2> DEFINE new == nfiles + 1
             m == Chunks(r)
  <2>1. new \in FileId /\ new \notin files
    BY <1>3, MaxFilesAssumption DEF Commit, CatalogInv, TypeOK, FileId
  <2>2. m \in Manifests /\ Range(m) \subseteq Hash
    BY <1>3, ChunkOK, ChunkListRange DEF Commit, InTx
  <2>3. /\ files' = files \cup {new}
        /\ fileBlocks' = [fileBlocks EXCEPT ![new] = m]
        /\ objects' = objects
    BY <1>3 DEF Commit
  <2>4. Stored' = Stored
    BY <2>3 DEF Stored
  <2>5. /\ fileBlocks'[new] = m
        /\ exposed'[new] = {h \in Range(m) : Lost(h)}
        /\ \A f \in files : /\ f # new /\ f \in FileId
                            /\ fileBlocks'[f] = fileBlocks[f] /\ exposed'[f] = exposed[f]
    <3> HIDE DEF new, m
    <3> QED
      BY <1>1, <2>1, <2>3 DEF TypeOK
  <2> HIDE DEF new, m
  <2>6. CASE exposed'[new] = {}
    <3>1. Range(m) \subseteq Stored
      BY <2>2, <2>5, <2>6 DEF Lost, Stored
    <3>2. SafeFiles' = SafeFiles \cup {new} /\ new \notin SafeFiles
      BY <2>1, <2>3, <2>5, <2>6 DEF SafeFiles
    <3>3. Listing' = [g \in DOMAIN Listing \cup {new} |-> IF g = new THEN m ELSE Listing[g]]
      <4>1. \A g \in SafeFiles : fileBlocks'[g] = fileBlocks[g]
        BY <2>5 DEF SafeFiles
      <4> QED
        BY <2>5, <3>2, <4>1 DEF Listing
    <3>4. \E f \in FileId, l \in Manifests :
            /\ f \notin DOMAIN Listing
            /\ Range(l) \subseteq Stored
            /\ Listing' = [g \in DOMAIN Listing \cup {f} |-> IF g = f THEN l ELSE Listing[g]]
            /\ UNCHANGED Stored
      <4>1. DOMAIN Listing = SafeFiles
        BY DEF Listing
      <4> QED
        BY <2>1, <2>2, <2>4, <3>1, <3>2, <3>3, <4>1
    <3>5. \E f \in FileId, l \in Manifests : SafeCatalog!Publish(f, l)
      BY <3>4 DEF SafeCatalog!Publish, SafeCatalog!Range, Range, Listing
    <3> QED
      BY <3>5 DEF SafeCatalog!Next
  <2>7. CASE exposed'[new] # {}
    <3>1. SafeFiles' = SafeFiles
      BY <2>3, <2>5, <2>7 DEF SafeFiles
    <3>2. Listing' = Listing
      BY <2>5, <3>1 DEF Listing, SafeFiles
    <3> QED
      BY <2>4, <3>2 DEF SafeCatalog!vars, Listing
  <2> QED
    BY <2>6, <2>7
<1>4. \/ UNCHANGED <<files, fileBlocks>>
      \/ \E r \in Request : Commit(r)
  BY DEF Upload, Client, Initiate, GetSession, ExpireURLs, PutObject, Begin, Proceed,
         VerifyBlock, VerifyFails, GetOrCreate, GetOrCreateBlocks, GetOrCreateWakes,
         GetOrCreateFindsNoRows, NoRowsFails, DeadlockVictim, ParentGone,
         PublishJob, Abort, Rollback, catalogVars
<1> QED
  BY <1>2, <1>3, <1>4

(* Files go when their rows do, and the background goroutine reclaims.      *)
LEMMA DeletionCatalog ==
  ASSUME StoreInv, Deletion
  PROVE  [SafeCatalog!Next]_(SafeCatalog!vars)
<1> USE DEF StoreInv, StoreTypeOK
<1>1. PICK d \in Deleter : Delete(d)
  BY DEF Deletion
<1>2. UNCHANGED exposed
  BY DEF Deletion
<1>3. CASE UNCHANGED <<files, fileBlocks, objects>>
  BY <1>2, <1>3 DEF SafeCatalog!vars, SafeFiles, Stored
<1>4. CASE DeleteSubtree(d) /\ ~bulk[d]
  BY <1>2, <1>4, RemoveFiles DEF DeleteSubtree, SafeCatalog!Next
<1>5. CASE CommitBulk(d)
  BY <1>2, <1>5, RemoveFiles DEF CommitBulk, SafeCatalog!Next
<1>6. ASSUME NEW h \in Hash, GarbageCollectBlock(d, h, TRUE)
      PROVE  SafeCatalog!Reclaim(h)
  <2>1. dels[d] = {} /\ h \in orphans[d]
    BY <1>6 DEF GarbageCollectBlock, DeletersTypeOK, DeletersWellFormed
  <2>2. \A f \in SafeFiles : h \notin Range(fileBlocks[f])
    BY <2>1, SafeFilesIntact DEF UnexposedBlocksAreSafe
  <2>3. objects' = [objects EXCEPT ![h] = "absent"] /\ UNCHANGED <<files, fileBlocks>>
    BY <1>6 DEF GarbageCollectBlock, rowVars
  <2> QED
    BY <1>2, <2>2, <2>3, ReclaimUnused
<1>7. \/ UNCHANGED <<files, fileBlocks, objects>>
      \/ DeleteSubtree(d) /\ ~bulk[d]
      \/ CommitBulk(d)
      \/ \E h \in Hash : GarbageCollectBlock(d, h, TRUE)
  <2>1. \A h \in Hash, deleted \in BOOLEAN :
          GarbageCollectBlock(d, h, deleted) => \/ UNCHANGED <<files, fileBlocks, objects>>
                                                \/ GarbageCollectBlock(d, h, TRUE)
    BY DEF GarbageCollectBlock, rowVars
  <2> QED
    BY <1>1, <2>1 DEF Delete, PermanentDelete, BulkHardDelete, Lookup, LookupFails,
                      CollectSubtreeHashes, DeleteSubtree, FindOrphanedHashes,
                      GarbageCollected, StopEarly, rowVars
<1> QED
  BY <1>3, <1>4, <1>5, <1>6, <1>7 DEF SafeCatalog!Next

(* The collector reclaims.                                                  *)
LEMMA CollectionCatalog ==
  ASSUME StoreInv, Collection
  PROVE  [SafeCatalog!Next]_(SafeCatalog!vars)
<1> USE DEF StoreInv, StoreTypeOK
<1>1. UNCHANGED <<files, fileBlocks, exposed>>
  BY DEF Collection, Collect, ListKeys, LoadHashes, Sweep, EndSweep, uploadVars, catalogVars
<1>2. CASE UNCHANGED objects
  BY <1>1, <1>2 DEF SafeCatalog!vars, SafeFiles, Stored
<1>3. ASSUME NEW h \in Hash, NEW deleted \in BOOLEAN, Sweep(h, deleted), objects' # objects
      PROVE  SafeCatalog!Reclaim(h)
  <2>1. phase = "sweep" /\ h \in keys /\ objects' = [objects EXCEPT ![h] = "absent"]
    BY <1>3 DEF Sweep
  <2>2. \A f \in SafeFiles : h \notin Range(fileBlocks[f])
    BY <2>1, SafeFilesIntact DEF UnexposedBlocksAreSafe
  <2> QED
    BY <1>1, <2>1, <2>2, ReclaimUnused
<1>4. \/ UNCHANGED objects
      \/ \E h \in Hash, deleted \in BOOLEAN : Sweep(h, deleted) /\ objects' # objects
  BY DEF Collection, Collect, ListKeys, LoadHashes, Sweep, EndSweep
<1> QED
  BY <1>2, <1>3, <1>4 DEF SafeCatalog!Next

LEMMA NextSafeCatalog ==
  ASSUME StoreInv, [StoreNext]_storeVars
  PROVE  [SafeCatalog!Next]_(SafeCatalog!vars)
<1>1. CASE ServerCrash \/ UNCHANGED storeVars
  <2>1. UNCHANGED <<files, fileBlocks, objects, exposed>>
    BY <1>1 DEF ServerCrash, StopRequests, catalogVars, storeVars, historyVars, vars
  <2> QED
    BY <2>1 DEF SafeCatalog!vars, SafeFiles, Stored
<1> QED
  BY <1>1, UploadCatalog, DeletionCatalog, CollectionCatalog DEF StoreNext, OnlineNext

(* What a reader can rely on, with everything running at once: a file that  *)
(* was committed while nobody was after its blocks appears in one step with *)
(* all its blocks stored, and no deletion, rollback, crash or sweep takes   *)
(* one of them away before the file itself goes.                            *)
THEOREM StoreImplementsSafeCatalog == StoreSpec => ImplementsSafeCatalog
<1>1. StoreInit => StoreInv /\ SafeCatalog!Init
  BY InitStore, InitSafeCatalog
     DEF StoreInv, UnexposedBlocksAreSafe, StoreInit, Init, NothingStored
<1>2. StoreInv /\ [StoreNext]_storeVars => StoreInv' /\ [SafeCatalog!Next]_(SafeCatalog!vars)
  BY NextStore, NextSafeCatalog
<1> QED
  BY <1>1, <1>2, PTL DEF StoreSpec, ImplementsSafeCatalog, SafeCatalog!Spec
=============================================================================
