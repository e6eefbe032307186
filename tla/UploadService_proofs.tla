------------------------ MODULE UploadService_proofs ------------------------
(***************************************************************************)
(* Theorems about UploadService for every value of its constants.           *)
(***************************************************************************)
EXTENDS UploadService, TLAPS

(* A chunk list that a client may declare is a non-empty sequence.          *)
LEMMA ManifestsNonEmpty ==
  ASSUME NEW m \in Manifests
  PROVE  m \in Seq(Hash) /\ Len(m) \in Nat \ {0} /\ DOMAIN m = 1 .. Len(m)
BY ManifestsAssumption

(* The blocks of a chunk list are its elements.                             *)
LEMMA ChunkListRange ==
  ASSUME NEW m \in Manifests
  PROVE  Range(m) = {m[i] : i \in 1 .. Len(m)} /\ Range(m) \subseteq Hash
BY ManifestsNonEmpty DEF Range

(* A request inside its transaction works on a chunk of a declared list.    *)
LEMMA ChunkOK ==
  ASSUME TypeOK, NEW r \in Request, InTx(r)
  PROVE  /\ sess[r] \in Session
         /\ Chunks(r) \in Manifests
         /\ cursor[r] \in 1 .. Len(Chunks(r))
         /\ Chunk(r) \in Range(Chunks(r))
         /\ Chunk(r) \in Hash
<1>1. sess[r] \in Session /\ status[sess[r]] # "none"
  BY DEF TypeOK, WellFormed, InTx
<1>2. Chunks(r) \in Manifests
  BY <1>1 DEF TypeOK, WellFormed, Chunks
<1>3. cursor[r] \in 1 .. Len(Chunks(r))
  BY DEF TypeOK, WellFormed
<1>4. Chunk(r) \in Range(Chunks(r))
  BY <1>2, <1>3, ChunkListRange DEF Chunk
<1> QED
  BY <1>1, <1>2, <1>3, <1>4, ChunkListRange

-----------------------------------------------------------------------------
(* Type correctness.                                                        *)

LEMMA InitTyped == Init => TypeOK
<1> SUFFICES ASSUME Init PROVE TypeOK
  OBVIOUS
<1> USE RootAssumption, MaxFilesAssumption
<1>1. /\ objects \in [Hash -> Content]
      /\ blockRows \subseteq Hash
      /\ folders \subseteq Folder
      /\ files \subseteq FileId
      /\ nfiles \in 0 .. MaxFiles
      /\ fileBlocks \in [FileId -> Manifests \cup {<<>>}]
      /\ fileParent \in [FileId -> Parent]
      /\ origin \in [FileId -> Session \cup {NoSession}]
      /\ jobs \subseteq FileId
  BY DEF Init, NothingStored, Content, Parent
<1>2. /\ status \in [Session -> {"none", "INITIATED", "COMPLETED"}]
      /\ manifest \in [Session -> Manifests \cup {<<>>}]
      /\ flagged \in [Session -> SUBSET Hash]
      /\ hasMD5 \in [Session -> BOOLEAN]
      /\ parent \in [Session -> Parent]
      /\ urls \in [Session -> SUBSET Hash]
  BY DEF Init, NoSessions, NothingStored, Parent
<1>3. /\ pc \in [Request -> {"idle", "verify", "upsert", "wait", "norows", "commit",
                             "publish"}]
      /\ sess \in [Request -> Session \cup {NoSession}]
      /\ cursor \in [Request -> Nat]
      /\ inserted \in [Request -> SUBSET Hash]
      /\ newFile \in [Request -> 0 .. MaxFiles]
  BY DEF Init, NoRequests
<1>4. WellFormed
  BY DEF Init, NoSessions, NoRequests, WellFormed, InTx
<1> QED
  BY <1>1, <1>2, <1>3, <1>4 DEF TypeOK

(* What RunInTx leaves behind when it rolls back.                           *)
LEMMA RollbackTyped ==
  ASSUME TypeOK, NEW r \in Request, Rollback(r)
  PROVE  TypeOK'
<1> USE DEF Rollback, Finish, sessionVars, catalogVars
<1>1. /\ pc' \in [Request -> {"idle", "verify", "upsert", "wait", "norows", "commit",
                              "publish"}]
      /\ sess' \in [Request -> Session \cup {NoSession}]
      /\ cursor' \in [Request -> Nat]
      /\ inserted' \in [Request -> SUBSET Hash]
      /\ newFile' \in [Request -> 0 .. MaxFiles]
  BY MaxFilesAssumption DEF TypeOK
<1>2. WellFormed'
  BY DEF TypeOK, WellFormed, InTx, Chunks
<1> QED
  BY <1>1, <1>2 DEF TypeOK

(* What a client does leaves the requests alone.                            *)
LEMMA ClientTyped ==
  ASSUME TypeOK, NEW s \in Session, Client(s)
  PROVE  TypeOK'
<1> USE DEF sessionVars, catalogVars, requestVars
<1>1. ASSUME NEW m \in Manifests, NEW p \in Parent, NEW md5 \in MD5Choices,
             Initiate(s, m, p, md5)
      PROVE  TypeOK'
  <2> USE <1>1 DEF Initiate
  <2>1. Range(m) \subseteq Hash
    BY ChunkListRange
  <2>2. /\ status' \in [Session -> {"none", "INITIATED", "COMPLETED"}]
        /\ manifest' \in [Session -> Manifests \cup {<<>>}]
        /\ flagged' \in [Session -> SUBSET Hash]
        /\ hasMD5' \in [Session -> BOOLEAN]
        /\ parent' \in [Session -> Parent]
        /\ urls' \in [Session -> SUBSET Hash]
    BY <2>1, MD5ChoicesAssumption DEF TypeOK, Known
  <2>3. \A t \in Session : status'[t] = "none" \/ manifest'[t] \in Manifests
    BY DEF TypeOK, WellFormed
  <2>4. ASSUME NEW r \in Request, pc[r] # "idle"
        PROVE  sess[r] # s /\ status'[sess[r]] = status[sess[r]]
               /\ manifest'[sess[r]] = manifest[sess[r]]
    BY <2>4 DEF TypeOK, WellFormed
  <2>5. WellFormed'
    BY <2>3, <2>4 DEF TypeOK, WellFormed, InTx, Chunks
  <2> QED
    BY <2>2, <2>5 DEF TypeOK
<1>2. CASE GetSession(s)
  <2>1. Pending(s) \subseteq Hash
    BY <1>2, ChunkListRange DEF GetSession, Pending, TypeOK, WellFormed
  <2>2. urls' \in [Session -> SUBSET Hash]
    BY <1>2, <2>1 DEF GetSession, TypeOK
  <2> QED
    BY <1>2, <2>2 DEF GetSession, TypeOK, WellFormed, InTx, Chunks
<1>3. CASE ExpireURLs(s)
  BY <1>3 DEF ExpireURLs, TypeOK, WellFormed, InTx, Chunks
<1>4. ASSUME NEW h \in Hash, NEW c \in PutContents, PutObject(s, h, c)
      PROVE  TypeOK'
  <2>1. objects' \in [Hash -> Content]
    BY <1>4, PutContentsAssumption DEF PutObject, TypeOK
  <2> QED
    BY <1>4, <2>1 DEF PutObject, TypeOK, WellFormed, InTx, Chunks
<1> QED
  BY <1>1, <1>2, <1>3, <1>4 DEF Client

(* Advance stays within the chunk list and ends the phase after the last.   *)
LEMMA AdvanceTyped ==
  ASSUME TypeOK, NEW r \in Request, InTx(r),
         NEW phase \in {"verify", "upsert"}, NEW next \in {"upsert", "commit"},
         Advance(r, phase, next)
  PROVE  /\ pc' \in [Request -> {"idle", "verify", "upsert", "wait", "norows", "commit",
                                 "publish"}]
         /\ cursor' \in [Request -> Nat]
         /\ cursor'[r] \in 1 .. Len(Chunks(r))
         /\ pc'[r] \in {phase, next}
         /\ \A q \in Request \ {r} : pc'[q] = pc[q] /\ cursor'[q] = cursor[q]
<1>1. cursor[r] \in 1 .. Len(Chunks(r)) /\ Len(Chunks(r)) \in Nat \ {0}
  BY ChunkOK, ManifestsNonEmpty
<1>2. cursor \in [Request -> Nat]
      /\ pc \in [Request -> {"idle", "verify", "upsert", "wait", "norows", "commit",
                             "publish"}]
  BY DEF TypeOK
<1> QED
  BY <1>1, <1>2 DEF Advance

(* The steps that move a request through its chunks.                        *)
LEMMA ChunkStepTyped ==
  ASSUME TypeOK, NEW r \in Request,
         \/ VerifyBlock(r)
         \/ GetOrCreate(r)
         \/ GetOrCreateBlocks(r)
         \/ GetOrCreateWakes(r)
         \/ GetOrCreateFindsNoRows(r)
  PROVE  TypeOK'
<1> USE DEF sessionVars, catalogVars
<1>1. InTx(r)
  BY DEF InTx, VerifyBlock, GetOrCreate, GetOrCreateBlocks, GetOrCreateWakes,
         GetOrCreateFindsNoRows
<1>2. Chunk(r) \in Hash
  BY <1>1, ChunkOK
<1>3. inserted' \in [Request -> SUBSET Hash]
  <2>1. inserted \in [Request -> SUBSET Hash]
    BY DEF TypeOK
  <2>2. \/ inserted' = inserted
        \/ inserted' = [inserted EXCEPT ![r] = @ \cup ({Chunk(r)} \ blockRows)]
        \/ inserted' = [inserted EXCEPT ![r] = @ \cup {Chunk(r)}]
    BY DEF VerifyBlock, GetOrCreate, GetOrCreateBlocks, GetOrCreateWakes,
           GetOrCreateFindsNoRows
  <2> QED
    BY <1>2, <2>1, <2>2
<1>4. /\ pc' \in [Request -> {"idle", "verify", "upsert", "wait", "norows", "commit",
                              "publish"}]
      /\ cursor' \in [Request -> Nat]
      /\ cursor'[r] \in 1 .. Len(Chunks(r))
      /\ pc'[r] \in {"verify", "upsert", "wait", "norows", "commit"}
      /\ \A q \in Request \ {r} : pc'[q] = pc[q] /\ cursor'[q] = cursor[q]
  <2>1. CASE VerifyBlock(r) \/ GetOrCreate(r) \/ GetOrCreateWakes(r)
    BY <1>1, <2>1, AdvanceTyped DEF VerifyBlock, GetOrCreate, GetOrCreateWakes
  <2>2. CASE GetOrCreateBlocks(r) \/ GetOrCreateFindsNoRows(r)
    BY <1>1, <2>2, ChunkOK DEF TypeOK, GetOrCreateBlocks, GetOrCreateFindsNoRows
  <2> QED
    BY <2>1, <2>2
<1>5. UNCHANGED <<objects, urls, jobs, sessionVars, catalogVars, sess, newFile>>
  BY DEF VerifyBlock, GetOrCreate, GetOrCreateBlocks, GetOrCreateWakes,
         GetOrCreateFindsNoRows
<1>6. WellFormed'
  BY <1>1, <1>4, <1>5 DEF TypeOK, WellFormed, InTx, Chunks
<1> QED
  BY <1>3, <1>4, <1>5, <1>6 DEF TypeOK

LEMMA CommitTyped ==
  ASSUME TypeOK, NEW r \in Request, Commit(r)
  PROVE  TypeOK'
<1> USE DEF Commit
<1>1. InTx(r)
  BY DEF InTx
<1>2. /\ sess[r] \in Session
      /\ Chunks(r) \in Manifests
      /\ parent[sess[r]] \in Parent
  BY <1>1, ChunkOK DEF TypeOK
<1>3. nfiles + 1 \in FileId /\ nfiles' = nfiles + 1 /\ nfiles' \in 1 .. MaxFiles
      /\ nfiles \in Nat
  BY MaxFilesAssumption DEF TypeOK, FileId
<1>4. /\ blockRows' \subseteq Hash
      /\ status' \in [Session -> {"none", "INITIATED", "COMPLETED"}]
      /\ files' \subseteq FileId
      /\ fileBlocks' \in [FileId -> Manifests \cup {<<>>}]
      /\ fileParent' \in [FileId -> Parent]
      /\ origin' \in [FileId -> Session \cup {NoSession}]
  BY <1>2, <1>3 DEF TypeOK
<1>5. /\ pc' \in [Request -> {"idle", "verify", "upsert", "wait", "norows", "commit",
                              "publish"}]
      /\ inserted' \in [Request -> SUBSET Hash]
      /\ newFile' \in [Request -> 0 .. MaxFiles]
  BY <1>3, MaxFilesAssumption DEF TypeOK
<1>6. \A q \in Request \ {r} : pc'[q] = pc[q] /\ newFile'[q] = newFile[q]
  BY DEF TypeOK
<1>7. \A s \in Session : status'[s] = "none" => status[s] = "none"
  BY <1>2 DEF TypeOK
<1>8. pc'[r] = "publish" /\ newFile'[r] = nfiles'
  BY <1>3 DEF TypeOK
<1>9. WellFormed'
  <2>1. \A s \in Session : status'[s] = "none" \/ manifest'[s] \in Manifests
    BY <1>7 DEF TypeOK, WellFormed
  <2>2. ASSUME NEW q \in Request, pc'[q] # "idle"
        PROVE  sess'[q] \in Session /\ status'[sess'[q]] # "none"
    BY <1>1, <1>6, <1>7, <2>2 DEF TypeOK, WellFormed, InTx
  <2>3. ASSUME NEW q \in Request, InTx(q)'
        PROVE  (cursor[q] \in 1 .. Len(Chunks(q)))'
    BY <1>6, <1>8, <2>3 DEF TypeOK, WellFormed, InTx, Chunks
  <2>4. ASSUME NEW q \in Request, pc'[q] = "publish"
        PROVE  newFile'[q] \in 1 .. nfiles'
    <3>1. CASE q = r
      BY <1>3, <1>8, <3>1
    <3>2. CASE q # r
      <4>1. newFile[q] \in 1 .. nfiles
        BY <1>6, <2>4, <3>2 DEF TypeOK, WellFormed
      <4> QED
        BY <1>3, <1>6, <3>2, <4>1
    <3> QED
      BY <3>1, <3>2
  <2> QED
    BY <2>1, <2>2, <2>3, <2>4 DEF WellFormed
<1> QED
  BY <1>3, <1>4, <1>5, <1>9 DEF TypeOK

LEMMA CrashTyped ==
  ASSUME TypeOK, StopRequests
  PROVE  TypeOK'
<1>1. WellFormed'
  BY DEF TypeOK, WellFormed, StopRequests, InTx, Chunks, sessionVars, catalogVars
<1> QED
  BY <1>1, MaxFilesAssumption DEF TypeOK, StopRequests, sessionVars, catalogVars

LEMMA NextTyped ==
  ASSUME TypeOK, [Next]_vars
  PROVE  TypeOK'
<1>1. ASSUME NEW s \in Session, Client(s)
      PROVE  TypeOK'
  BY <1>1, ClientTyped
<1>2. ASSUME NEW r \in Request, NEW s \in Session, Begin(r, s)
      PROVE  TypeOK'
  <2> USE <1>2 DEF Begin, sessionVars, catalogVars
  <2>1. /\ pc' \in [Request -> {"idle", "verify", "upsert", "wait", "norows", "commit",
                                "publish"}]
        /\ sess' \in [Request -> Session \cup {NoSession}]
        /\ cursor' \in [Request -> Nat]
    BY DEF TypeOK
  <2>2. manifest[s] \in Manifests /\ 1 \in 1 .. Len(manifest[s])
    BY ManifestsNonEmpty DEF TypeOK, WellFormed
  <2>3. WellFormed'
    BY <2>2 DEF TypeOK, WellFormed, InTx, Chunks
  <2> QED
    BY <2>1, <2>3 DEF TypeOK
<1>3. ASSUME NEW r \in Request, Proceed(r)
      PROVE  TypeOK'
  <2>1. CASE \/ VerifyFails(r) \/ NoRowsFails(r) \/ DeadlockVictim(r) \/ ParentGone(r)
    BY <2>1, RollbackTyped DEF VerifyFails, NoRowsFails, DeadlockVictim, ParentGone
  <2>2. CASE \/ VerifyBlock(r) \/ GetOrCreate(r) \/ GetOrCreateBlocks(r)
             \/ GetOrCreateWakes(r) \/ GetOrCreateFindsNoRows(r)
    BY <2>2, ChunkStepTyped
  <2>3. CASE Commit(r)
    BY <2>3, CommitTyped
  <2>4. ASSUME NEW sent \in BOOLEAN, PublishJob(r, sent)
        PROVE  TypeOK'
    <3> USE <2>4 DEF PublishJob, Finish, sessionVars, catalogVars
    <3>1. newFile[r] \in FileId
      BY MaxFilesAssumption DEF TypeOK, WellFormed, FileId
    <3>2. jobs' \subseteq FileId
      BY <3>1 DEF TypeOK
    <3>3. WellFormed'
      BY DEF TypeOK, WellFormed, InTx, Chunks
    <3> QED
      BY <3>2, <3>3, MaxFilesAssumption DEF TypeOK
  <2> QED
    BY <1>3, <2>1, <2>2, <2>3, <2>4 DEF Proceed
<1>4. ASSUME NEW r \in Request, Abort(r)
      PROVE  TypeOK'
  BY <1>4, RollbackTyped DEF Abort
<1>5. CASE Crash
  BY <1>5, CrashTyped DEF Crash
<1>6. CASE UNCHANGED vars
  BY <1>6 DEF vars, sessionVars, catalogVars, requestVars, TypeOK, WellFormed, InTx, Chunks
<1> QED
  BY <1>1, <1>2, <1>3, <1>4, <1>5, <1>6 DEF Next

(* Every variable keeps its type, and a request that runs always has a      *)
(* session that exists and a place within its chunk list.                   *)
THEOREM TypeCorrect == Spec => []TypeOK
BY InitTyped, NextTyped, PTL DEF Spec

-----------------------------------------------------------------------------
(* Going through the chunks: one more is behind, or all of them are.        *)
LEMMA AdvanceBefore ==
  ASSUME TypeOK, NEW r \in Request, InTx(r),
         NEW phase \in {"verify", "upsert"}, NEW next \in {"upsert", "commit"},
         Advance(r, phase, next), UNCHANGED <<sess, manifest>>
  PROVE  \/ pc'[r] = phase /\ Before(r)' = Before(r) \cup {Chunk(r)}
         \/ pc'[r] = next /\ Before(r)' = {} /\ Range(Chunks(r)) = Before(r) \cup {Chunk(r)}
<1>1. /\ Chunks(r) \in Manifests
      /\ cursor[r] \in 1 .. Len(Chunks(r))
      /\ Len(Chunks(r)) \in Nat \ {0}
  BY ChunkOK, ManifestsNonEmpty
<1>2. Chunks(r)' = Chunks(r)
  BY DEF Chunks
<1>3. cursor \in [Request -> Nat] /\ pc \in [Request -> {"idle", "verify", "upsert",
                                              "wait", "norows", "commit", "publish"}]
  BY DEF TypeOK
<1>4. CASE cursor[r] < Len(Chunks(r))
  <2>1. pc'[r] = phase /\ cursor'[r] = cursor[r] + 1
    BY <1>3, <1>4 DEF Advance
  <2>2. Before(r)' = {Chunks(r)[i] : i \in 1 .. cursor[r]}
    BY <1>1, <1>2, <2>1 DEF Before
  <2>3. 1 .. cursor[r] = (1 .. (cursor[r] - 1)) \cup {cursor[r]}
    BY <1>1
  <2> QED
    BY <2>1, <2>2, <2>3 DEF Before, Chunk
<1>5. CASE ~(cursor[r] < Len(Chunks(r)))
  <2>1. pc'[r] = next /\ cursor'[r] = 1
    BY <1>3, <1>5 DEF Advance
  <2>2. Before(r)' = {}
    BY <2>1 DEF Before
  <2>3. cursor[r] = Len(Chunks(r))
    BY <1>1, <1>5
  <2>4. 1 .. Len(Chunks(r)) = (1 .. (cursor[r] - 1)) \cup {cursor[r]}
    BY <1>1, <2>3
  <2>5. Range(Chunks(r)) = {Chunks(r)[i] : i \in 1 .. Len(Chunks(r))}
    BY <1>1, ChunkListRange
  <2> QED
    BY <2>1, <2>2, <2>4, <2>5 DEF Before, Chunk
<1> QED
  BY <1>4, <1>5

(* A request that is neither idle nor the one that steps keeps its session, *)
(* that session's chunks and its place.                                     *)
LEMMA ClientLeavesRequests ==
  ASSUME TypeOK, NEW s \in Session, Client(s), NEW r \in Request, InTx(r)
  PROVE  /\ sess'[r] = sess[r] /\ pc'[r] = pc[r]
         /\ Chunks(r)' = Chunks(r) /\ Before(r)' = Before(r)
         /\ hasMD5'[sess[r]] = hasMD5[sess[r]]
<1>1. UNCHANGED requestVars
  BY DEF Client, Initiate, GetSession, ExpireURLs, PutObject
<1>2. sess[r] \in Session /\ status[sess[r]] # "none"
  BY DEF TypeOK, WellFormed, InTx
<1>3. manifest'[sess[r]] = manifest[sess[r]] /\ hasMD5'[sess[r]] = hasMD5[sess[r]]
  BY <1>2 DEF Client, Initiate, GetSession, ExpireURLs, PutObject, sessionVars, TypeOK
<1> QED
  BY <1>1, <1>3 DEF requestVars, Chunks, Before

-----------------------------------------------------------------------------
(* The blocks table under concurrent transactions.                          *)

RowsInv == TypeOK /\ OneRowPerHash /\ UpsertedRowsExist /\ LinkedRowsExist

LEMMA InitRows == Init => RowsInv
<1> SUFFICES ASSUME Init PROVE RowsInv
  OBVIOUS
<1>1. OneRowPerHash /\ UpsertedRowsExist /\ LinkedRowsExist
  BY DEF Init, NoSessions, NothingStored, NoRequests,
         OneRowPerHash, UpsertedRowsExist, LinkedRowsExist
<1> QED
  BY <1>1, InitTyped DEF RowsInv

LEMMA RollbackRows ==
  ASSUME RowsInv, NEW r \in Request, Rollback(r)
  PROVE  OneRowPerHash' /\ UpsertedRowsExist' /\ LinkedRowsExist'
<1> USE DEF RowsInv, Rollback, Finish, sessionVars, catalogVars
<1>1. /\ pc'[r] = "idle" /\ inserted'[r] = {}
      /\ \A q \in Request \ {r} :
           /\ pc'[q] = pc[q] /\ inserted'[q] = inserted[q]
           /\ Chunks(q)' = Chunks(q) /\ Before(q)' = Before(q)
  BY DEF TypeOK, Chunks, Before
<1>2. OneRowPerHash'
  BY <1>1 DEF OneRowPerHash
<1>3. UpsertedRowsExist'
  BY <1>1 DEF UpsertedRowsExist
<1> QED
  BY <1>2, <1>3 DEF LinkedRowsExist

LEMMA ChunkStepRows ==
  ASSUME RowsInv, NEW r \in Request,
         \/ VerifyBlock(r)
         \/ GetOrCreate(r)
         \/ GetOrCreateBlocks(r)
         \/ GetOrCreateWakes(r)
         \/ GetOrCreateFindsNoRows(r)
  PROVE  OneRowPerHash' /\ UpsertedRowsExist' /\ LinkedRowsExist'
<1> USE DEF RowsInv, sessionVars, catalogVars
<1>1. InTx(r)
  BY DEF InTx, VerifyBlock, GetOrCreate, GetOrCreateBlocks, GetOrCreateWakes,
         GetOrCreateFindsNoRows
<1>2. UNCHANGED <<blockRows, files, fileBlocks, sess, manifest>>
  BY DEF VerifyBlock, GetOrCreate, GetOrCreateBlocks, GetOrCreateWakes,
         GetOrCreateFindsNoRows
<1>3. \A q \in Request \ {r} :
        /\ pc'[q] = pc[q] /\ cursor'[q] = cursor[q] /\ inserted'[q] = inserted[q]
        /\ Chunks(q)' = Chunks(q) /\ Before(q)' = Before(q)
  <2>1. \A q \in Request \ {r} :
          pc'[q] = pc[q] /\ cursor'[q] = cursor[q] /\ inserted'[q] = inserted[q]
    BY <1>1, AdvanceTyped
       DEF TypeOK, VerifyBlock, GetOrCreate, GetOrCreateBlocks, GetOrCreateWakes,
           GetOrCreateFindsNoRows
  <2> QED
    BY <1>2, <2>1 DEF Chunks, Before
<1>4. /\ inserted[r] \subseteq inserted'[r]
      /\ inserted'[r] \cap blockRows = {}
      /\ \A q \in Request \ {r} : inserted'[r] \cap inserted[q] = {}
      /\ pc'[r] \in {"upsert", "wait", "norows"}
           => Before(r)' \subseteq blockRows \cup inserted'[r]
      /\ pc'[r] = "commit" => Range(Chunks(r)) \subseteq blockRows \cup inserted'[r]
  <2> USE <1>1, <1>2
  <2>1. CASE VerifyBlock(r)
    <3>1. pc'[r] = "verify" \/ (pc'[r] = "upsert" /\ Before(r)' = {})
      BY <2>1, AdvanceBefore DEF VerifyBlock
    <3> QED
      BY <2>1, <3>1 DEF VerifyBlock, OneRowPerHash
  <2>2. CASE GetOrCreate(r) \/ GetOrCreateWakes(r)
    <3>1. /\ inserted'[r] = inserted[r] \cup ({Chunk(r)} \ blockRows)
          /\ Chunk(r) \in blockRows \cup inserted[r]
             \/ \A q \in Request \ {r} : Chunk(r) \notin inserted[q]
      BY <2>2 DEF TypeOK, GetOrCreate, GetOrCreateWakes, RowVisible, HeldByOther
    <3>2. Before(r) \subseteq blockRows \cup inserted[r]
      BY <2>2 DEF GetOrCreate, GetOrCreateWakes, UpsertedRowsExist
    <3>3. \/ pc'[r] = "upsert" /\ Before(r)' = Before(r) \cup {Chunk(r)}
          \/ pc'[r] = "commit" /\ Range(Chunks(r)) = Before(r) \cup {Chunk(r)}
      BY <2>2, AdvanceBefore DEF GetOrCreate, GetOrCreateWakes
    <3>4. inserted'[r] \cap blockRows = {}
      BY <3>1 DEF OneRowPerHash
    <3>5. \A q \in Request \ {r} : inserted'[r] \cap inserted[q] = {}
      BY <3>1 DEF OneRowPerHash
    <3> QED
      BY <3>1, <3>2, <3>3, <3>4, <3>5
  <2>3. CASE GetOrCreateBlocks(r) \/ GetOrCreateFindsNoRows(r)
    <3>1. pc'[r] \in {"wait", "norows"} /\ Before(r)' = Before(r)
          /\ inserted' = inserted
      BY <2>3 DEF TypeOK, GetOrCreateBlocks, GetOrCreateFindsNoRows, Before, Chunks
    <3>2. Before(r) \subseteq blockRows \cup inserted[r]
      BY <2>3 DEF GetOrCreateBlocks, GetOrCreateFindsNoRows, UpsertedRowsExist
    <3> QED
      BY <3>1, <3>2 DEF OneRowPerHash
  <2> QED
    BY <2>1, <2>2, <2>3
<1>5. OneRowPerHash'
  BY <1>2, <1>3, <1>4 DEF OneRowPerHash
<1>6. UpsertedRowsExist'
  <2>1. Chunks(r)' = Chunks(r)
    BY <1>2 DEF Chunks
  <2> QED
    BY <1>2, <1>3, <1>4, <2>1 DEF UpsertedRowsExist
<1> QED
  BY <1>2, <1>5, <1>6 DEF LinkedRowsExist

(* COMMIT turns the rows a transaction inserted into rows of the table.     *)
LEMMA CommitRows ==
  ASSUME RowsInv, NEW r \in Request, Commit(r)
  PROVE  OneRowPerHash' /\ UpsertedRowsExist' /\ LinkedRowsExist'
<1> USE DEF RowsInv, Commit
<1>1. InTx(r)
  BY DEF InTx
<1>2. Range(Chunks(r)) \subseteq blockRows'
  BY DEF UpsertedRowsExist
<1>3. /\ pc'[r] = "publish" /\ inserted'[r] = {}
      /\ \A q \in Request \ {r} :
           /\ pc'[q] = pc[q] /\ inserted'[q] = inserted[q]
           /\ Chunks(q)' = Chunks(q) /\ Before(q)' = Before(q)
      /\ blockRows' = blockRows \cup inserted[r]
  BY DEF TypeOK, Chunks, Before
<1>4. OneRowPerHash'
  BY <1>3 DEF OneRowPerHash
<1>5. UpsertedRowsExist'
  BY <1>3 DEF UpsertedRowsExist
<1>6. LinkedRowsExist'
  <2>1. nfiles + 1 \in FileId
    BY MaxFilesAssumption DEF TypeOK, FileId
  <2> SUFFICES ASSUME NEW f \in files'
               PROVE  Range(fileBlocks'[f]) \subseteq blockRows'
    BY DEF LinkedRowsExist
  <2>2. CASE f = nfiles + 1
    <3>1. fileBlocks'[f] = Chunks(r)
      BY <2>1, <2>2 DEF TypeOK
    <3> QED
      BY <1>2, <3>1
  <2>3. CASE f # nfiles + 1
    <3>1. f \in files /\ fileBlocks'[f] = fileBlocks[f]
      BY <2>3 DEF TypeOK
    <3> QED
      BY <1>3, <3>1 DEF LinkedRowsExist
  <2> QED
    BY <2>2, <2>3
<1> QED
  BY <1>4, <1>5, <1>6

LEMMA NextRows ==
  ASSUME RowsInv, [Next]_vars
  PROVE  RowsInv'
<1>1. TypeOK'
  BY NextTyped DEF RowsInv
<1>2. OneRowPerHash' /\ UpsertedRowsExist' /\ LinkedRowsExist'
  <2>1. ASSUME NEW s \in Session, Client(s)
        PROVE  OneRowPerHash' /\ UpsertedRowsExist' /\ LinkedRowsExist'
    <3>1. UNCHANGED <<catalogVars, requestVars>>
      BY <2>1 DEF Client, Initiate, GetSession, ExpireURLs, PutObject
    <3>2. OneRowPerHash' /\ LinkedRowsExist'
      BY <3>1 DEF RowsInv, OneRowPerHash, LinkedRowsExist, catalogVars, requestVars
    <3>3. \A r \in Request : InTx(r) => Chunks(r)' = Chunks(r) /\ Before(r)' = Before(r)
      BY <2>1, ClientLeavesRequests DEF RowsInv
    <3>4. UpsertedRowsExist'
      BY <3>1, <3>3 DEF RowsInv, UpsertedRowsExist, InTx, catalogVars, requestVars
    <3> QED
      BY <3>2, <3>4
  <2>2. ASSUME NEW r \in Request, NEW s \in Session, Begin(r, s)
        PROVE  OneRowPerHash' /\ UpsertedRowsExist' /\ LinkedRowsExist'
    <3> USE <2>2 DEF RowsInv, Begin, sessionVars, catalogVars
    <3>1. /\ pc'[r] = "verify"
          /\ \A q \in Request \ {r} :
               pc'[q] = pc[q] /\ Chunks(q)' = Chunks(q) /\ Before(q)' = Before(q)
      BY DEF TypeOK, Chunks, Before
    <3> QED
      BY <3>1 DEF OneRowPerHash, UpsertedRowsExist, LinkedRowsExist
  <2>3. ASSUME NEW r \in Request, Proceed(r) \/ Abort(r)
        PROVE  OneRowPerHash' /\ UpsertedRowsExist' /\ LinkedRowsExist'
    <3>1. CASE \/ VerifyFails(r) \/ NoRowsFails(r) \/ DeadlockVictim(r)
               \/ ParentGone(r) \/ Abort(r)
      BY <3>1, RollbackRows
         DEF VerifyFails, NoRowsFails, DeadlockVictim, ParentGone, Abort
    <3>2. CASE \/ VerifyBlock(r) \/ GetOrCreate(r) \/ GetOrCreateBlocks(r)
               \/ GetOrCreateWakes(r) \/ GetOrCreateFindsNoRows(r)
      BY <3>2, ChunkStepRows
    <3>3. CASE Commit(r)
      BY <3>3, CommitRows
    <3>4. ASSUME NEW sent \in BOOLEAN, PublishJob(r, sent)
          PROVE  OneRowPerHash' /\ UpsertedRowsExist' /\ LinkedRowsExist'
      <4> USE <3>4 DEF RowsInv, PublishJob, Finish, sessionVars, catalogVars
      <4>1. /\ pc'[r] = "idle"
            /\ \A q \in Request \ {r} :
                 pc'[q] = pc[q] /\ Chunks(q)' = Chunks(q) /\ Before(q)' = Before(q)
        BY DEF TypeOK, Chunks, Before
      <4> QED
        BY <4>1 DEF OneRowPerHash, UpsertedRowsExist, LinkedRowsExist
    <3> QED
      BY <2>3, <3>1, <3>2, <3>3, <3>4 DEF Proceed
  <2>4. CASE Crash
    BY <2>4 DEF Crash, StopRequests, RowsInv, OneRowPerHash, UpsertedRowsExist,
                LinkedRowsExist, sessionVars, catalogVars
  <2>5. CASE UNCHANGED vars
    BY <2>5 DEF vars, sessionVars, catalogVars, requestVars, RowsInv, OneRowPerHash,
                UpsertedRowsExist, LinkedRowsExist, Chunks, Before
  <2> QED
    BY <2>1, <2>2, <2>3, <2>4, <2>5 DEF Next
<1> QED
  BY <1>1, <1>2 DEF RowsInv

(* Single-instance storage under concurrent Completes: one blocks row per   *)
(* hash, counting the uncommitted ones.                                     *)
THEOREM OneRowPerHashCorrect == Spec => []OneRowPerHash
<1>1. Spec => []RowsInv
  BY InitRows, NextRows, PTL DEF Spec
<1> QED
  BY <1>1, PTL DEF RowsInv

(* file_blocks never refers to a blocks row that is not there, although     *)
(* transactions rely on each other's rows and may roll back.                *)
THEOREM LinkedRowsCorrect == Spec => []LinkedRowsExist
<1>1. Spec => []RowsInv
  BY InitRows, NextRows, PTL DEF Spec
<1> QED
  BY <1>1, PTL DEF RowsInv

-----------------------------------------------------------------------------
(* What a transaction has verified.                                         *)

LEMMA VerifiedHashes ==
  ASSUME TypeOK, NEW r \in Request
  PROVE  Verified(r) \subseteq Hash
<1>1. CASE InTx(r)
  <2>1. Chunks(r) \in Manifests /\ cursor[r] \in 1 .. Len(Chunks(r))
    BY <1>1, ChunkOK
  <2>2. Range(Chunks(r)) = {Chunks(r)[i] : i \in 1 .. Len(Chunks(r))}
        /\ Range(Chunks(r)) \subseteq Hash
    BY <2>1, ChunkListRange
  <2>3. Before(r) \subseteq Range(Chunks(r))
    BY <2>1, <2>2, ManifestsNonEmpty DEF Before
  <2> QED
    BY <2>2, <2>3 DEF Verified
<1>2. CASE ~InTx(r)
  BY <1>2 DEF Verified, InTx
<1> QED
  BY <1>1, <1>2

(* A chunk counts as verified because it did before, or because it matches  *)
(* in this very step; the session stays the one it was verified for.        *)
LEMMA NextVerifies ==
  ASSUME TypeOK, [Next]_vars, NEW r \in Request, NEW h \in Verified(r)'
  PROVE  /\ InTx(r) /\ sess'[r] = sess[r] /\ hasMD5'[sess[r]] = hasMD5[sess[r]]
         /\ h \in Verified(r) \/ (h \in Hash /\ HeadMatches(sess[r], h) /\ objects' = objects)
<1> DEFINE Kept == /\ InTx(r) /\ sess'[r] = sess[r] /\ hasMD5'[sess[r]] = hasMD5[sess[r]]
                   /\ h \in Verified(r) \/ (h \in Hash /\ HeadMatches(sess[r], h) /\ objects' = objects)
<1> SUFFICES Kept
  OBVIOUS
<1>1. InTx(r)'
  BY DEF Verified, InTx
<1>2. ASSUME InTx(r), pc'[r] = pc[r], sess'[r] = sess[r], Chunks(r)' = Chunks(r),
             Before(r)' = Before(r), hasMD5'[sess[r]] = hasMD5[sess[r]]
      PROVE  Kept
  BY <1>2 DEF Verified, InTx
<1>3. ASSUME NEW s \in Session, Client(s)
      PROVE  Kept
  <2>1. InTx(r)
    <3>1. UNCHANGED requestVars
      BY <1>3 DEF Client, Initiate, GetSession, ExpireURLs, PutObject
    <3> QED
      BY <1>1, <3>1 DEF InTx, requestVars
  <2> QED
    BY <1>2, <1>3, <2>1, ClientLeavesRequests
<1>4. ASSUME NEW s \in Session, Begin(r, s)
      PROVE  FALSE
  BY <1>4 DEF Begin, Before, Verified, TypeOK
<1>5. CASE \/ VerifyFails(r) \/ NoRowsFails(r) \/ DeadlockVictim(r)
           \/ ParentGone(r) \/ Abort(r) \/ (\E sent \in BOOLEAN : PublishJob(r, sent))
           \/ Commit(r) \/ Crash
  <2>1. ~InTx(r)'
    BY <1>5 DEF VerifyFails, NoRowsFails, DeadlockVictim, ParentGone, Abort, Rollback,
                PublishJob, Finish, Commit, Crash, StopRequests, InTx, TypeOK
  <2> QED
    BY <1>1, <2>1
<1>6. CASE VerifyBlock(r)
  <2>1. InTx(r) /\ UNCHANGED <<objects, sess, manifest, hasMD5>>
    BY <1>6 DEF InTx, VerifyBlock, sessionVars
  <2>2. \/ pc'[r] = "verify" /\ Before(r)' = Before(r) \cup {Chunk(r)}
        \/ pc'[r] = "upsert" /\ Range(Chunks(r)) = Before(r) \cup {Chunk(r)}
    BY <1>6, <2>1, AdvanceBefore DEF VerifyBlock
  <2>3. h \in Before(r) \cup {Chunk(r)}
    BY <2>1, <2>2 DEF Verified, InTx, Chunks
  <2> QED
    BY <1>6, <2>1, <2>3, ChunkOK DEF VerifyBlock, Verified
<1>7. CASE GetOrCreate(r) \/ GetOrCreateBlocks(r) \/ GetOrCreateWakes(r)
           \/ GetOrCreateFindsNoRows(r)
  <2>1. InTx(r) /\ pc[r] # "verify" /\ UNCHANGED <<sess, manifest, hasMD5>>
    BY <1>7 DEF InTx, GetOrCreate, GetOrCreateBlocks, GetOrCreateWakes,
                GetOrCreateFindsNoRows, sessionVars
  <2>2. pc'[r] # "verify"
    BY <1>7, <2>1, AdvanceTyped
       DEF TypeOK, GetOrCreate, GetOrCreateBlocks, GetOrCreateWakes,
           GetOrCreateFindsNoRows
  <2>3. h \in Range(Chunks(r))
    BY <1>1, <2>1, <2>2 DEF Verified, InTx, Chunks
  <2> QED
    BY <2>1, <2>3 DEF Verified
<1>8. ASSUME NEW q \in Request \ {r},
             (\E s \in Session : Begin(q, s)) \/ Proceed(q) \/ Abort(q)
      PROVE  Kept
  <2>1. UNCHANGED <<manifest, hasMD5>>
    BY <1>8 DEF Begin, Proceed, VerifyBlock, VerifyFails, GetOrCreate, GetOrCreateBlocks,
                GetOrCreateWakes, GetOrCreateFindsNoRows, NoRowsFails, DeadlockVictim,
                Commit, ParentGone, PublishJob, Abort, Rollback, sessionVars
  <2>2. pc'[r] = pc[r] /\ sess'[r] = sess[r] /\ cursor'[r] = cursor[r]
    BY <1>8 DEF Begin, Proceed, VerifyBlock, VerifyFails, GetOrCreate, GetOrCreateBlocks,
                GetOrCreateWakes, GetOrCreateFindsNoRows, NoRowsFails, DeadlockVictim,
                Commit, ParentGone, PublishJob, Abort, Rollback, Finish, Advance, TypeOK
  <2>3. InTx(r) /\ Chunks(r)' = Chunks(r) /\ Before(r)' = Before(r)
    BY <1>1, <2>1, <2>2 DEF Chunks, Before, InTx
  <2> QED
    BY <1>2, <2>1, <2>2, <2>3
<1>9. CASE UNCHANGED vars
  <2>1. /\ InTx(r) /\ pc'[r] = pc[r] /\ sess'[r] = sess[r] /\ hasMD5' = hasMD5
        /\ Chunks(r)' = Chunks(r) /\ Before(r)' = Before(r)
    BY <1>1, <1>9 DEF vars, sessionVars, requestVars, InTx, Chunks, Before
  <2> QED
    BY <1>2, <2>1
<1> QED
  BY <1>3, <1>4, <1>5, <1>6, <1>7, <1>8, <1>9 DEF Next, Proceed

-----------------------------------------------------------------------------
(* UploadService implements BlobCatalog.                                    *)

StoredInv == TypeOK /\ VerifiedChunksStored

LEMMA InitStored == Init => StoredInv
BY InitTyped DEF StoredInv, VerifiedChunksStored, Init, NothingStored, NoRequests, InTx,
               Verified

(* Nothing that the upload pipeline does takes an object out of the store.  *)
LEMMA StoredGrows ==
  ASSUME TypeOK, [Next]_vars
  PROVE  Stored \subseteq Stored'
<1>1. ASSUME NEW s \in Session, NEW h \in Hash, NEW c \in PutContents, PutObject(s, h, c)
      PROVE  Stored \subseteq Stored'
  BY <1>1, PutContentsAssumption DEF PutObject, Stored, TypeOK
<1>2. CASE UNCHANGED objects
  BY <1>2 DEF Stored
<1>3. \/ UNCHANGED objects
      \/ \E s \in Session, h \in Hash, c \in PutContents : PutObject(s, h, c)
  BY DEF Next, Client, Initiate, GetSession, ExpireURLs, Begin, Proceed, VerifyBlock,
         VerifyFails, GetOrCreate, GetOrCreateBlocks, GetOrCreateWakes,
         GetOrCreateFindsNoRows, NoRowsFails, DeadlockVictim, Commit, ParentGone,
         PublishJob, Abort, Rollback, Crash, StopRequests, vars
<1> QED
  BY <1>1, <1>2, <1>3

LEMMA NextStored ==
  ASSUME StoredInv, [Next]_vars
  PROVE  StoredInv'
<1> USE DEF StoredInv
<1>1. TypeOK' /\ Stored \subseteq Stored'
  BY NextTyped, StoredGrows
<1>2. files' \subseteq 1 .. nfiles'
  <2>1. ASSUME NEW r \in Request, Commit(r)
        PROVE  files' \subseteq 1 .. nfiles'
    BY <2>1 DEF Commit, VerifiedChunksStored, TypeOK
  <2>2. UNCHANGED catalogVars \/ \E r \in Request : Commit(r)
    BY DEF Next, Client, Initiate, GetSession, ExpireURLs, PutObject, Begin, Proceed,
           VerifyBlock, VerifyFails, GetOrCreate, GetOrCreateBlocks, GetOrCreateWakes,
           GetOrCreateFindsNoRows, NoRowsFails, DeadlockVictim, ParentGone,
           PublishJob, Abort, Rollback, Crash, StopRequests, vars
  <2> QED
    BY <2>1, <2>2 DEF VerifiedChunksStored, catalogVars
<1>3. ASSUME NEW r \in Request, NEW h \in Verified(r)'
      PROVE  h \in Stored'
  <2>1. h \in Verified(r) \/ (h \in Hash /\ HeadMatches(sess[r], h) /\ objects' = objects)
    BY <1>3, NextVerifies
  <2>2. CASE h \in Verified(r)
    BY <1>1, <2>2 DEF VerifiedChunksStored
  <2>3. CASE h \in Hash /\ HeadMatches(sess[r], h) /\ objects' = objects
    BY <2>3 DEF HeadMatches, Stored
  <2> QED
    BY <2>1, <2>2, <2>3
<1> QED
  BY <1>1, <1>2, <1>3 DEF VerifiedChunksStored

LEMMA InitCatalog == Init => Catalog!Init
BY DEF Init, NothingStored, Catalog!Init, Stored

(* A PUT stores a block, a COMMIT publishes a file, and nothing else that   *)
(* the upload pipeline does can be seen in the catalog.                     *)
LEMMA NextCatalog ==
  ASSUME StoredInv, [Next]_vars
  PROVE  [Catalog!Next]_(Catalog!vars)
<1> DEFINE listing == [f \in files |-> fileBlocks[f]]
<1>1. ASSUME NEW s \in Session, NEW h \in Hash, NEW c \in PutContents, PutObject(s, h, c)
      PROVE  Catalog!Store(h)
  <2>1. Stored' = Stored \cup {h}
    BY <1>1, PutContentsAssumption DEF PutObject, Stored, StoredInv, TypeOK
  <2>2. listing' = listing
    BY <1>1 DEF PutObject, catalogVars
  <2> QED
    BY <2>1, <2>2 DEF Catalog!Store
<1>2. ASSUME NEW r \in Request, Commit(r)
      PROVE  \E f \in FileId, m \in Manifests : Catalog!Publish(f, m)
  <2> DEFINE new == nfiles + 1
  <2>1. new \in FileId /\ new \notin files
    BY <1>2, MaxFilesAssumption DEF Commit, StoredInv, TypeOK, VerifiedChunksStored, FileId
  <2>2. Chunks(r) \in Manifests /\ Range(Chunks(r)) \subseteq Stored
    BY <1>2, ChunkOK DEF Commit, StoredInv, VerifiedChunksStored, InTx, Verified
  <2>3. Stored' = Stored
    BY <1>2 DEF Commit, Stored
  <2>4. files' = files \cup {new}
        /\ fileBlocks' = [fileBlocks EXCEPT ![new] = Chunks(r)]
    BY <1>2 DEF Commit
  <2>5. fileBlocks \in [FileId -> Manifests \cup {<<>>}] /\ files \subseteq FileId
    BY DEF StoredInv, TypeOK
  <2>6. listing' = [g \in DOMAIN listing \cup {new} |->
                      IF g = new THEN Chunks(r) ELSE listing[g]]
    <3> HIDE DEF new
    <3> QED
      BY <2>1, <2>4, <2>5
  <2>7. DOMAIN listing = files
    OBVIOUS
  <2>8. \E f \in FileId, m \in Manifests :
          /\ f \notin DOMAIN listing
          /\ Range(m) \subseteq Stored
          /\ listing' = [g \in DOMAIN listing \cup {f} |-> IF g = f THEN m ELSE listing[g]]
          /\ UNCHANGED Stored
    <3> HIDE DEF new, listing
    <3> QED
      BY <2>1, <2>2, <2>3, <2>6, <2>7
  <2> QED
    BY <2>8 DEF Catalog!Publish, Catalog!Range, Range
<1>3. CASE UNCHANGED <<objects, files, fileBlocks>>
  BY <1>3 DEF Catalog!vars, Stored
<1>4. \/ UNCHANGED <<objects, files, fileBlocks>>
      \/ \E s \in Session, h \in Hash, c \in PutContents : PutObject(s, h, c)
      \/ \E r \in Request : Commit(r)
  BY DEF Next, Client, Initiate, GetSession, ExpireURLs, Begin, Proceed, VerifyBlock,
         VerifyFails, GetOrCreate, GetOrCreateBlocks, GetOrCreateWakes,
         GetOrCreateFindsNoRows, NoRowsFails, DeadlockVictim, ParentGone,
         PublishJob, Abort, Rollback, Crash, StopRequests, vars, catalogVars
<1> QED
  BY <1>1, <1>2, <1>3, <1>4 DEF Catalog!Next

(* Sessions, transactions, retries and crashes add nothing to what a reader *)
(* of the block store can see: blocks being stored, and complete files of   *)
(* stored blocks being published.                                           *)
THEOREM UploadImplementsCatalog == Spec => ImplementsCatalog
<1>1. Spec => []StoredInv
  BY InitStored, NextStored, PTL DEF Spec
<1>2. Init => Catalog!Init
  BY InitCatalog
<1>3. StoredInv /\ [Next]_vars => [Catalog!Next]_(Catalog!vars)
  BY NextCatalog
<1> QED
  BY <1>1, <1>2, <1>3, PTL DEF Spec, ImplementsCatalog, Catalog!Spec

-----------------------------------------------------------------------------
(* Where blocks rows come from.                                             *)

(* Every row, committed or not, and every chunk a session takes for         *)
(* uploaded is of a block of K.                                             *)
RowsIn(K) ==
  /\ blockRows \subseteq K
  /\ \A r \in Request : inserted[r] \subseteq K
  /\ \A s \in Session : flagged[s] \subseteq K

(* The rows a request writes are those of chunks it has verified.           *)
LEMMA RequestRows ==
  ASSUME TypeOK, NEW K, RowsIn(K), \A q \in Request : Verified(q) \subseteq K,
         NEW r \in Request, (\E s \in Session : Begin(r, s)) \/ Proceed(r) \/ Abort(r)
  PROVE  RowsIn(K)'
<1>1. flagged' = flagged
  BY DEF Begin, Proceed, VerifyBlock, VerifyFails, GetOrCreate, GetOrCreateBlocks,
         GetOrCreateWakes, GetOrCreateFindsNoRows, NoRowsFails, DeadlockVictim, Commit,
         ParentGone, PublishJob, Abort, Rollback, sessionVars
<1>2. CASE GetOrCreate(r) \/ GetOrCreateWakes(r)
  <2>1. Chunk(r) \in K
    <3>1. InTx(r) /\ pc[r] # "verify"
      BY <1>2 DEF InTx, GetOrCreate, GetOrCreateWakes
    <3> QED
      BY <3>1, ChunkOK DEF Verified
  <2>2. blockRows' = blockRows
        /\ \A q \in Request : inserted'[q] \subseteq inserted[q] \cup {Chunk(r)}
    BY <1>2 DEF GetOrCreate, GetOrCreateWakes, catalogVars, TypeOK
  <2> QED
    BY <1>1, <2>1, <2>2 DEF RowsIn
<1>3. CASE Commit(r)
  BY <1>1, <1>3 DEF Commit, TypeOK, RowsIn
<1>4. \/ GetOrCreate(r) \/ GetOrCreateWakes(r) \/ Commit(r)
      \/ blockRows' = blockRows /\ \A q \in Request : inserted'[q] \subseteq inserted[q]
  BY DEF Begin, Proceed, VerifyBlock, VerifyFails, GetOrCreateBlocks,
         GetOrCreateFindsNoRows, NoRowsFails, DeadlockVictim,
         ParentGone, PublishJob, Abort, Rollback, catalogVars, TypeOK
<1> QED
  BY <1>1, <1>2, <1>3, <1>4 DEF RowsIn

(* Initiate marks as uploaded what has a row.                               *)
LEMMA NextRowsIn ==
  ASSUME TypeOK, NEW K, RowsIn(K), \A q \in Request : Verified(q) \subseteq K, [Next]_vars
  PROVE  RowsIn(K)'
<1>1. ASSUME NEW s \in Session, Client(s)
      PROVE  RowsIn(K)'
  <2>1. UNCHANGED <<blockRows, inserted>>
    BY <1>1 DEF Client, Initiate, GetSession, ExpireURLs, PutObject, catalogVars, requestVars
  <2>2. \A t \in Session : flagged'[t] \subseteq flagged[t] \cup blockRows
    <3>1. UNCHANGED flagged \/ \E m \in Manifests : flagged' = [flagged EXCEPT ![s] = Known(m)]
      BY <1>1 DEF Client, Initiate, GetSession, ExpireURLs, PutObject, sessionVars
    <3>2. \A m \in Manifests : Known(m) \subseteq blockRows
      BY DEF Known
    <3>3. flagged \in [Session -> SUBSET Hash]
      BY DEF TypeOK
    <3> QED
      BY <3>1, <3>2, <3>3
  <2> QED
    BY <2>1, <2>2 DEF RowsIn
<1>2. CASE Crash \/ UNCHANGED vars
  BY <1>2 DEF Crash, StopRequests, vars, sessionVars, catalogVars, requestVars, RowsIn
<1> QED
  BY <1>1, <1>2, RequestRows DEF Next

-----------------------------------------------------------------------------
(* One file per session.                                                    *)

(* While a Complete runs its session is INITIATED, as it was when it read   *)
(* the status; every file has completed a session of its own.               *)
SessionsUsedOnce ==
  /\ \A r \in Request : InTx(r) => status[sess[r]] = "INITIATED"
  /\ \A f \in 1 .. nfiles : origin[f] \in Session /\ status[origin[f]] = "COMPLETED"
  /\ OneFilePerSession

LEMMA CommitUsesOnce ==
  ASSUME TypeOK, SessionsUsedOnce, CompletesApart, NEW r \in Request, Commit(r)
  PROVE  SessionsUsedOnce'
<1> DEFINE new == nfiles + 1
           s == sess[r]
<1>1. InTx(r) /\ s \in Session /\ status[s] = "INITIATED"
  BY DEF SessionsUsedOnce, TypeOK, WellFormed, Commit, InTx
<1>2. new \in FileId /\ 1 .. nfiles' = (1 .. nfiles) \cup {new} /\ new \notin 1 .. nfiles
  BY MaxFilesAssumption DEF Commit, TypeOK, FileId
<1>3. /\ origin'[new] = s
      /\ \A f \in 1 .. nfiles : origin'[f] = origin[f]
  <2>1. 1 .. nfiles \subseteq FileId
    BY MaxFilesAssumption DEF TypeOK, FileId
  <2> QED
    BY <1>2, <2>1 DEF Commit, TypeOK
<1>4. status'[s] = "COMPLETED" /\ \A t \in Session \ {s} : status'[t] = status[t]
  BY <1>1 DEF Commit, TypeOK
<1>5. ASSUME NEW q \in Request, InTx(q)'
      PROVE  status'[sess'[q]] = "INITIATED"
  <2>1. q # r /\ InTx(q) /\ sess'[q] = sess[q]
    BY <1>5 DEF Commit, InTx, TypeOK
  <2>2. sess[q] # s /\ sess[q] \in Session
    BY <1>1, <2>1 DEF CompletesApart, TypeOK, WellFormed, InTx
  <2> QED
    BY <1>4, <2>1, <2>2 DEF SessionsUsedOnce
<1>6. \A f \in 1 .. nfiles : origin[f] \in Session \ {s}
  BY <1>1 DEF SessionsUsedOnce
<1>7. \A f \in 1 .. nfiles' : origin'[f] \in Session /\ status'[origin'[f]] = "COMPLETED"
  BY <1>1, <1>2, <1>3, <1>4, <1>6 DEF SessionsUsedOnce
<1>8. OneFilePerSession'
  <2> HIDE DEF new, s
  <2> QED
    BY <1>2, <1>3, <1>6 DEF SessionsUsedOnce, OneFilePerSession
<1> QED
  BY <1>5, <1>7, <1>8 DEF SessionsUsedOnce

LEMMA NextUsesOnce ==
  ASSUME TypeOK, SessionsUsedOnce, CompletesApart, [Next]_vars
  PROVE  SessionsUsedOnce'
<1>1. ASSUME UNCHANGED <<nfiles, origin>>,
             \A s \in Session : status[s] # "none" => status'[s] = status[s],
             \A r \in Request : InTx(r)' =>
               \/ InTx(r) /\ sess'[r] = sess[r]
               \/ sess'[r] \in Session /\ status[sess'[r]] = "INITIATED"
      PROVE  SessionsUsedOnce'
  <2>1. \A r \in Request : InTx(r) => sess[r] \in Session /\ status[sess[r]] = "INITIATED"
    BY DEF TypeOK, WellFormed, SessionsUsedOnce, InTx
  <2>2. \A r \in Request : InTx(r)' => status'[sess'[r]] = "INITIATED"
    BY <1>1, <2>1
  <2>3. \A f \in 1 .. nfiles' : origin'[f] \in Session /\ status'[origin'[f]] = "COMPLETED"
    BY <1>1 DEF SessionsUsedOnce
  <2>4. OneFilePerSession'
    BY <1>1 DEF SessionsUsedOnce, OneFilePerSession
  <2> QED
    BY <2>2, <2>3, <2>4 DEF SessionsUsedOnce
<1>2. ASSUME NEW s \in Session, Client(s)
      PROVE  SessionsUsedOnce'
  <2>1. UNCHANGED <<nfiles, origin, pc, sess>>
    BY <1>2 DEF Client, Initiate, GetSession, ExpireURLs, PutObject, catalogVars, requestVars
  <2>2. \A t \in Session : status[t] # "none" => status'[t] = status[t]
    BY <1>2 DEF Client, Initiate, GetSession, ExpireURLs, PutObject, sessionVars, TypeOK
  <2> QED
    BY <1>1, <2>1, <2>2 DEF InTx
<1>3. ASSUME NEW r \in Request, (\E s \in Session : Begin(r, s)) \/ Proceed(r) \/ Abort(r),
             ~Commit(r)
      PROVE  SessionsUsedOnce'
  <2>1. UNCHANGED <<nfiles, origin, status>>
    BY <1>3 DEF Begin, Proceed, VerifyBlock, VerifyFails, GetOrCreate, GetOrCreateBlocks,
                GetOrCreateWakes, GetOrCreateFindsNoRows, NoRowsFails, DeadlockVictim,
                ParentGone, PublishJob, Abort, Rollback, sessionVars, catalogVars
  <2>2. \A q \in Request \ {r} : pc'[q] = pc[q] /\ sess'[q] = sess[q]
    BY <1>3 DEF Begin, Proceed, VerifyBlock, VerifyFails, GetOrCreate, GetOrCreateBlocks,
                GetOrCreateWakes, GetOrCreateFindsNoRows, NoRowsFails, DeadlockVictim,
                ParentGone, PublishJob, Abort, Rollback, Finish, Advance, TypeOK
  <2>3. InTx(r)' => \/ InTx(r) /\ sess'[r] = sess[r]
                    \/ sess'[r] \in Session /\ status[sess'[r]] = "INITIATED"
    BY <1>3 DEF Begin, Proceed, VerifyBlock, VerifyFails, GetOrCreate, GetOrCreateBlocks,
                GetOrCreateWakes, GetOrCreateFindsNoRows, NoRowsFails, DeadlockVictim,
                ParentGone, PublishJob, Abort, Rollback, Finish, Advance, TypeOK, InTx
  <2> QED
    BY <1>1, <2>1, <2>2, <2>3 DEF InTx
<1>4. ASSUME NEW r \in Request, Commit(r)
      PROVE  SessionsUsedOnce'
  BY <1>4, CommitUsesOnce
<1>5. CASE Crash \/ UNCHANGED vars
  BY <1>1, <1>5 DEF Crash, StopRequests, vars, sessionVars, catalogVars, requestVars, InTx
<1> QED
  BY <1>2, <1>3, <1>4, <1>5 DEF Next

(* The only thing that can give a session two files is two Completes of it  *)
(* that overlap: as long as that does not happen, retries after a failure,  *)
(* a lost answer or a crash are harmless, however the Completes of other    *)
(* sessions are interleaved with them.                                      *)
THEOREM OneFileUnlessOverlap == Spec /\ []CompletesApart => []OneFilePerSession
<1>1. Init => SessionsUsedOnce
  BY DEF Init, NoSessions, NothingStored, NoRequests, SessionsUsedOnce, OneFilePerSession, InTx
<1>2. TypeOK /\ SessionsUsedOnce /\ CompletesApart /\ [Next]_vars => SessionsUsedOnce'
  BY NextUsesOnce
<1>3. SessionsUsedOnce => OneFilePerSession
  BY DEF SessionsUsedOnce
<1> QED
  BY <1>1, <1>2, <1>3, TypeCorrect, PTL DEF Spec
=============================================================================
