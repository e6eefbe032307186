---------------------------- MODULE UploadService ----------------------------
(***************************************************************************)
(* The upload pipeline: UploadService (Initiate, GetSession, Complete) with *)
(* the Postgres tables it writes (upload_sessions, session_blocks, blocks,  *)
(* files, file_blocks) and the object store the clients PUT blocks into.    *)
(*                                                                          *)
(* Every POST /api/upload/complete is a request r of its own: it runs one   *)
(* READ COMMITTED transaction, statement by statement, interleaved with the *)
(* other requests and with client PUTs.  What a transaction has inserted    *)
(* into blocks and not yet committed is inserted[r]; the unique index on    *)
(* sha256 makes other inserters of the same hash wait for it.               *)
(***************************************************************************)
EXTENDS Naturals, Sequences, FiniteSets, Functions

CONSTANTS
  Hash,          \* block hashes: the sha256 names of objects and of blocks rows
  Session,       \* upload_sessions ids
  NoSession,     \* the session of a request that is not running
  Request,       \* concurrent POST /api/upload/complete requests
  Folder,        \* ids a session may name as parent_id: folders or not
  Root,          \* parent_id NULL
  MaxFiles,      \* bound: how many files rows are ever created
  Manifests,     \* bound: the chunk lists a client may declare
  MD5Choices,    \* bound: whether the client declares block_md5
  PutContents    \* bound: what a PUT may leave in the object store

(* What HeadObject can tell about an object: not there, wrong length, right *)
(* length but another MD5, or exactly the declared bytes.                   *)
Content == {"absent", "truncated", "altered", "ok"}

ASSUME ManifestsAssumption == Manifests \subseteq Seq(Hash) \ {<<>>}
ASSUME MaxFilesAssumption == MaxFiles \in Nat
ASSUME MD5ChoicesAssumption == MD5Choices \subseteq BOOLEAN
ASSUME PutContentsAssumption == PutContents \subseteq Content \ {"absent"}
ASSUME NoSessionAssumption == NoSession \notin Session
ASSUME RootAssumption == Root \notin Folder

FileId == 1 .. MaxFiles
Parent == Folder \cup {Root}

VARIABLES
  objects,       \* object store: what is stored under blocks/<hash>
  blockRows,     \* blocks: the committed sha256 values
  status,        \* upload_sessions.status ("none": no such row yet)
  manifest,      \* session_blocks.block_hash in sequence_number order
  flagged,       \* hashes of the session_blocks with is_uploaded = TRUE
  hasMD5,        \* session_blocks.block_md5 is not empty
  parent,        \* upload_sessions.parent_id
  urls,          \* hashes the client of the session holds a live upload URL for
  folders,       \* files rows with is_directory
  files,         \* the other files rows, numbered in order of creation
  nfiles,        \* how many file ids were used so far
  fileBlocks,    \* file_blocks: hashes of a file in sequence_number order
  fileParent,    \* files.parent_id
  origin,        \* history: the session a file was created from
  jobs,          \* files a thumbnail job was published for
  pc,            \* where a request is in Complete
  sess,          \* the session a request completes
  cursor,        \* the chunk a request works on
  inserted,      \* blocks rows a request inserted and did not commit
  newFile        \* the file a request created

sessionVars == <<status, manifest, flagged, hasMD5, parent>>
catalogVars == <<blockRows, folders, files, nfiles, fileBlocks, fileParent, origin>>
requestVars == <<pc, sess, cursor, inserted, newFile>>
vars == <<objects, urls, jobs, sessionVars, catalogVars, requestVars>>

-----------------------------------------------------------------------------
(* The chunk list of the session a request completes, the chunk it works    *)
(* on, and whether its transaction is open.                                 *)
Chunks(r) == manifest[sess[r]]
Chunk(r) == Chunks(r)[cursor[r]]
InTx(r) == pc[r] \in {"verify", "upsert", "wait", "norows", "commit"}

-----------------------------------------------------------------------------
(* A session that exists has chunks; a running request has a session that   *)
(* exists, a place in its chunk list and, once committed, a file.           *)
WellFormed ==
  /\ \A s \in Session : status[s] = "none" \/ manifest[s] \in Manifests
  /\ \A r \in Request :
       /\ pc[r] # "idle" => sess[r] \in Session /\ status[sess[r]] # "none"
       /\ InTx(r) => cursor[r] \in 1 .. Len(Chunks(r))
       /\ pc[r] = "publish" => newFile[r] \in 1 .. nfiles

(* Every variable has its type, and requests and sessions fit together:     *)
(* Complete indexes the chunk list of the session it loaded only within it. *)
TypeOK ==
  /\ objects \in [Hash -> Content]
  /\ blockRows \subseteq Hash
  /\ status \in [Session -> {"none", "INITIATED", "COMPLETED"}]
  /\ manifest \in [Session -> Manifests \cup {<<>>}]
  /\ flagged \in [Session -> SUBSET Hash]
  /\ hasMD5 \in [Session -> BOOLEAN]
  /\ parent \in [Session -> Parent]
  /\ urls \in [Session -> SUBSET Hash]
  /\ folders \subseteq Folder
  /\ files \subseteq FileId
  /\ nfiles \in 0 .. MaxFiles
  /\ fileBlocks \in [FileId -> Manifests \cup {<<>>}]
  /\ fileParent \in [FileId -> Parent]
  /\ origin \in [FileId -> Session \cup {NoSession}]
  /\ jobs \subseteq FileId
  /\ pc \in [Request -> {"idle", "verify", "upsert", "wait", "norows", "commit",
                         "publish"}]
  /\ sess \in [Request -> Session \cup {NoSession}]
  /\ cursor \in [Request -> Nat]
  /\ inserted \in [Request -> SUBSET Hash]
  /\ newFile \in [Request -> 0 .. MaxFiles]
  /\ WellFormed

NoSessions ==
  /\ status = [s \in Session |-> "none"]
  /\ manifest = [s \in Session |-> <<>>]
  /\ hasMD5 = [s \in Session |-> FALSE]
  /\ parent = [s \in Session |-> Root]
  /\ urls = [s \in Session |-> {}]

NothingStored ==
  /\ objects = [h \in Hash |-> "absent"]
  /\ blockRows = {}
  /\ flagged = [s \in Session |-> {}]
  /\ folders \in SUBSET Folder
  /\ files = {}
  /\ nfiles = 0
  /\ fileBlocks = [f \in FileId |-> <<>>]
  /\ fileParent = [f \in FileId |-> Root]
  /\ origin = [f \in FileId |-> NoSession]
  /\ jobs = {}

NoRequests ==
  /\ pc = [r \in Request |-> "idle"]
  /\ sess = [r \in Request |-> NoSession]
  /\ cursor = [r \in Request |-> 0]
  /\ inserted = [r \in Request |-> {}]
  /\ newFile = [r \in Request |-> 0]

Init == NoSessions /\ NothingStored /\ NoRequests

-----------------------------------------------------------------------------
(* Sessions and the client's side of an upload.                             *)

(* Session blocks without is_uploaded: the ones that get an upload URL.     *)
Pending(s) == Range(manifest[s]) \ flagged[s]

(* Wrong Known: a chunk counts as present once some session declared it.    *)
KnownOnceDeclared(m) == Range(m) \cap UNION {Range(manifest[s]) : s \in Session}

(* GetMultipleByHashes: the deduplication check asks the blocks table, not  *)
(* the object store.                                                        *)
Known(m) == Range(m) \cap blockRows

(* POST /api/upload/initiate.  The lookup and the insert of the session are *)
(* two statements; nobody can use the session in between, so the step is    *)
(* taken at the lookup.  parent_id is stored without being looked at.       *)
Initiate(s, m, p, md5) ==
  /\ status[s] = "none"
  /\ status' = [status EXCEPT ![s] = "INITIATED"]
  /\ manifest' = [manifest EXCEPT ![s] = m]
  /\ flagged' = [flagged EXCEPT ![s] = Known(m)]
  /\ hasMD5' = [hasMD5 EXCEPT ![s] = md5]
  /\ parent' = [parent EXCEPT ![s] = p]
  /\ urls' = [urls EXCEPT ![s] = Range(m) \ Known(m)]
  /\ UNCHANGED <<objects, jobs, catalogVars, requestVars>>

(* GET /api/upload/session/{id}: fresh URLs while the session is INITIATED. *)
GetSession(s) ==
  /\ status[s] = "INITIATED"
  /\ urls' = [urls EXCEPT ![s] = Pending(s)]
  /\ UNCHANGED <<objects, jobs, sessionVars, catalogVars, requestVars>>

(* The URLs of a session are signed for 30 minutes.                         *)
ExpireURLs(s) ==
  /\ urls[s] # {}
  /\ urls' = [urls EXCEPT ![s] = {}]
  /\ UNCHANGED <<objects, jobs, sessionVars, catalogVars, requestVars>>

(* A client PUTs a block with a URL it holds: also again, and also after    *)
(* the session was completed.  The bytes are not compared with the name, and *)
(* what was stored before is replaced, atomically.                          *)
PutObject(s, h, c) ==
  /\ h \in urls[s]
  /\ objects' = [objects EXCEPT ![h] = c]
  /\ UNCHANGED <<urls, jobs, sessionVars, catalogVars, requestVars>>

-----------------------------------------------------------------------------
(* Complete: the transaction, one database or storage call per step.        *)

(* The request returns, whatever became of its transaction.                 *)
Finish(r) ==
  /\ pc' = [pc EXCEPT ![r] = "idle"]
  /\ sess' = [sess EXCEPT ![r] = NoSession]
  /\ cursor' = [cursor EXCEPT ![r] = 0]
  /\ newFile' = [newFile EXCEPT ![r] = 0]

(* Wrong Rollback: the connection goes back to the pool inside its          *)
(* transaction, which keeps its rows locked.                                *)
RollbackKeepsLocks(r) ==
  /\ Finish(r)
  /\ UNCHANGED <<objects, urls, jobs, sessionVars, catalogVars, inserted>>

(* RunInTx rolls back: the uncommitted blocks rows go, waiters may go on.   *)
Rollback(r) ==
  /\ Finish(r)
  /\ inserted' = [inserted EXCEPT ![r] = {}]
  /\ UNCHANGED <<objects, urls, jobs, sessionVars, catalogVars>>

(* BEGIN and GetSessionByID: a plain SELECT.  A session that is not         *)
(* INITIATED is rejected, which changes nothing.                            *)
Begin(r, s) ==
  /\ pc[r] = "idle"
  /\ status[s] = "INITIATED"
  /\ pc' = [pc EXCEPT ![r] = "verify"]
  /\ sess' = [sess EXCEPT ![r] = s]
  /\ cursor' = [cursor EXCEPT ![r] = 1]
  /\ UNCHANGED <<objects, urls, jobs, sessionVars, catalogVars, inserted, newFile>>

(* Wrong HeadMatches: an object that is not found passes.                   *)
HeadMatchesMissing(s, h) == objects[h] \in {"absent", "ok"}

(* What HeadObject must report for the chunk of a session: the length, and  *)
(* the ETag when the client declared an MD5.                                *)
HeadMatches(s, h) ==
  /\ objects[h] \in {"altered", "ok"}
  /\ hasMD5[s] => objects[h] = "ok"

(* Wrong Advance: one past the last chunk.                                  *)
AdvancePastEnd(r, phase, next) ==
  IF cursor[r] <= Len(Chunks(r))
  THEN /\ pc' = [pc EXCEPT ![r] = phase]
       /\ cursor' = [cursor EXCEPT ![r] = @ + 1]
  ELSE /\ pc' = [pc EXCEPT ![r] = next]
       /\ cursor' = [cursor EXCEPT ![r] = 1]

(* Go on with the next chunk, or with the first one of the next phase.      *)
Advance(r, phase, next) ==
  IF cursor[r] < Len(Chunks(r))
  THEN /\ pc' = [pc EXCEPT ![r] = phase]
       /\ cursor' = [cursor EXCEPT ![r] = @ + 1]
  ELSE /\ pc' = [pc EXCEPT ![r] = next]
       /\ cursor' = [cursor EXCEPT ![r] = 1]

(* Wrong VerifyBlock: the result of the last chunk decides for all.         *)
VerifyLastBlock(r) ==
  /\ pc[r] = "verify"
  /\ cursor[r] < Len(Chunks(r)) \/ HeadMatches(sess[r], Chunk(r))
  /\ Advance(r, "verify", "upsert")
  /\ UNCHANGED <<objects, urls, jobs, sessionVars, catalogVars, sess, inserted, newFile>>

(* Wrong VerifyBlock: chunks that Initiate found to exist are not looked at. *)
VerifyUnflagged(r) ==
  /\ pc[r] = "verify"
  /\ Chunk(r) \in flagged[sess[r]] \/ HeadMatches(sess[r], Chunk(r))
  /\ Advance(r, "verify", "upsert")
  /\ UNCHANGED <<objects, urls, jobs, sessionVars, catalogVars, sess, inserted, newFile>>

(* Verification of one chunk: HeadObject on the object store.               *)
VerifyBlock(r) ==
  /\ pc[r] = "verify"
  /\ HeadMatches(sess[r], Chunk(r))
  /\ Advance(r, "verify", "upsert")
  /\ UNCHANGED <<objects, urls, jobs, sessionVars, catalogVars, sess, inserted, newFile>>

VerifyFails(r) ==
  /\ pc[r] = "verify"
  /\ ~HeadMatches(sess[r], Chunk(r))
  /\ Rollback(r)

(* Another transaction has inserted the row of h and is still running.      *)
HeldByOther(r, h) == \E q \in Request \ {r} : h \in inserted[q]

(* The statement's snapshot contains the row of h.                          *)
RowVisible(r, h) == h \in blockRows \cup inserted[r]

(* Wrong GetOrCreate: no unique index, so nothing makes an INSERT wait.     *)
GetOrCreateUnindexed(r) ==
  /\ pc[r] = "upsert"
  /\ inserted' = [inserted EXCEPT ![r] = @ \cup ({Chunk(r)} \ blockRows)]
  /\ Advance(r, "upsert", "commit")
  /\ UNCHANGED <<objects, urls, jobs, sessionVars, catalogVars, sess, newFile>>

(* GetOrCreate finds the row, or inserts it because nobody else is.         *)
GetOrCreate(r) ==
  /\ pc[r] = "upsert"
  /\ RowVisible(r, Chunk(r)) \/ ~HeldByOther(r, Chunk(r))
  /\ inserted' = [inserted EXCEPT ![r] = @ \cup ({Chunk(r)} \ blockRows)]
  /\ Advance(r, "upsert", "commit")
  /\ UNCHANGED <<objects, urls, jobs, sessionVars, catalogVars, sess, newFile>>

(* INSERT ... ON CONFLICT meets an uncommitted row and waits.  The snapshot *)
(* of the statement, without that row, is already taken.                    *)
GetOrCreateBlocks(r) ==
  /\ pc[r] = "upsert"
  /\ ~RowVisible(r, Chunk(r))
  /\ HeldByOther(r, Chunk(r))
  /\ pc' = [pc EXCEPT ![r] = "wait"]
  /\ UNCHANGED <<objects, urls, jobs, sessionVars, catalogVars,
                 sess, cursor, inserted, newFile>>

(* Wrong GetOrCreateWakes: a conflict is taken for a row that exists, also  *)
(* when its inserter rolled back.                                           *)
GetOrCreateWakesUnchecked(r) ==
  /\ pc[r] = "wait"
  /\ ~HeldByOther(r, Chunk(r))
  /\ Chunk(r) \notin blockRows
  /\ Advance(r, "upsert", "commit")
  /\ UNCHANGED <<objects, urls, jobs, sessionVars, catalogVars, sess, inserted, newFile>>

(* The row's inserter rolled back: the waiting INSERT goes through.         *)
GetOrCreateWakes(r) ==
  /\ pc[r] = "wait"
  /\ ~HeldByOther(r, Chunk(r))
  /\ Chunk(r) \notin blockRows
  /\ inserted' = [inserted EXCEPT ![r] = @ \cup {Chunk(r)}]
  /\ Advance(r, "upsert", "commit")
  /\ UNCHANGED <<objects, urls, jobs, sessionVars, catalogVars, sess, newFile>>

(* The row's inserter committed: ON CONFLICT DO NOTHING returns no row and  *)
(* the SELECT half reads the old snapshot, so the query has no rows at all. *)
GetOrCreateFindsNoRows(r) ==
  /\ pc[r] = "wait"
  /\ ~HeldByOther(r, Chunk(r))
  /\ Chunk(r) \in blockRows
  /\ pc' = [pc EXCEPT ![r] = "norows"]
  /\ UNCHANGED <<objects, urls, jobs, sessionVars, catalogVars,
                 sess, cursor, inserted, newFile>>

NoRowsFails(r) ==
  /\ pc[r] = "norows"
  /\ Rollback(r)

(* Request r waits for a row that q inserted.                               *)
WaitsFor(r, q) == pc[r] = "wait" /\ q # r /\ Chunk(r) \in inserted[q]

(* Members of S wait for each other in a cycle or cycles.                   *)
WaitCycle(S) ==
  \A r \in S : /\ \E q \in S : WaitsFor(r, q)
               /\ \E q \in S : WaitsFor(q, r)

(* Postgres aborts one transaction of a wait cycle.                         *)
DeadlockVictim(r) ==
  /\ pc[r] = "wait"
  /\ \E S \in SUBSET Request : r \in S /\ WaitCycle(S)
  /\ Rollback(r)

(* Wrong Commit: the session's status is not part of the transaction.       *)
CommitKeepsStatus(r) ==
  LET s == sess[r]
      f == nfiles + 1
  IN /\ pc[r] = "commit"
     /\ parent[s] \in folders \cup {Root}
     /\ nfiles < MaxFiles
     /\ nfiles' = f
     /\ files' = files \cup {f}
     /\ fileBlocks' = [fileBlocks EXCEPT ![f] = Chunks(r)]
     /\ fileParent' = [fileParent EXCEPT ![f] = parent[s]]
     /\ origin' = [origin EXCEPT ![f] = s]
     /\ blockRows' = blockRows \cup inserted[r]
     /\ inserted' = [inserted EXCEPT ![r] = {}]
     /\ pc' = [pc EXCEPT ![r] = "publish"]
     /\ newFile' = [newFile EXCEPT ![r] = f]
     /\ UNCHANGED <<objects, urls, jobs, sessionVars, folders, sess, cursor>>

(* The rest of the transaction touches only rows nobody else sees before    *)
(* the COMMIT: files.Create, LinkBlocksToFile, GrantPermission and the      *)
(* session's status.  The status is not read again.                         *)
Commit(r) ==
  LET s == sess[r]
      f == nfiles + 1
  IN /\ pc[r] = "commit"
     /\ parent[s] \in folders \cup {Root}
     /\ nfiles < MaxFiles
     /\ nfiles' = f
     /\ files' = files \cup {f}
     /\ fileBlocks' = [fileBlocks EXCEPT ![f] = Chunks(r)]
     /\ fileParent' = [fileParent EXCEPT ![f] = parent[s]]
     /\ origin' = [origin EXCEPT ![f] = s]
     /\ blockRows' = blockRows \cup inserted[r]
     /\ inserted' = [inserted EXCEPT ![r] = {}]
     /\ status' = [status EXCEPT ![s] = "COMPLETED"]
     /\ pc' = [pc EXCEPT ![r] = "publish"]
     /\ newFile' = [newFile EXCEPT ![r] = f]
     /\ UNCHANGED <<objects, urls, jobs, manifest, flagged, hasMD5, parent,
                    folders, sess, cursor>>

(* The parent folder was deleted since Initiate: foreign key violation.     *)
ParentGone(r) ==
  /\ pc[r] = "commit"
  /\ parent[sess[r]] \notin folders \cup {Root}
  /\ Rollback(r)

(* Any call of the transaction may fail, or the client go away: rollback.   *)
Abort(r) ==
  /\ InTx(r)
  /\ Rollback(r)

(* After the commit: the thumbnail job, whose loss does not fail the        *)
(* request.  The notification and the audit entry that follow change        *)
(* nothing here.                                                            *)
PublishJob(r, sent) ==
  /\ pc[r] = "publish"
  /\ jobs' = IF sent THEN jobs \cup {newFile[r]} ELSE jobs
  /\ Finish(r)
  /\ UNCHANGED <<objects, urls, sessionVars, catalogVars, inserted>>

(* The API process dies: its transactions are rolled back by Postgres, and  *)
(* a job that was still to be published is forgotten.                       *)
StopRequests ==
  /\ pc' = [r \in Request |-> "idle"]
  /\ sess' = [r \in Request |-> NoSession]
  /\ cursor' = [r \in Request |-> 0]
  /\ newFile' = [r \in Request |-> 0]
  /\ inserted' = [r \in Request |-> {}]
  /\ UNCHANGED <<objects, urls, jobs, sessionVars, catalogVars>>

Crash ==
  /\ \E r \in Request : pc[r] # "idle"
  /\ StopRequests

-----------------------------------------------------------------------------
Client(s) ==
  \/ \E m \in Manifests, p \in Parent, md5 \in MD5Choices : Initiate(s, m, p, md5)
  \/ GetSession(s)
  \/ ExpireURLs(s)
  \/ \E h \in Hash, c \in PutContents : PutObject(s, h, c)

(* What a request does once it runs, as far as the code decides it.         *)
Proceed(r) ==
  \/ VerifyBlock(r)
  \/ VerifyFails(r)
  \/ GetOrCreate(r)
  \/ GetOrCreateBlocks(r)
  \/ GetOrCreateWakes(r)
  \/ GetOrCreateFindsNoRows(r)
  \/ NoRowsFails(r)
  \/ DeadlockVictim(r)
  \/ Commit(r)
  \/ ParentGone(r)
  \/ \E sent \in BOOLEAN : PublishJob(r, sent)

Next ==
  \/ \E s \in Session : Client(s)
  \/ \E r \in Request : \/ \E s \in Session : Begin(r, s)
                        \/ Proceed(r)
                        \/ Abort(r)
  \/ Crash

Spec == Init /\ [][Next]_vars

(* A goroutine that runs is scheduled, and Postgres breaks deadlocks; no    *)
(* client has to do anything.  A transaction that ends grants the lock its  *)
(* waiters sleep on, so later transactions do not overtake one for ever.    *)
Fairness ==
  \A r \in Request : WF_vars(Proceed(r)) /\ SF_vars(GetOrCreateWakes(r))

FairSpec == Spec /\ Fairness

-----------------------------------------------------------------------------
(* Properties.                                                              *)

(* The foreign key of file_blocks holds although transactions insert the    *)
(* rows of blocks for each other's files and may roll back: what a file     *)
(* links to was committed, by its own transaction or by an earlier one.     *)
LinkedRowsExist ==
  \A f \in files : Range(fileBlocks[f]) \subseteq blockRows

(* Single-instance storage: no two transactions ever hold, and none repeats, *)
(* a blocks row for one hash.                                               *)
OneRowPerHash ==
  \A r \in Request :
    /\ inserted[r] \cap blockRows = {}
    /\ \A q \in Request \ {r} : inserted[r] \cap inserted[q] = {}

(* One session gives one file, however often Complete is called for it: a   *)
(* client that lost the response, or met a crash, calls it again.           *)
OneFilePerSession ==
  \A f, g \in 1 .. nfiles : origin[f] = origin[g] => f = g

(* No two Completes of one session are in their transactions at a time.     *)
CompletesApart ==
  \A q, r \in Request : InTx(q) /\ InTx(r) /\ sess[q] = sess[r] => q = r

(* What a transaction has behind it, for the inductive invariants: the      *)
(* chunks of the current phase before the one it works on.                  *)
Before(r) == {Chunks(r)[i] : i \in 1 .. (cursor[r] - 1)}

(* A transaction has, or has inserted, the blocks rows of the chunks it has *)
(* upserted so far.                                                         *)
UpsertedRowsExist ==
  \A r \in Request :
    /\ pc[r] \in {"upsert", "wait", "norows"} => Before(r) \subseteq blockRows \cup inserted[r]
    /\ pc[r] = "commit" => Range(Chunks(r)) \subseteq blockRows \cup inserted[r]

Stored == {h \in Hash : objects[h] # "absent"}

(* The chunks that a transaction has verified so far.                       *)
Verified(r) ==
  IF pc[r] = "verify" THEN Before(r) ELSE IF InTx(r) THEN Range(Chunks(r)) ELSE {}

(* What was verified is still stored, and file ids are not used twice.      *)
VerifiedChunksStored ==
  /\ \A r \in Request : Verified(r) \subseteq Stored
  /\ files \subseteq 1 .. nfiles

(* The upload pipeline implements the abstract catalog: whatever the clients *)
(* and the transactions do, a file appears in one step, with exactly its    *)
(* session's chunk list, while all of its blocks are stored.                *)
Catalog == INSTANCE BlobCatalog WITH
             ChunkList <- Manifests,
             stored <- Stored,
             catalog <- [f \in files |-> fileBlocks[f]]

ImplementsCatalog == Catalog!Spec

(* Every Complete request returns: waiting for other transactions' rows     *)
(* never lasts forever, not even when they wait for each other.  (When no   *)
(* file id is left the bound MaxFiles holds a request up, not the code.)    *)
RequestsReturn ==
  \A r \in Request : pc[r] # "idle" ~> pc[r] = "idle" \/ nfiles = MaxFiles
=============================================================================
