# Blob-Cloud in TLA+

Blob-Cloud is a deduplicating file store: a Go API server in front of Postgres
and an object store, a thumbnail worker, an orphan collector, and a React
client.  A file is a list of content-hashed blocks; every block is stored once
under `blocks/<sha256>` however many files use it.  This directory holds a
formal model of the parts where that sharing, and the concurrency around it,
can go wrong.  Paths below are relative to `src/`.

## 1. Inventory

| Component | State it keeps | Operations | Hard behaviour | What makes it correct |
|---|---|---|---|---|
| **Upload service** `backend/internal/service/upload_service.go` | `upload_sessions`, `session_blocks`, new rows of `files`, `blocks`, `file_blocks` | `Initiate`, `GetSession`, `Complete` | `Complete` is one READ COMMITTED transaction with object-store calls inside; several run at once, wait for each other's rows, fail anywhere and are retried | a committed file has all its blocks in the store; one session gives one file; a block is taken to be there only if it was stored; requests return |
| **Permanent deletion** `service/file_service.go`, `repository/postgres/file.go` | removes `files` and `file_blocks` rows, deletes objects | `PermanentDelete`, `BulkHardDelete`, `garbageCollectBlocks` | three separate statements, object deletion in a goroutine after the response | never deletes the object of a block in use; forgets none |
| **Orphan collector** `gc/collector.go`, `cmd/gc/main.go` | a listing of keys, a copy of the blocks table | `Run` | works on stale copies while the API goes on | as above |
| **Object storage drivers** `storage/local.go`, `storage/s3.go` | objects by key | put, head, get, ranged get, delete, list, presign, multi-part | atomic replacement, URL expiry | an object is whole or absent |
| **File tree** `service/file_service.go`, `repository/postgres/file.go` | `files.parent_id`, `name`, `deleted_at`, `target_id` | create folder, rename/move, trash, restore, shortcuts, list, bulk variants | read-modify-write without locks, recursive queries | the parents form a forest; every row is found from the root or the trash; a folder name is there once |
| **Permissions and sharing** `repository/postgres/permission.go`, `transport/http/share_handlers.go` | `permissions` | grant, resolve, check | inheritance along ancestors, two resolvers | the two resolvers agree |
| **Download, range, archive** `transport/http/file_handlers.go`, `service/zip_service.go` | none but the request's | range, block offsets, streaming, archives | boundaries; files deleted while they are streamed; errors after the status was sent | the bytes announced, no others; "completed" means all of them |
| **Notification hub** `sync/hub.go`, `transport/http/websocket_handlers.go` | clients per user, channels | register, unregister, notify, shutdown | goroutines and bounded channels, slow clients, shutdown | a sender is never stuck; no send on a closed channel; one writer per connection; no goroutine stays behind |
| **Redis backplane** `sync/backplane.go` | subscription | publish, dispatch | redelivery to the publisher | each client hears of it, on every instance |
| **Thumbnail queue** `queue/publisher.go`, `queue/worker.go`, `queue/processor.go` | SQS messages, thumbnails | publish, poll, process, delete | at-least-once delivery, retry, cancelled context, jobs that can never be done | a job is kept until it is done, and is done in the end |
| **Authentication** `transport/http/auth_handlers.go`, `repository/postgres/session_repository.go`, `user.go` | users, sessions, codes, reset tokens | register, verify, log in, Google, refresh, forgot, reset and change password, log out, revoke | check-then-act over several statements, none of it in a transaction | nobody is signed in unverified; a change of the password ends the sessions of before |
| **Rate limiting** `ratelimit/` | buckets | `Allow` | refill arithmetic, eviction, Redis failures | bounded rate, bounded memory |
| **Start-up and shutdown** `cmd/api/main.go` | goroutines | stop workers, hub, server | order, parts that wait for each other | the process ends |
| **Audit log** `audit/` | append-only rows | record, list | none | - |
| **Edge validator** `workers/edge_validator.js` | none | refuse a PUT whose bytes do not have the name's SHA-256 | none, where it is deployed | - |
| **Frontend upload job** `frontend/src/context/UploadContext.tsx` | jobs per file | initiate, PUT, complete | aborts and partial failure | a job ends |
| **Frontend WebSocket client** `frontend/src/hooks/useWebSocket.ts` | socket, timers | connect, back off, watchdog | stale callbacks | at most one live socket |
| **Frontend authentication** `frontend/src/lib/token.ts`, `lib/api.ts` | tokens, refresh promise | refresh, retry | concurrent 401s | one refresh, one retry |
| Pages and components, configuration, migrations runner, mail, metrics | - | - | presentation or plain input/output | - |

How they interact: clients call the HTTP handlers; `Initiate` hands out URLs
with which the client PUTs blocks straight to the object store; `Complete`
verifies them there and writes the tables; after its commit it publishes a
thumbnail job to SQS and notifies the hub, which other instances hear through
Redis; deletions delete objects in the background; the collector is a separate
process that only shares the tables and the object store.

`PROJECT.json` lists the same components with their status, and under
`hazards` each place of the code where one of these behaviours bites, with the
property that watches over it or the reason why none does.

## 2. Modules

    BlobCatalog  <----implements----  UploadService
              ^                         ^       ^
              |                  FileDeletion  Collector
              |                         ^       ^
              +-----implements--------  BlockStore
    UploadHistory                       UploadService and the PUTs that came late
    FileTree                            the folders the files are in
    FileDownload                        reading files while they are deleted

    NotificationHub  ThumbnailQueue
                ^      ^
               ApiProcess               handlers, workers, hub and main
    AuthSessions                        accounts and signed-in devices

    MCUploadService, MCUploadHistory, MCBlockStore, MCFileTree,
    MCFileDownload, MCApiProcess, MCAuthSessions             instances for TLC
    UploadService_proofs, UploadHistory_proofs, BlockStore_proofs,
    FileTree_proofs, FileDownload_proofs, ApiProcess_proofs,
    AuthSessions_proofs                                      theorems

* **BlobCatalog** is the abstract specification: stored blocks and a catalog of
  files.  A file is published in one step, when all its blocks are stored; files
  are removed, and a block that no file of the catalog uses may be reclaimed.
* **UploadService** is the upload pipeline.  Each `POST /api/upload/complete` is
  a request `r` with its own program counter; one action per statement or
  storage call:

  | Code | Action |
  |---|---|
  | `Initiate` with `GetMultipleByHashes` and `CreateSession` | `Initiate` |
  | `GetSession` with fresh URLs | `GetSession`; `ExpireURLs` for the 30 minutes |
  | client's PUT through a URL (`HandlePutBlock`, `PutObject`, or S3) | `PutObject` |
  | `BEGIN`, `GetSessionByID`, status check | `Begin` |
  | `HeadObject`, size and ETag of one chunk | `VerifyBlock`, `VerifyFails` |
  | `blocks.GetOrCreate` of one chunk | `GetOrCreate`, `GetOrCreateBlocks`, `GetOrCreateWakes`, `GetOrCreateFindsNoRows`, `NoRowsFails` |
  | `files.Create`, `LinkBlocksToFile`, permission, status, `COMMIT` | `Commit`, `ParentGone` |
  | any error or cancelled context | `Abort` |
  | publishing the job, notification, return | `PublishJob` |
  | Postgres's deadlock detector | `DeadlockVictim` |
  | the process dies | `Crash` |

  Postgres is not under `src/`: its unique index, snapshots, row locks and
  deadlock detection are modelled from how the queries use them (`inserted[r]`
  are the blocks rows a transaction has inserted and not committed) and marked
  external in the map.
* **UploadHistory** is UploadService with a record of the blocks that were PUT anew:
  `replaced[r]` since the transaction of `r` verified them, `replacedIn[f]` since the
  Complete of the file `f` did.  A URL goes on working after its block was verified
  and after the session was completed, and neither `HandlePutBlock` nor
  `LocalStore.PutObject` compares the bytes with the name or asks who uses the
  block.  The record, which the code does not keep, says where the promise to
  readers ends (`DamageOnlyByOverwrite`).
* **FileDeletion** adds the delete requests: `PermanentDelete` (three statements
  that commit one by one), `BulkHardDelete` (one transaction over a list of ids,
  whose deletes `dels[d]` nobody else sees before `CommitBulk`), and the
  goroutine that deletes the orphaned objects one after the other.
* **Collector** is `cmd/gc`: `ListKeys`, `LoadHashes`, `Sweep` per object.
* **BlockStore** composes the three: uploads, deletions, sweeps and crashes
  interleaved over the same tables and objects.  `ParentUnlocked` is the lock
  that makes `INSERT INTO files` wait for a deletion of the parent.  `exposed` is
  a history variable: the blocks of a file that were gone, or that somebody had
  already decided to delete, when the file was committed.  `SafeFiles` are those
  with none such, and with them as its catalog the whole store implements
  BlobCatalog (`ImplementsSafeCatalog`).  `collected`, also history, are the blocks
  whose object was removed and not stored since.

* **FileTree** is the other half of `FileService`: the rows of `files` as a tree.
  A request `q` is a record `job[q]` that says where it is and with which values;
  each action is one statement with the code up to the next:

  | Code | Action |
  |---|---|
  | `RenameMove`: `GetByID` and the copy; the cycle guard; `Update` | `RenameMove`; `GuardPasses`, `GuardRejects`; `Update`, `UpdateFails` |
  | `BulkMove`: for each id `GetByID`, `Update`; `COMMIT` | `BulkMove`; `BulkRead`, `BulkUpdate`, `BulkFails`; `BulkCommit`; `DeadlockVictim` |
  | `CreateFolder`: lookup; lookup in the transaction; `Create` and `COMMIT` | `CreateFolder`; `Recheck`; `InsertFolder`, `InsertFails` |
  | `CreateShortcut`: `GetByID` of the target; `Create` | `CreateShortcut`; `InsertShortcut`, `InsertFails` |
  | `SoftDelete`, `Restore`, `PermanentDelete`: the recursive query's snapshot; the rows written | `SoftDelete`, `Restore`, `PermanentDelete`; `SetDeletedAt`, `DeleteRows` |
  | a `Complete` commits a file | `UploadFile` |
  | `ListDirectory`, `ListTrash` | operators of the same names |

  Recursive queries are the least sets closed under what they follow (`Below`),
  which needs no recursion and can be proved about; on a cycle of parents a query
  never ends (`QueryEnds`).  `Cascade` is what the two `ON DELETE CASCADE` take.

* **FileDownload** is `GET /api/files/{id}/download` and the archive of several
  files.  A byte is its place in its file, so that "the right bytes" is a run of
  places:

  | Code | Action |
  |---|---|
  | `HandleDownload` up to the row; `GetDownloadInfo`, `parseRangeHeader`, `CalculateRangeBlockOffset`, status and headers | `HandleDownload`; `GetDownloadInfo` |
  | one round of the block loop; its end; a block gone, a failing storage, a client gone | `SendBlock`; `BodyEnds`; `BodyBreaks` |
  | `StreamItemsZip`: the list; header and block list of an entry; a block; the next entry; the end | `StreamItemsZip`; `OpenEntry`; `ZipBlock`; `EntryEnds`; `ZipEnds` |
  | its errors | `EntryBreaks`, `ListFails` |
  | `DeleteRecursive` commits; `garbageCollectBlocks` | `DeleteFile`; `CollectBlock` |

* **NotificationHub** is `sync.Hub` with the WebSocket handlers.  `loop` is the
  goroutine in `Run`; each connection has a `reader` (first the handler that waits
  in `Register`, then `wsReadPump`) and a `writer` (`wsWritePump`); `shut` is
  `Shutdown`, which runs in main:

  | Code | Action |
  |---|---|
  | `HandleWSConnection` up to `Register` | `HandleWSConnection` |
  | the cases of `Run`'s select, each with the send that it completes | `RunRegister`, `RunUnregister`, `RunNotify`, `RunStops` |
  | `handleRegister`, `handleUnregister`, `handleNotify`, under the mutex | `HandleRegister`, `HandleUnregister`, `HandleNotify` |
  | `NotifyUser` on the buffered channel | `NotifyUser`, part of its callers' actions |
  | `wsReadPump`: a read fails; `Unregister`; `Close` | `ReadEnds`; `UnregisterGivesUp` (or `RunUnregister`); `ReaderCloses` |
  | `wsWritePump`: select; `WriteMessage` returns; `Close` | `WriterSelects`; `WriteReturns`; `WriterCloses` |
  | `Shutdown`: `close(done)`; the mutex; per client the close frame and `Close` | `ShutdownBegins`; `ShutdownLocks`; `ShutdownWrites`, `ShutdownCloses`; `ShutdownReturns` |

* **ThumbnailQueue** is the SQS queue with its workers.  A message is in `queue`
  until it is deleted and in `hidden` while its visibility timeout runs:

  | Code | Action |
  |---|---|
  | `PublishThumbnailJob` | `PublishThumbnailJob` |
  | `run`: the context is done; `pollOnce` receives | `WorkerStops`; `ReceiveMessage` |
  | `ProcessMessage`: the lookups; blocks, decoding, `PutObject`; an error | `Fetch`; `Render`; `Fails` |
  | `deleteMessage` | `DeleteMessage` |
  | SQS shows the message again | `VisibilityTimeout` |
  | the file is deleted | `DeleteFile` |

* **ApiProcess** composes the two into the process of `cmd/api/main.go`: the
  handlers that notify (`CompleteUpload` and `PublishJob`, `Share`,
  `HandlerNotifies`), the workers (`WorkerNotifies`), the subscriber of
  `RedisBackplane` (`Receive`, `Dispatch`, `SubscriberStops`), and main, which on
  SIGTERM goes through `After`: cancels the workers' context and waits for workers
  and subscriber, shuts the hub down, drains the HTTP server, exits.
  `ConcurrentWrite` is the panic of the WebSocket library.

* **AuthSessions** is `auth_handlers.go` and `session_handlers.go`.  A request `q`
  keeps in `job[q]` what it read; each action is one statement with the code up to
  the next:

  | Code | Action |
  |---|---|
  | `HandleRegister`: lookup; `Create`; the code | `Register`; `CreateUser`; `CreateVerificationCode` |
  | `HandleResendVerification` | `ResendVerification`; `CreateVerificationCode` |
  | `HandleVerify`: the code; its deletion; `SetVerified`; the session | `Verify`; `DeleteVerificationCode`; `SetVerified`; `CreateSession` |
  | `HandleLogin`: lookup, password, `is_verified`; the session and both tokens | `Login`; `CreateSession` |
  | `HandleGoogleOAuth`: lookup; `Create` or `SetVerified`; the session | `GoogleOAuth`; `CreateGoogleUser`, `SetGoogleVerified`; `CreateSession` |
  | `HandleRefresh`, `HandleForgotPassword`, `HandleLogout` | `Refresh`, `ForgotPassword`, `Logout` |
  | `HandleResetPassword`, `HandleChangePassword`: the check; `UpdatePassword`'s two statements; `MarkResetTokenUsed` | `ResetPassword`, `ChangePassword`; `UpdateHash`, `DeleteSessions`; `MarkResetTokenUsed` |
  | `HandleRevokeSession`, `HandleRevokeAllOtherSessions` | `RevokeSession`, `DeleteSession`; `RevokeAllOtherSessions`, `DeleteOtherSessions` |
  | an error, a client gone, a crash; time | `Abort`; `Expire` |

  `Accepts` and `Bearer` are the checks of a token.  Three variables are history:
  a session remembers the password that was `checked` for it and whether a change
  `raced` its log-in, `unfinished` are accounts whose last change failed between
  its two statements, `unrecorded` those Google vouched for although `SetVerified`
  failed (its error is ignored).

### Abstractions

* A block is its hash; of an object only what `HeadObject` can tell about it is
  kept: absent, of the wrong length, of the right length with another MD5, or as
  declared.  Declared sizes are taken to be right for the hash.
* A put replaces an object atomically (the local driver renames a temporary
  file, S3 does the same by contract), a listing is atomic.
* A PUT overwrites whatever is there with any of `PutContents`.  Which block a
  session may PUT is decided by the URLs it holds, also with the local driver,
  whose route asks for none.
* In the modules of files, users, ownership, roles and quota are left out: every
  request is one of the owner.  `block_md5` is declared for all chunks of a session or for none.
* In BlockStore deleted means deleted for good: the trash is part of FileTree.
  FileTree has no blocks: the two halves meet in `UploadFile` and `DeleteRows`.
* In BlockStore folders are one level deep: the subtree of a folder is the folder and its
  files.  Each folder either exists from the start or never: a session may name a
  parent that does not exist.
* File ids are numbered in order of creation, up to `MaxFiles`.
* In FileTree only `BulkMove` holds row locks from one step to the next.  A
  statement over a subtree sees its snapshot in one step and writes in a later
  one, all rows at once: that two such statements lock rows in different order
  and deadlock is left out (`Abort` covers the victim).
* FileTree has one user: the root listing and the trash are those of the owner.
  Shortcuts, like folders, are accepted as parents, as the code does; the size and
  count columns of the trash listing are left out.
* `CreateFolder` is taken up to `COMMIT` in `InsertFolder`: the row and its OWNER
  permission appear together.
* Two deleters in a lock cycle are not told apart from one that fails:
  `StopEarly` covers the victim.
* In FileDownload files do not share blocks: what a shared block loses is the
  subject of BlockStore.  Files are cut into blocks as the frontend does it
  (`workers/hash.worker.ts`); `CalculateRangeBlockOffset` relies on the same size.
  An archive entry is its bytes; names and compression are left out.
* In NotificationHub a payload is not looked at: the hub's queue holds users and a
  client's channel is a number.  The token check before an upgrade is part of
  AuthSessions.  In ApiProcess the hub is there (`JWT_SECRET` is set), and a failed
  publication to Redis, which is only logged, is left out: `Receive` may bring a
  notification at any time, whoever published it.
* A worker takes one message at a time from a `ReceiveMessage`; the back-off after a
  failed one is time only.  Bodies that are no JSON, which the worker deletes, are
  never sent by `PublishThumbnailJob`.
* In AuthSessions a password hash is the password, a JWT its claims, and mail
  arrives with whoever asked for it.  The bearer check of a request and its first
  statement are one step; `TouchSession` and `last_seen_at` decide nothing.

## 3. Runs

| Run | Configuration | Shows |
|---|---|---|
| `upload_concurrent` | 2 sessions, 2 requests, chunk lists `<<a,b>>` and `<<b,a>>`, a parent folder that is there or not | `LinkedRowsExist`, `OneRowPerHash`, that the pipeline implements `BlobCatalog`, and `RequestsReturn`, over every interleaving of overlapping Completes, including the deadlock of two of them |
| `upload_retry` | 2 sessions, 1 request at a time, PUTs of damaged, truncated and right bytes over whatever is there, with and without MD5 | `TypeOK`; `DamageOnlyByOverwrite`: a committed file differs from what its session declared only where a block was PUT anew after the file's Complete had verified it; `OneFilePerSession`: failed Completes can be retried, successful ones not repeated |
| `upload_double_complete` | 1 session, 2 requests | **violation** of `OneFilePerSession` |
| `store` | 2 sessions, a folder, a shared block, PUTs of truncated and right bytes, 1 deleter, bulk lists naming a folder and its file, the collector | `StoreTypeOK`, `LossOnlyFromRace`, `NoOrphanFiles`, with sweeps and deletions on stale copies; `StuckOnlyByCollection`: a session gets no URL for a missing block only if the block was collected; `ImplementsSafeCatalog`: a file outside the known races is published, removed and its blocks reclaimed as `BlobCatalog` says, through every rollback and crash |
| `store_sweep_race` | 1 block, collector | **violation** of `UsedBlocksStay` |
| `tree_browse` | 3 rows, 2 requests, every operation but bulk moves and uploads | `TreeTypeOK`; `LinksResolve`, with shortcuts of shortcuts; `EverythingBrowsable`: however trashing, restoring, moving and deleting overlap, nothing disappears from the listings and the trash |
| `tree_liveness` | 2 rows moved in either order by 2 requests, with renames, uploads, deletions, new folders and shortcuts | `LinksResolve` under row locks and rollbacks, `TreeRequestsReturn`; `CyclesComeFromMoves`: only an UPDATE of a move closes a cycle, however late, and no other statement does |
| `tree_cycle` | 2 folders, 1 request | **violation** of `NoCycles` |
| `download` | files of 4, 5 and 0 bytes in blocks of 2, every range up to one byte past the end, two archives | `DownloadTypeOK`; `BytesPromised`: a body is a prefix of just the announced bytes; `CompletedWhole`: "completed" means all of them; `EntriesWhole`: archive entries are whole, with two exceptions |
| `api` | 1 connection with Redis, or 2 images, one of which cannot be decoded, without; 1 handler, 1 worker, channels of one place; the shutdown | `ApiTypeOK`; `ClientsOpen`: no send on a closed channel; `ClientsForgotten`: no entry in the map outlives the pump that would remove it, while the hub runs; `JobsKeptUntilDone`; `CallsReturn`, `ConnectionsEnd`, `ThumbnailsArrive`, `ShutdownEnds` |
| `api_two_writers` | 1 connection, the shutdown | **violation** of `OneWriter` |
| `auth` | 1 account, 2 passwords, 2 sessions, 2 overlapping requests, a code and a reset token | `AuthTypeOK`; `SessionsFollowPassword`: a session of an old password survives only in three named windows; `TokensVouched`: nobody is signed in unverified |

What the violations say of the code:

1. **Two files from one session.**  `Complete` reads the session with a plain
   SELECT, although its comment says the row is locked, and the status update
   does not compare the old status.  Two overlapping calls both succeed.
2. **Sweep against upload.**  The collector deletes an object whose Complete
   commits between its read of the table and the delete.  `MinBlockAge`, which is
   documented to prevent this, is read nowhere.
3. **Two writers.**  `Hub.Shutdown` writes the close frame from main's goroutine
   while the connection's write pump may be inside `WriteMessage`.  The WebSocket
   library panics on concurrent writers; the rest of the shutdown, the drain
   included, does not happen.
4. **Cycles.**  The guard of `RenameMove` passes the two ids to `IsDescendant` in
   the wrong order: a folder can be moved below its own child, and cannot be moved
   up to an ancestor.  `BulkMove` has no guard at all.  A folder on a cycle is in no
   listing, and every recursive query over it runs until it is cancelled.

`LossOnlyFromRace` is the positive counterpart of 2: a block of a file is lost in
no other way than by a Complete that committed while somebody, the collector or a
deletion's background goroutine, was already after it.  In the same way
`DamageOnlyByOverwrite` says that a file gets wrong bytes in no other way than by a
PUT that came after its own verification, and `StuckOnlyByCollection` that a session
is sent to a block that is not there in no other way than by the collection of this
block: not by a session that only declared it, nor by a Complete that failed after it
inserted rows.  `EverythingBrowsable`
excepts rows below a cycle or a shortcut, and `TreeRequestsReturn` states with
cycles: that is where these promises end.  `SessionsFollowPassword` names the
three windows of a change of the password: between its two statements, after a
failure between them, and for a log-in that checked the old password before and
inserted its session afterwards.  The last two leave a session that stays.

The models contain other behaviour that one would not expect from a comment of
the code, and that no property forbids:

Uploads, deletions and the tree

* at READ COMMITTED an `INSERT ... ON CONFLICT DO NOTHING` that waited for a
  concurrent inserter returns nothing, and the SELECT beside it reads the snapshot
  of before the wait: `blocks.GetOrCreate`, which calls itself race-safe, finds no
  row and the Complete fails with `sql.ErrNoRows`; a retry works
  (`GetOrCreateFindsNoRows`, `NoRowsFails`);
* blocks rows are never deleted, so after the last file of a block is gone
  `Initiate` still reports the block as existing and hands out no URL, and neither
  does `GetSession`: the upload cannot be completed, although every session is meant
  to be resumable (`README.md:72`); `StuckOnlyByCollection` admits just this case;
* a late PUT through a live URL replaces a block that was verified and is in use, by
  any bytes: `HandlePutBlock` and `LocalStore.PutObject` check no digest, only
  `workers/edge_validator.js` does, where it is deployed in front of the store.
  `DamageOnlyByOverwrite` admits just this case;
* a background deletion removes an object that a new file was linked to after
  `findOrphanedHashes` (one of the races `LossOnlyFromRace` admits);
* the collector never finds an object whose background deletion failed or was cut
  off by a restart, because its blocks row stays;
* `RenameMove` with `parent_id: ""` does not move to the root, since `Update` takes
  nil for "unchanged"; without `parent_id` it writes back the parent it read, so a
  rename can undo a move;
* two overlapping `CreateFolder` calls create two folders of one name: the check
  inside the transaction locks nothing;
* rows put below a shortcut are in no listing, since opening the shortcut lists its
  target, and the cascade of a deletion takes them with the shortcut's target.

Downloads

* a `Range` header that is no range of the file is not answered with 416 but with
  the whole file;
* an archive that meets an error is closed by a `defer`: the client gets status 200
  and a well-formed archive that lacks the rest, as `EntriesWhole` admits for the
  last entry of a failed answer;
* a file that is deleted after the list for an archive was made gives an empty
  entry.

The process

* the comment at `Client.Send` says the hub closes the connection of a slow client;
  `handleNotify` drops the message and leaves the connection alone;
* `Run` may take a registration from its channel before it sees `done` and enter
  the client after `Shutdown` has emptied the map: this connection gets no close
  frame (`ConnectionsEnd` excepts its map entry), and a `Register` that comes later
  waits for ever (`CallsReturn` excepts it);
* handlers that wait in `NotifyUser` for a hub that has stopped let the drain run
  into its timeout, and the process exits with status 1;
* the cancelled context makes the calls of a worker in the middle of a job fail, so
  the job is abandoned to the next instance although the log says "waiting for SQS
  workers to finish";
* a job for a deleted file or an undecodable image comes back for ever: the worker
  has no limit, only the queue's own policy could end it;
* without `SQS_QUEUE_URL` main neither cancels nor waits for the backplane's
  subscriber; `HandleShare` notifies the hub and not the backplane, so only the
  grantee's connections to this instance hear of it.

Accounts

* a change of the password signs out its caller, too, although the frontend
  (`components/ChangePassword.tsx:71`) speaks of "all other active sessions";
* overlapping requests may use one verification code or reset token twice;
* tokens handed out when the session row could not be written belong to no session:
  no log-out, revocation or change of the password ends them before they expire;
* `DeleteRefreshToken` compares a uuid with a JWT, which Postgres refuses: the
  log-out works through `DeleteSession` alone.

### Bounds

Two sessions and two requests are what sharing, racing and deadlocking of uploads
need: a third Complete can only wait with one of the two or repeat one of them,
and the proofs hold for any number.  Chunk lists of one and two blocks, with a
prefix and with a repeated chunk, cover the loops' boundaries.  PUTs of every
content are in `upload_retry`; in `upload_concurrent`, where the order of statements is
the question, what is stored is right, and `store` has truncated blocks for
Completes that fail after others have built on them.  `MaxFiles` is 2 or
3: enough for a file made before and one made after a deletion.  One deleter and
one collector suffice for each race with an upload; that two deletions do not see
each other's transactions is covered by the proof of `LossOnlyFromRace`, for any
number of deleters.  Three rows are a folder, its child and its grandchild, or a
target, a shortcut and a shortcut of that; `Calls` selects the operations a run is
about, and between the runs all are called.  Two requests suffice for each race of
the tree: no check of one is made stale by more than one other.

In `download` the sizes are a full last block, one that is not full, and none, and
the ranges all there are.  One reader suffices, since readers write nothing that
others read.  In `api` channels of one place are full as soon as something is in
them; one connection is enough, since a connection's goroutines wait for the hub
and not for each other's.  `SplitInit` keeps the graph small enough for liveness:
it starts either with Redis, all files deleted before, or on a single node, all
connections ended before, so that every sender is there with the hub and every
worker with its jobs.  The theorems cover everything at once.  In `auth` two
requests overlap at every statement; two passwords are the old and the new one,
and of two sessions one is opened before and one during a change.

Deadlock checking is off where clients may stop for good, and where sessions and
file ids run out; it is on in `auth`, where a token can always be refreshed or a
request begun.

Symmetry is used for sessions, requests and rows in runs of invariants, where
the configuration treats them alike, and in `store`, whose refinement is a property
of single steps that names no session; the runs of liveness properties go without.

### Fairness

`FairSpec` assumes that a goroutine that runs a Complete is scheduled (weak
fairness of `Proceed`), and that a transaction asleep on another's row gets its
turn when that transaction ends (strong fairness of `GetOrCreateWakes`: Postgres
wakes waiters at the end of the transaction, so others do not overtake one for
ever).  Nothing is assumed of clients.

`TreeFairSpec` assumes strong fairness of `Proceed` for each request of the tree,
for the same two reasons: a statement is enabled unless it waits for a row lock,
and Postgres grants row locks in turn.  A request that Postgres aborts returns,
too.

`Fair` of ApiProcess assumes

* that goroutines run (weak fairness of `Run`'s handling, the pumps, the handlers,
  the workers and main);
* that `select` takes each of its ready cases again and again, and that those who
  wait to send on a channel are served in turn, as Go's runtime does (strong
  fairness of each connection's `RunRegister` and `RunUnregister`, of
  `WorkerNotifies`, `Dispatch` and `SubscriberStops`);
* that a write to a socket ends, by its deadline of ten seconds at the latest, and
  that a read on a closed one fails (weak fairness);
* that the calls for one job do not fail for ever, and that SQS shows a message
  again and hands it out some time (strong fairness of `ReceiveMessage` with the
  answer arriving, `Fetch` and `Render`, weak fairness of `VisibilityTimeout`).

Nobody has to connect, read, upload, share or send a signal, and `Fails` and lost
answers remain possible any finite number of times.

## 4. Proofs

For every number of hashes, sessions, requests, files, deleters, connections,
workers, accounts and so on, every depth of a channel and every block size, under
the named assumptions on the constants (`ManifestsAssumption`: chunk lists are not
empty; `DepthAssumption`: channels have room for something; and the like):

| Module | Theorem | Says |
|---|---|---|
| UploadService | `TypeCorrect` | `Spec => []TypeOK` |
| | `OneRowPerHashCorrect` | `Spec => []OneRowPerHash` |
| | `LinkedRowsCorrect` | `Spec => []LinkedRowsExist` |
| | `UploadImplementsCatalog` | `Spec => ImplementsCatalog` |
| | `OneFileUnlessOverlap` | `Spec /\ []CompletesApart => []OneFilePerSession` |
| UploadHistory | `DamageOnlyByOverwriteCorrect` | `HistorySpec => []DamageOnlyByOverwrite` |
| BlockStore | `StoreTypeCorrect` | `StoreSpec => []StoreTypeOK` |
| | `LossOnlyFromRaceCorrect` | `StoreSpec => []LossOnlyFromRace` |
| | `StuckOnlyByCollectionCorrect` | `StoreSpec => []StuckOnlyByCollection` |
| | `NoOrphanFilesCorrect` | `StoreSpec => []NoOrphanFiles` |
| | `StoreImplementsSafeCatalog` | `StoreSpec => ImplementsSafeCatalog` |
| FileTree | `TreeTypeCorrect` | `TreeSpec => []TreeTypeOK` |
| | `LinksCorrect` | `TreeSpec => []LinksResolve` |
| | `EverythingBrowsableCorrect` | `TreeSpec => []EverythingBrowsable` |
| | `CyclesComeFromMovesCorrect` | `TreeSpec => CyclesComeFromMoves` |
| FileDownload | `DownloadTypeCorrect` | `DownloadSpec => []DownloadTypeOK` |
| | `BytesPromisedCorrect` | `DownloadSpec => []BytesPromised` |
| | `CompletedWholeCorrect` | `DownloadSpec => []CompletedWhole` |
| | `EntriesWholeCorrect` | `DownloadSpec => []EntriesWhole` |
| ApiProcess | `ApiTypeCorrect` | `ApiSpec => []ApiTypeOK` |
| | `ClientsOpenCorrect` | `ApiSpec => []ClientsOpen` |
| | `ClientsForgottenCorrect` | `ApiSpec => []ClientsForgotten` |
| | `JobsKeptCorrect` | `ApiSpec => []JobsKeptUntilDone` |
| AuthSessions | `Typing` | `AuthSpec => []AuthTypeOK` |
| | `PasswordChangesEndSessions` | `AuthSpec => []SessionsFollowPassword` |
| | `SignedInMeansVouched` | `AuthSpec => []TokensVouched` |

`TypeOK` includes `WellFormed` and is inductive, as is `AuthTypeOK`.
`StoreTypeOK` is proved together with the catalog's invariant (`CatalogInv`), and
`ApiTypeOK` and `DownloadTypeOK` as parts of `Inv`.  The safety invariants need
more:

* `LinkedRowsExist` needs `UpsertedRowsExist`: what a transaction has upserted so
  far is committed or its own, at every position of its loop; when the loop is
  over, this holds for the whole chunk list, which is what `Commit` links.
* `DamageOnlyByOverwrite` needs `VerifiedUnlessReplaced`: a chunk that a transaction
  has verified so far matches still, or was PUT anew since; at `Commit` that is the
  whole chunk list, and the file inherits what was replaced.  `FilesHaveSessions`
  keeps what the file's session declared: `Initiate` takes an id that is not used.
* `UploadImplementsCatalog` needs `VerifiedChunksStored`: objects stay, so that
  at `Commit` all chunks are stored, and the new id is fresh.  `Commit` maps to
  `Publish`, `PutObject` to `Store` or a stutter, everything else to a stutter.
* `StuckOnlyByCollection` needs `RowsUploaded`: a blocks row, committed or inserted
  by a transaction under way, is for a block that is stored or has been collected, and
  so is each chunk that a transaction has verified.  It holds because a request
  verifies all its chunks before it inserts the first row; `Initiate` reads the rows
  and relies on it.  That deletions leave the rows alone is why no more can be said.
* `OneFilePerSession` needs `SessionsUsedOnce`: a file's session is COMPLETED, and
  that of a request in its transaction is still INITIATED, as the request read it.
  The second half is what another `Commit` of the same session takes away, so the
  theorem has the hypothesis `CompletesApart`: no two requests are in transactions
  of one session.  It is about the clients, not about constants, and it is exactly
  what the code does not ensure (violation 1).  Retries after rollbacks, deadlocks
  and crashes are covered.
* `LossOnlyFromRace` needs `UnexposedBlocksAreSafe`: nobody has condemned a block
  that a file was safely committed with, except a bulk transaction that deletes
  the file too.
* `ImplementsSafeCatalog` follows from the same invariant, action by action: a
  `Commit` publishes the file, if it is safe, and stutters otherwise; the deletion of
  rows, by statement or by the commit of a bulk transaction, is `Remove`; the
  deletion of an object, by the goroutine or the sweep, is `Reclaim`, because no
  safe file uses a condemned block; a rollback and a crash stutter.
* `NoOrphanFiles` needs `DeletionsClosed`: with a folder, a bulk transaction that has
  not committed deletes all files in it.  A file committed later is not among them:
  `ParentUnlocked` makes its insert wait, and fails it if the parent is gone then.
  `ItemAssumption` says that ids of folders and of files are different, as uuids are.
* `LinksResolve` needs `PendingLinksResolve`: the target of a shortcut about to be
  inserted is no shortcut, and the new parents that a bulk move has written but not
  committed stay, because deleting a row waits for the transactions that refer to
  it.  `CascadeClosed` is the lemma behind `DeleteRows`: no row that stays refers to
  one that the cascade took.
* `EverythingBrowsable` follows from the same invariant for each tree, not by
  induction over steps.  Of the ancestors of a row that cannot be reached take those
  that cannot be reached either: each has a parent (`LinksResolve`), which is among
  them unless it is a shortcut or the row itself (`LoopIsCycle`), so they make up a
  cycle above the row (`LinkedIsBrowsable`).  The lemmas about
  `Below` (`BelowClosed`, `BelowLeast`, `BelowTransitive`, `BelowUp`, `ParentAbove`)
  take the place of an induction along the path.
* `CyclesComeFromMoves` needs `LinkInv`, too: a new row is a leaf, since no row names
  an unused id as its parent (`InsertKeepsAcyclic`), and what a deletion leaves has
  its parents as before (`DeleteKeepsAcyclic`).
* `BytesPromised` and `CompletedWhole` need `Announced` and `Continues` while the
  body is sent: the next block, read from its offset, begins where the bytes sent
  so far end.  The arithmetic is in `Offsets` (block and offset give back the
  place) and `PieceIs` (what a round sends is the next run of places); at the end
  either nothing is left or there would be another block.  `EntriesWhole` needs the
  same of the open entry (`EntryOpen`).
* `ClientsOpen` needs `RegisteredOnce`: a connection that has not passed `Register`
  is neither in the map nor closed, so `handleRegister` never enters a closed one.
* `ClientsForgotten` needs `Forgetting`: also the client that `Run` has received and
  not yet entered has its read pump still to unregister it, so an unregistration
  never overtakes the registration.
* `JobsKeptUntilDone` needs `WorkersKnow`: a worker about to notify or to delete
  has stored the thumbnail of its image.
* `SessionsFollowPassword` needs `LoginsFresh`: a log-in that has checked a password
  and was not overtaken holds the account's current one.  `TokensVouched` needs
  `LoginsVouched`: a request about to create a session is for an account that is
  verified, or vouched for.

Only model-checked: the liveness properties `RequestsReturn`,
`TreeRequestsReturn`, `CallsReturn`, `ConnectionsEnd`, `ThumbnailsArrive` and
`ShutdownEnds`, which are out of the prover's reach, and the violations.  Of
`OneFilePerSession` the theorems prove what is true: it fails only when Completes
of one session overlap.

## 5. Not modelled

* **Permissions and sharing.**  An access decision is one query over one table and
  a grant one INSERT: there is no protocol whose steps could interleave.  The two
  resolvers take the nearest and any grant of an ancestor and so may disagree,
  which a table of cases shows better than a state machine.
* **Rate limiting.**  A library's token bucket per key behind one mutex, or one
  atomic Redis script.
* **Multi-part uploads.**  `Initiate` starts one for a block over 5 GiB with S3; the
  frontend's blocks have 4 MiB.  Nothing calls `CompleteMultipartUpload`, so such
  an upload could not be completed.
* **The rest of the file service**: `BulkSoftDelete` and `BulkRestore` (the single
  operations in a transaction), search, storage usage, the thumbnail endpoint.
* **Start-up**: the branches of the configuration, a start without a database, a
  server that cannot listen.
* **Frontend**: to the server it is a client that calls, lags and leaves as it
  likes, and as that it is in the models.  Its hooks and stores are single-threaded
  code around timers and promises, its pages presentation.
* **Audit log, edge validator, configuration, migrations, mail, metrics**: records
  nobody reads, a stateless filter, and plain input and output.
* The libraries for JPEG decoding, scaling, hashing and JWT; the signing of URLs;
  temporary files of the local driver.

Outside the prover's reach and left to TLC: liveness, ENABLED, and induction over
recursively defined data.
