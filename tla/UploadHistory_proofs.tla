------------------------ MODULE UploadHistory_proofs ------------------------
(***************************************************************************)
(* What a reader can rely on, for every value of the constants and whatever *)
(* clients PUT.                                                             *)
(***************************************************************************)
EXTENDS UploadHistory, UploadService_proofs

(* A transaction's verified chunks match still, but for the ones replaced   *)
(* since.                                                                   *)
VerifiedUnlessReplaced ==
  \A r \in Request : \A h \in Verified(r) : h \in replaced[r] \/ HeadMatches(sess[r], h)

(* The session of a file has been there since its Complete verified it.     *)
FilesHaveSessions ==
  \A f \in files : origin[f] \in Session /\ status[origin[f]] # "none"

HistoryInv ==
  /\ StoredInv
  /\ FilesHaveSessions
  /\ VerifiedUnlessReplaced
  /\ DamageOnlyByOverwrite

LEMMA InitHistory == HistoryInit => HistoryInv
<1> SUFFICES ASSUME HistoryInit PROVE HistoryInv
  OBVIOUS
<1>1. StoredInv
  BY InitStored DEF HistoryInit
<1>2. FilesHaveSessions /\ VerifiedUnlessReplaced /\ DamageOnlyByOverwrite
  BY DEF HistoryInit, Init, NothingStored, NoRequests, FilesHaveSessions,
         VerifiedUnlessReplaced, DamageOnlyByOverwrite, Verified, InTx
<1> QED
  BY <1>1, <1>2 DEF HistoryInv

(* A session that exists says the same for good about its blocks.           *)
LEMMA SessionsStay ==
  ASSUME TypeOK, [Next]_vars, NEW s \in Session, status[s] # "none"
  PROVE  status'[s] # "none" /\ hasMD5'[s] = hasMD5[s]
<1>1. ASSUME NEW t \in Session, Client(t)
      PROVE  status'[s] # "none" /\ hasMD5'[s] = hasMD5[s]
  BY <1>1 DEF Client, Initiate, GetSession, ExpireURLs, PutObject, sessionVars, TypeOK
<1>2. ASSUME NEW r \in Request, (\E t \in Session : Begin(r, t)) \/ Proceed(r) \/ Abort(r)
      PROVE  status'[s] # "none" /\ hasMD5'[s] = hasMD5[s]
  <2>1. UNCHANGED hasMD5 /\ (UNCHANGED status \/ Commit(r))
    BY <1>2 DEF Begin, Proceed, VerifyBlock, VerifyFails, GetOrCreate, GetOrCreateBlocks,
                GetOrCreateWakes, GetOrCreateFindsNoRows, NoRowsFails, DeadlockVictim,
                Commit, ParentGone, PublishJob, Abort, Rollback, sessionVars
  <2> QED
    BY <2>1 DEF Commit, TypeOK
<1>3. CASE Crash \/ UNCHANGED vars
  BY <1>3 DEF Crash, StopRequests, vars, sessionVars
<1> QED
  BY <1>1, <1>2, <1>3 DEF Next

(* A file is there since an earlier step, or is this COMMIT's.              *)
LEMMA NextFiles ==
  ASSUME StoredInv, [Next]_vars, NEW f \in files'
  PROVE  \/ f \in files /\ fileBlocks'[f] = fileBlocks[f] /\ origin'[f] = origin[f]
         \/ \E r \in Request :
              /\ Commit(r)
              /\ f \notin files
              /\ newFile'[r] = f
              /\ fileBlocks'[f] = Chunks(r)
              /\ origin'[f] = sess[r]
<1>1. ASSUME NEW r \in Request, Commit(r), f = nfiles + 1
      PROVE  /\ f \notin files
             /\ newFile'[r] = f
             /\ fileBlocks'[f] = Chunks(r)
             /\ origin'[f] = sess[r]
  <2>1. f \in FileId /\ f \notin files
    BY <1>1, MaxFilesAssumption DEF Commit, StoredInv, TypeOK, VerifiedChunksStored, FileId
  <2> QED
    BY <1>1, <2>1 DEF Commit, StoredInv, TypeOK
<1>2. ASSUME NEW r \in Request, Commit(r), f # nfiles + 1
      PROVE  f \in files /\ fileBlocks'[f] = fileBlocks[f] /\ origin'[f] = origin[f]
  BY <1>2 DEF Commit, StoredInv, TypeOK
<1>3. UNCHANGED catalogVars \/ \E r \in Request : Commit(r)
  BY DEF Next, Client, Initiate, GetSession, ExpireURLs, PutObject, Begin, Proceed,
         VerifyBlock, VerifyFails, GetOrCreate, GetOrCreateBlocks, GetOrCreateWakes,
         GetOrCreateFindsNoRows, NoRowsFails, DeadlockVictim, ParentGone,
         PublishJob, Abort, Rollback, Crash, StopRequests, vars
<1> QED
  BY <1>1, <1>2, <1>3 DEF catalogVars

(* A PUT of other bytes between two checks of a transaction is remembered.  *)
LEMMA NextVerified ==
  ASSUME HistoryInv, HistoryNext
  PROVE  VerifiedUnlessReplaced'
<1> USE DEF HistoryInv, StoredInv, HistoryNext
<1> SUFFICES ASSUME NEW r \in Request, NEW h \in Verified(r)'
             PROVE  h \in replaced'[r] \/ HeadMatches(sess[r], h)'
  BY DEF VerifiedUnlessReplaced
<1>1. /\ InTx(r) /\ sess'[r] = sess[r] /\ hasMD5'[sess[r]] = hasMD5[sess[r]]
      /\ h \in Verified(r) \/ (h \in Hash /\ HeadMatches(sess[r], h) /\ objects' = objects)
  BY NextVerifies
<1>2. replaced'[r] = replaced[r] \cup (Replaced \cap Verified(r))
  <2>1. InTx(r)'
    BY DEF Verified, InTx
  <2> QED
    BY <2>1 DEF Remember
<1>3. CASE HeadMatches(sess[r], h) /\ objects'[h] = objects[h]
  BY <1>1, <1>3 DEF HeadMatches
<1>4. CASE h \in Verified(r) /\ objects'[h] # objects[h]
  <2>1. h \in Hash
    BY <1>4, VerifiedHashes
  <2> QED
    BY <1>2, <1>4, <2>1 DEF Replaced
<1>5. CASE h \in replaced[r]
  BY <1>2, <1>5
<1> QED
  BY <1>1, <1>3, <1>4, <1>5 DEF VerifiedUnlessReplaced

(* A committed file takes its transaction's record along, and goes on with  *)
(* it from there.                                                           *)
LEMMA NextDamage ==
  ASSUME HistoryInv, HistoryNext
  PROVE  DamageOnlyByOverwrite' /\ FilesHaveSessions'
<1> USE DEF HistoryInv, HistoryNext
<1>1. ASSUME NEW f \in files, fileBlocks'[f] = fileBlocks[f], origin'[f] = origin[f]
      PROVE  /\ origin'[f] \in Session /\ status'[origin'[f]] # "none"
             /\ \A h \in Range(fileBlocks'[f]) :
                  h \in replacedIn'[f] \/ HeadMatches(origin[f], h)'
  <2>1. /\ origin[f] \in Session /\ status[origin[f]] # "none"
        /\ status'[origin[f]] # "none" /\ hasMD5'[origin[f]] = hasMD5[origin[f]]
    BY SessionsStay DEF FilesHaveSessions, StoredInv
  <2>2. f \in FileId /\ fileBlocks[f] \in Manifests \cup {<<>>}
    BY DEF StoredInv, TypeOK
  <2>3. Range(fileBlocks[f]) \subseteq Hash
    BY <2>2, ChunkListRange DEF Range
  <2>4. replacedIn'[f] = replacedIn[f] \cup (Replaced \cap Range(fileBlocks[f]))
    BY <2>2 DEF Remember
  <2>5. ASSUME NEW h \in Range(fileBlocks[f])
        PROVE  h \in replacedIn'[f] \/ HeadMatches(origin[f], h)'
    <3>1. CASE objects'[h] # objects[h]
      BY <2>3, <2>4, <2>5, <3>1 DEF Replaced
    <3>2. CASE objects'[h] = objects[h]
      <4>1. h \in replacedIn[f] \/ HeadMatches(origin[f], h)
        BY DEF DamageOnlyByOverwrite
      <4> QED
        BY <1>1, <2>1, <2>4, <3>2, <4>1 DEF HeadMatches
    <3> QED
      BY <3>1, <3>2
  <2> QED
    BY <1>1, <2>1, <2>5
<1>2. ASSUME NEW f \in files', f \notin files, NEW r \in Request, Commit(r),
             newFile'[r] = f, fileBlocks'[f] = Chunks(r), origin'[f] = sess[r]
      PROVE  /\ origin'[f] \in Session /\ status'[origin'[f]] # "none"
             /\ \A h \in Range(fileBlocks'[f]) :
                  h \in replacedIn'[f] \/ HeadMatches(origin[f], h)'
  <2>1. InTx(r) /\ pc[r] # "verify" /\ objects' = objects
    BY <1>2 DEF Commit, InTx
  <2>2. sess[r] \in Session /\ status[sess[r]] # "none"
    BY <2>1 DEF StoredInv, TypeOK, WellFormed, InTx
  <2>3. status'[sess[r]] # "none" /\ hasMD5'[sess[r]] = hasMD5[sess[r]]
    BY <2>2, SessionsStay DEF StoredInv
  <2>4. f \in FileId /\ replaced[r] \subseteq replacedIn'[f]
    <3>1. f \in FileId
      BY <1>2, MaxFilesAssumption DEF Commit, StoredInv, TypeOK, FileId
    <3> QED
      BY <1>2, <3>1 DEF Remember
  <2>5. ASSUME NEW h \in Range(Chunks(r))
        PROVE  h \in replaced[r] \/ HeadMatches(sess[r], h)
    BY <2>1, <2>5 DEF VerifiedUnlessReplaced, Verified
  <2>6. \A h \in Range(Chunks(r)) : h \in replacedIn'[f] \/ HeadMatches(origin[f], h)'
    BY <1>2, <2>1, <2>3, <2>4, <2>5 DEF HeadMatches
  <2> QED
    BY <1>2, <2>2, <2>3, <2>6
<1> QED
  BY <1>1, <1>2, NextFiles DEF DamageOnlyByOverwrite, FilesHaveSessions

(* Verifying the chunks one after the other, some time before the commit,   *)
(* while other sessions use the same objects, is as good as verifying them  *)
(* all at the commit, and no later step of the pipeline makes it untrue:    *)
(* what a file's blocks can come to differ in from what its session declared *)
(* is due to a PUT of other bytes over a block already verified.            *)
THEOREM DamageOnlyByOverwriteCorrect == HistorySpec => []DamageOnlyByOverwrite
<1>1. HistoryInit => HistoryInv
  BY InitHistory
<1>2. HistoryInv /\ [HistoryNext]_historyVars => HistoryInv'
  <2> SUFFICES ASSUME HistoryInv, [HistoryNext]_historyVars PROVE HistoryInv'
    OBVIOUS
  <2>1. StoredInv'
    BY NextStored DEF HistoryInv, HistoryNext, historyVars
  <2>2. CASE HistoryNext
    BY <2>1, <2>2, NextVerified, NextDamage DEF HistoryInv
  <2>3. CASE UNCHANGED historyVars
    BY <2>1, <2>3 DEF historyVars, vars, sessionVars, catalogVars, requestVars, HistoryInv,
                      VerifiedUnlessReplaced, DamageOnlyByOverwrite, FilesHaveSessions,
                      HeadMatches, Verified, InTx, Before, Chunks
  <2> QED
    BY <2>2, <2>3
<1>3. HistoryInv => DamageOnlyByOverwrite
  BY DEF HistoryInv
<1> QED
  BY <1>1, <1>2, <1>3, PTL DEF HistorySpec
=============================================================================
