---------------------------- MODULE UploadHistory ----------------------------
(***************************************************************************)
(* UploadService with a record of the PUTs that came too late: an upload    *)
(* URL lives on after its block was verified, and PutObject asks neither    *)
(* what the object's name promises nor whether it is in use.  The code does *)
(* not keep this record; it says where its promises to readers end.         *)
(***************************************************************************)
EXTENDS UploadService

VARIABLES
  replaced,      \* history: blocks PUT anew since the request first verified them
  replacedIn     \* history: ... since the Complete of the file did

historyVars == <<vars, replaced, replacedIn>>

HistoryInit ==
  /\ Init
  /\ replaced = [r \in Request |-> {}]
  /\ replacedIn = [f \in FileId |-> {}]

(* The objects that a step replaces by other bytes.                         *)
Replaced == {h \in Hash : objects'[h] # objects[h]}

(* A file takes over what its transaction has missed.                       *)
Remember ==
  /\ replaced' = [r \in Request |->
       IF InTx(r)' THEN replaced[r] \cup (Replaced \cap Verified(r)) ELSE {}]
  /\ replacedIn' = [f \in FileId |->
       IF f \in files THEN replacedIn[f] \cup (Replaced \cap Range(fileBlocks[f]))
                      ELSE UNION {replaced[r] : r \in {q \in Request : newFile'[q] = f}}]

HistoryNext == Next /\ Remember

HistorySpec == HistoryInit /\ [][HistoryNext]_historyVars

-----------------------------------------------------------------------------
(* A committed file is what its session declared, length and MD5, unless a  *)
(* client has PUT one of its blocks anew after the file's own Complete had  *)
(* verified it.  Nothing else comes between the verification, one chunk     *)
(* after the other, and the reader: no other session that declares less, no *)
(* flag left by Initiate, no retry and no rollback.                         *)
DamageOnlyByOverwrite ==
  \A f \in files : \A h \in Range(fileBlocks[f]) :
    ~HeadMatches(origin[f], h) => h \in replacedIn[f]
=============================================================================
