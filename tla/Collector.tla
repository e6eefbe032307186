------------------------------ MODULE Collector ------------------------------
(***************************************************************************)
(* The orphan collector, cmd/gc: a process of its own that compares the     *)
(* keys of the object store with the blocks table and deletes the objects   *)
(* no row names.  One sweep runs at a time; Config.MinBlockAge is never     *)
(* read by Run, so it does not occur here.                                  *)
(***************************************************************************)
EXTENDS UploadService

CONSTANT
  DryRun         \* Config.DryRun

ASSUME DryRunAssumption == DryRun \in BOOLEAN

VARIABLES
  phase,         \* of Run: "idle", "listed" (keys read), "sweep" (rows read too)
  keys           \* hashes of the listed keys; then those still to be deleted

collectorVars == <<phase, keys>>

CollectorTypeOK ==
  /\ phase \in {"idle", "listed", "sweep"}
  /\ keys \subseteq Hash

CollectorInit ==
  /\ phase = "idle"
  /\ keys = {}

uploadVars == <<urls, jobs, sessionVars, catalogVars, requestVars>>

-----------------------------------------------------------------------------
(* 1. ListBlockKeys.                                                        *)
ListKeys ==
  /\ phase = "idle"
  /\ phase' = "listed"
  /\ keys' = Stored
  /\ UNCHANGED <<objects, uploadVars>>

(* Wrong LoadHashes: what it knows are the blocks sessions marked uploaded. *)
LoadUploadedHashes ==
  /\ phase = "listed"
  /\ phase' = "sweep"
  /\ keys' = keys \ UNION {flagged[s] : s \in Session}
  /\ UNCHANGED <<objects, uploadVars>>

(* 2. AllBlockHashes: what it knows is not an orphan.                       *)
LoadHashes ==
  /\ phase = "listed"
  /\ phase' = "sweep"
  /\ keys' = keys \ blockRows
  /\ UNCHANGED <<objects, uploadVars>>

(* 3. and 4. One orphan: logged, or deleted, or counted as an error.        *)
Sweep(h, deleted) ==
  /\ phase = "sweep"
  /\ h \in keys
  /\ keys' = keys \ {h}
  /\ objects' = IF deleted /\ ~DryRun THEN [objects EXCEPT ![h] = "absent"] ELSE objects
  /\ UNCHANGED <<phase, uploadVars>>

(* Run returns, because it is done, or one of its reads failed, or the      *)
(* process was stopped.                                                     *)
EndSweep ==
  /\ phase # "idle"
  /\ phase' = "idle"
  /\ keys' = {}
  /\ UNCHANGED <<objects, uploadVars>>

Collect ==
  \/ ListKeys
  \/ LoadHashes
  \/ \E h \in Hash, deleted \in BOOLEAN : Sweep(h, deleted)
  \/ EndSweep
=============================================================================
