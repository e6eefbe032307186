-------------------------- MODULE MCUploadService --------------------------
(* Instances of UploadService for TLC.                                      *)
EXTENDS UploadService, TLC

CONSTANTS a, b, s1, s2, r1, r2, folder

(* Two chunk lists over the same blocks in opposite order: the deadlock of  *)
(* two Completes needs both.                                                *)
OppositeManifests == {<<a, b>>, <<b, a>>}

Symmetry == Permutations(Session) \cup Permutations(Request)
=============================================================================
