-------------------------- MODULE MCUploadHistory --------------------------
(* Instances of UploadHistory for TLC.                                      *)
EXTENDS UploadHistory, TLC

CONSTANTS a, b, s1, s2, r1, folder

(* A file of one block, which is a prefix of another one, and a file that   *)
(* uses one block twice.                                                    *)
MixedManifests == {<<a>>, <<a, b>>, <<b, b>>}

SessionSymmetry == Permutations(Session)
=============================================================================
