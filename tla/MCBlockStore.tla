---------------------------- MODULE MCBlockStore ----------------------------
(* Instances of BlockStore for TLC.                                         *)
EXTENDS BlockStore, TLC

CONSTANTS a, s1, s2, r1, d1, folder

(* Files that all use the one block.                                        *)
OneBlock == {<<a>>}

(* A folder with an id list that meets its own cascade, and two files in    *)
(* one transaction.                                                         *)
FolderLists == {<<folder, 1>>, <<1, 2>>}

NoLists == {}

SessionSymmetry == Permutations(Session)
=============================================================================
