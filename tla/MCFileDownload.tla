-------------------------- MODULE MCFileDownload --------------------------
(* Instances of FileDownload for TLC.                                       *)
EXTENDS FileDownload, TLC

CONSTANTS f1, f2, f3, r1

(* A last block that is full, one that is not, and no bytes at all.         *)
Sizes == (f1 :> 4) @@ (f2 :> 5) @@ (f3 :> 0)

(* Every range up to one byte past the longest file.                        *)
Ranges == [first : 0 .. 5 \cup {Unset}, last : 0 .. 5 \cup {Unset}]

Lists == {<<f1, f2>>, <<f3, f2, f1>>}
=============================================================================
