----------------------------- MODULE MCFileTree -----------------------------
(* Instances of FileTree for TLC.                                           *)
EXTENDS FileTree, TLC

CONSTANTS a, b, c, n, q1, q2

(* Two rows, moved in either order: the deadlock of two BulkMoves.          *)
OppositeLists == {<<a, b>>, <<b, a>>}
NoLists == {}

(* Only a is there from the start.                                          *)
RowsSymmetry == Permutations({b, c}) \cup Permutations({q1, q2})
=============================================================================
