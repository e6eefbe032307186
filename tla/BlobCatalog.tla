---------------------------- MODULE BlobCatalog -----------------------------
(***************************************************************************)
(* What the block store promises, without sessions, transactions or         *)
(* requests: a catalog of files over a set of stored blocks.  A file is     *)
(* published only when all its blocks are stored, and a block is reclaimed  *)
(* only when no file of the catalog uses it.                                *)
(***************************************************************************)
EXTENDS Sequences, Functions

CONSTANTS
  Hash,        \* names of blocks
  FileId,      \* names of files
  ChunkList    \* the sequences of blocks a file may consist of

VARIABLES
  stored,      \* blocks in the object store
  catalog      \* the published files: a function from file ids to chunk lists

vars == <<stored, catalog>>

InUse == UNION {Range(catalog[f]) : f \in DOMAIN catalog}

Init ==
  /\ stored = {}
  /\ catalog = [f \in {} |-> <<>>]

Store(h) ==
  /\ stored' = stored \cup {h}
  /\ UNCHANGED catalog

Publish(f, m) ==
  /\ f \notin DOMAIN catalog
  /\ Range(m) \subseteq stored
  /\ catalog' = [g \in DOMAIN catalog \cup {f} |-> IF g = f THEN m ELSE catalog[g]]
  /\ UNCHANGED stored

(* A subtree of files goes at once.                                         *)
Remove(F) ==
  /\ catalog' = [g \in DOMAIN catalog \ F |-> catalog[g]]
  /\ UNCHANGED stored

Reclaim(h) ==
  /\ h \notin InUse
  /\ stored' = stored \ {h}
  /\ UNCHANGED catalog

Next ==
  \/ \E h \in Hash : Store(h) \/ Reclaim(h)
  \/ \E f \in FileId, m \in ChunkList : Publish(f, m)
  \/ \E F \in SUBSET FileId : Remove(F)

Spec == Init /\ [][Next]_vars

=============================================================================
