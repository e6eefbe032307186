---------------------------- MODULE FileDownload ----------------------------
(***************************************************************************)
(* Downloads: HandleDownload for one file or a range of it, and             *)
(* StreamItemsZip for several, while files are deleted for good and their   *)
(* blocks collected.                                                        *)
(*                                                                          *)
(* A byte is its place in its file.  Files are cut the way the frontend     *)
(* does: into blocks of BlockSize bytes, the last one shorter, one empty    *)
(* block for an empty file.  Blocks are not shared here.                    *)
(***************************************************************************)
EXTENDS Integers, Sequences

CONSTANTS
  File,
  Reader,        \* concurrent requests
  BlockSize,     \* 4 MiB in hash.worker.ts and in file_service.go
  SizeOf,        \* files.size_bytes
  Header,        \* bound: the Range headers clients send
  ZipList,       \* bound: what GetSubtreeForItems may list
  Unset,         \* an end that a Range header leaves open
  NoFile

ASSUME BlockSizeAssumption == BlockSize \in Nat \ {0}
ASSUME SizeAssumption == SizeOf \in [File -> Nat]
ASSUME HeaderAssumption == Header \subseteq [first : Nat \cup {Unset}, last : Nat \cup {Unset}]
ASSUME UnsetAssumption == Unset \notin Nat
ASSUME ZipListAssumption == ZipList \subseteq Seq(File)

VARIABLES
  linked,        \* files that have their file_blocks rows
  collected,     \* blocks <<f, i>> deleted from the storage
  download       \* what each request is at

downloadVars == <<linked, collected, download>>

(* Of one file: from and total, where the body starts and its               *)
(* Content-Length; left, what is missing; index and offset, the next block  *)
(* and where to read it.  Of a zip: todo, the files to come; archive, the   *)
(* entries made.  sent is the body, or the open entry, so far.              *)
Entry == [file : File, bytes : Seq(Nat)]

Download ==
  [at : {"idle", "opened", "body", "zip", "entry", "completed", "failed"},
   file : File \cup {NoFile}, from : Nat, total : Nat, left : Nat, index : Nat, offset : Nat,
   sent : Seq(Nat), todo : Seq(File), archive : Seq(Entry)]

Nothing ==
  [at |-> "idle", file |-> NoFile, from |-> 0, total |-> 0, left |-> 0, index |-> 0,
   offset |-> 0, sent |-> <<>>, todo |-> <<>>, archive |-> <<>>]

(* Every variable has its type, and a request that reads blocks has a file. *)
DownloadTypeOK ==
  /\ linked \subseteq File
  /\ collected \subseteq File \X Nat
  /\ download \in [Reader -> Download]
  /\ \A r \in Reader : download[r].at \in {"opened", "body", "entry"} => download[r].file \in File

DownloadInit ==
  /\ linked = File
  /\ collected = {}
  /\ download = [r \in Reader |-> Nothing]

-----------------------------------------------------------------------------
(* n bytes from place a on.                                                 *)
Run(a, n) == [k \in 1 .. n |-> a + k - 1]

Lesser(m, n) == IF m <= n THEN m ELSE n

(* Where block i begins, and how long it is.                                *)
Start(i) == i * BlockSize

(* Wrong HasBlock: a last block that is not full is not counted.            *)
HasFullBlock(f, i) == i = 0 \/ i < SizeOf[f] \div BlockSize

(* i < len(hashes).                                                         *)
HasBlock(f, i) == i = 0 \/ Start(i) < SizeOf[f]

BlockLength(f, i) == Lesser(BlockSize, SizeOf[f] - Start(i))

(* GetObjectRange(offset, -1): the block from offset on; with 0, GetObject. *)
GetObjectRange(f, i, offset) == Run(Start(i) + offset, BlockLength(f, i) - offset)

(* io.Copy from an io.LimitReader.                                          *)
Limited(bytes, left) == SubSeq(bytes, 1, Lesser(Len(bytes), left))

(* CalculateRangeBlockOffset.                                               *)
StartBlock(place) == place \div BlockSize
BlockOffset(place) == place % BlockSize

Whole(size) == [from |-> 0, total |-> size]

(* Wrong ParseRange: the end is not compared with the size.                 *)
ParseRangeOpenEnd(h, size) ==
  LET last == IF h.last = Unset THEN size - 1 ELSE h.last
  IN IF h.first # Unset /\ h.first < size /\ h.first <= last
     THEN [from |-> h.first, total |-> (last - h.first) + 1]
     ELSE Whole(size)

(* parseRangeHeader: what is no range of the file gets the whole file.      *)
ParseRange(h, size) ==
  LET last == IF h.last = Unset THEN size - 1 ELSE h.last
  IN IF h.first # Unset /\ h.first < size /\ h.first <= last /\ last < size
     THEN [from |-> h.first, total |-> (last - h.first) + 1]
     ELSE Whole(size)

Becomes(r, d) == download' = [download EXCEPT ![r] = d]

-----------------------------------------------------------------------------
(* GET /api/files/{id}/download: the row is read and no directory.          *)
HandleDownload(r, f) ==
  /\ download[r].at = "idle" /\ f \in linked
  /\ Becomes(r, [Nothing EXCEPT !.at = "opened", !.file = f])
  /\ UNCHANGED <<linked, collected>>

(* GetDownloadInfo and the headers of the answer; or 404.                   *)
GetDownloadInfo(r, h) ==
  LET f == download[r].file
      range == ParseRange(h, SizeOf[f])
  IN /\ download[r].at = "opened"
     /\ Becomes(r, IF f \in linked
                   THEN [Nothing EXCEPT !.at = "body", !.file = f,
                                        !.from = range.from,
                                        !.total = range.total,
                                        !.left = range.total,
                                        !.index = StartBlock(range.from),
                                        !.offset = BlockOffset(range.from)]
                   ELSE Nothing)
     /\ UNCHANGED <<linked, collected>>

(* The loop goes on.                                                        *)
Wanted(d) == HasBlock(d.file, d.index) /\ d.left > 0

Piece(d) == Limited(GetObjectRange(d.file, d.index, d.offset), d.left)

(* Wrong SendBlock: every block is read from the offset of the first.       *)
SendBlockFromOffset(r) ==
  LET d == download[r]
  IN /\ d.at = "body" /\ Wanted(d) /\ <<d.file, d.index>> \notin collected
     /\ Becomes(r, [d EXCEPT !.sent = @ \o Piece(d), !.left = @ - Len(Piece(d)),
                             !.index = @ + 1])
     /\ UNCHANGED <<linked, collected>>

(* Wrong SendBlock: the reader is not limited.                              *)
SendBlockUnlimited(r) ==
  LET d == download[r]
      bytes == GetObjectRange(d.file, d.index, d.offset)
  IN /\ d.at = "body" /\ Wanted(d) /\ <<d.file, d.index>> \notin collected
     /\ Becomes(r, [d EXCEPT !.sent = @ \o bytes, !.left = @ - Len(bytes),
                             !.index = @ + 1, !.offset = 0])
     /\ UNCHANGED <<linked, collected>>

SendBlock(r) ==
  LET d == download[r]
  IN /\ d.at = "body" /\ Wanted(d) /\ <<d.file, d.index>> \notin collected
     /\ Becomes(r, [d EXCEPT !.sent = @ \o Piece(d), !.left = @ - Len(Piece(d)),
                             !.index = @ + 1, !.offset = 0])
     /\ UNCHANGED <<linked, collected>>

BodyEnds(r) ==
  /\ download[r].at = "body" /\ ~Wanted(download[r])
  /\ Becomes(r, [download[r] EXCEPT !.at = "completed"])
  /\ UNCHANGED <<linked, collected>>

(* The block is gone, the storage fails, or the client went away.           *)
BodyBreaks(r) ==
  LET d == download[r]
  IN /\ d.at = "body" /\ Wanted(d)
     /\ \E n \in 0 .. Len(Piece(d)) :
          /\ <<d.file, d.index>> \in collected => n = 0
          /\ Becomes(r, [d EXCEPT !.at = "failed", !.sent = @ \o SubSeq(Piece(d), 1, n),
                                  !.left = @ - n])
     /\ UNCHANGED <<linked, collected>>

-----------------------------------------------------------------------------
(* StreamItemsZip: the files below the items, shortcuts resolved.           *)
StreamItemsZip(r, list) ==
  /\ download[r].at = "idle" /\ \A k \in 1 .. Len(list) : list[k] \in linked
  /\ Becomes(r, [Nothing EXCEPT !.at = "zip", !.todo = list])
  /\ UNCHANGED <<linked, collected>>

Archived(d, f, bytes) == Append(d.archive, [file |-> f, bytes |-> bytes])

(* The header of an entry, and ListFileBlockHashes, which finds no blocks   *)
(* of a file that was deleted since.                                        *)
OpenEntry(r) ==
  LET d == download[r]
      f == Head(d.todo)
  IN /\ d.at = "zip" /\ d.todo # <<>>
     /\ Becomes(r, IF f \in linked
                   THEN [d EXCEPT !.at = "entry", !.file = f, !.todo = Tail(@),
                                  !.index = 0, !.sent = <<>>]
                   ELSE [d EXCEPT !.todo = Tail(@), !.archive = Archived(d, f, <<>>)])
     /\ UNCHANGED <<linked, collected>>

ZipBlock(r) ==
  LET d == download[r]
  IN /\ d.at = "entry" /\ HasBlock(d.file, d.index) /\ <<d.file, d.index>> \notin collected
     /\ Becomes(r, [d EXCEPT !.sent = @ \o GetObjectRange(d.file, d.index, 0), !.index = @ + 1])
     /\ UNCHANGED <<linked, collected>>

EntryEnds(r) ==
  LET d == download[r]
  IN /\ d.at = "entry" /\ ~HasBlock(d.file, d.index)
     /\ Becomes(r, [d EXCEPT !.at = "zip", !.archive = Archived(d, d.file, d.sent)])
     /\ UNCHANGED <<linked, collected>>

ZipEnds(r) ==
  /\ download[r].at = "zip" /\ download[r].todo = <<>>
  /\ Becomes(r, [download[r] EXCEPT !.at = "completed"])
  /\ UNCHANGED <<linked, collected>>

(* Wrong EntryBreaks: a block that is gone is passed over.                  *)
EntryGoesOn(r) ==
  LET d == download[r]
  IN /\ d.at = "entry" /\ HasBlock(d.file, d.index) /\ <<d.file, d.index>> \in collected
     /\ Becomes(r, [d EXCEPT !.index = @ + 1])
     /\ UNCHANGED <<linked, collected>>

(* A block is gone, or the storage fails: the archive is closed as it is.   *)
EntryBreaks(r) ==
  LET d == download[r]
      bytes == GetObjectRange(d.file, d.index, 0)
  IN /\ d.at = "entry" /\ HasBlock(d.file, d.index)
     /\ \E n \in 0 .. Len(bytes) :
          /\ <<d.file, d.index>> \in collected => n = 0
          /\ Becomes(r, [d EXCEPT !.at = "failed",
                                  !.archive = Archived(d, d.file, d.sent \o SubSeq(bytes, 1, n))])
     /\ UNCHANGED <<linked, collected>>

(* The header is written, but the list of blocks cannot be had.             *)
ListFails(r) ==
  LET d == download[r]
  IN /\ d.at = "zip" /\ d.todo # <<>>
     /\ Becomes(r, [d EXCEPT !.at = "failed", !.archive = Archived(d, Head(d.todo), <<>>)])
     /\ UNCHANGED <<linked, collected>>

Return(r) ==
  /\ download[r].at \in {"completed", "failed"}
  /\ Becomes(r, Nothing)
  /\ UNCHANGED <<linked, collected>>

-----------------------------------------------------------------------------
(* DeleteRecursive has committed, and then garbageCollectBlocks.            *)
DeleteFile(f) ==
  /\ f \in linked
  /\ linked' = linked \ {f}
  /\ UNCHANGED <<collected, download>>

CollectBlock(f, i) ==
  /\ f \notin linked /\ HasBlock(f, i)
  /\ collected' = collected \cup {<<f, i>>}
  /\ UNCHANGED <<linked, download>>

OneFile(r) ==
  \/ \E f \in File : HandleDownload(r, f)
  \/ \E h \in Header : GetDownloadInfo(r, h)
  \/ SendBlock(r)
  \/ BodyEnds(r)
  \/ BodyBreaks(r)

Zip(r) ==
  \/ \E list \in ZipList : StreamItemsZip(r, list)
  \/ OpenEntry(r)
  \/ ZipBlock(r)
  \/ EntryEnds(r)
  \/ ZipEnds(r)
  \/ EntryBreaks(r)
  \/ ListFails(r)

DownloadNext ==
  \/ \E r \in Reader : OneFile(r) \/ Zip(r) \/ Return(r)
  \/ \E f \in File : DeleteFile(f) \/ \E i \in 0 .. SizeOf[f] : CollectBlock(f, i)

DownloadSpec == DownloadInit /\ [][DownloadNext]_downloadVars

-----------------------------------------------------------------------------
(* At every moment, and when it breaks off, the client has got a prefix of  *)
(* just the bytes that Content-Range and Content-Length announced, wherever *)
(* the range begins and ends within the blocks and whatever is deleted      *)
(* meanwhile.                                                               *)
BytesPromised ==
  \A r \in Reader :
    LET d == download[r]
    IN d.at \in {"body", "completed", "failed"} /\ d.file # NoFile /\ d.archive = <<>> =>
         /\ d.sent = Run(d.from, Len(d.sent))
         /\ d.from + d.total <= SizeOf[d.file]
         /\ Len(d.sent) + d.left = d.total

(* A download that is logged as completed has sent all that was announced:  *)
(* the loop does not run out of blocks before, and a block that is gone is  *)
(* never passed over.                                                       *)
CompletedWhole == \A r \in Reader : download[r].at = "completed" => download[r].left = 0

(* An entry of an archive is the whole file, unless the file was deleted    *)
(* after it was listed (then it may be empty) or it is the last one of an   *)
(* answer that failed.                                                      *)
EntriesWhole ==
  \A r \in Reader : \A k \in 1 .. Len(download[r].archive) :
    LET e == download[r].archive[k]
    IN \/ e.bytes = Run(0, SizeOf[e.file])
       \/ e.bytes = <<>> /\ e.file \notin linked
       \/ download[r].at = "failed" /\ k = Len(download[r].archive)
=============================================================================
