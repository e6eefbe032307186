------------------------ MODULE FileDownload_proofs ------------------------
(***************************************************************************)
(* Theorems about downloads, for any block size, any files and sizes and    *)
(* any ranges.                                                              *)
(***************************************************************************)
EXTENDS FileDownload, SequenceTheorems, TLAPS

(* What is sent of one file.                                                *)
Announced(d) ==
  /\ d.sent = Run(d.from, Len(d.sent))
  /\ d.from + d.total <= SizeOf[d.file]
  /\ Len(d.sent) + d.left = d.total

(* The next block continues what was sent.                                  *)
Continues(d) ==
  d.left = 0 \/ (Start(d.index) + d.offset = d.from + Len(d.sent) /\ d.offset < BlockSize)

(* The open entry holds the blocks before the next one.                     *)
EntryOpen(d) ==
  /\ d.sent = Run(0, Len(d.sent))
  /\ Len(d.sent) = Lesser(Start(d.index), SizeOf[d.file])

EntryWhole(d, k) ==
  LET e == d.archive[k]
  IN \/ e.bytes = Run(0, SizeOf[e.file])
     \/ e.bytes = <<>> /\ e.file \notin linked
     \/ d.at = "failed" /\ k = Len(d.archive)

Good(d) ==
  /\ d.at \in {"opened", "body", "entry"} => d.file \in File
  /\ d.at = "body" => Announced(d) /\ Continues(d) /\ d.archive = <<>>
  /\ d.at \in {"completed", "failed"} /\ d.file # NoFile /\ d.archive = <<>> => Announced(d)
  /\ d.at \in {"completed", "zip", "entry"} => d.left = 0
  /\ d.at = "zip" /\ d.file # NoFile => d.archive # <<>>
  /\ d.at = "entry" => EntryOpen(d)
  /\ \A k \in 1 .. Len(d.archive) : EntryWhole(d, k)

Inv == DownloadTypeOK /\ \A r \in Reader : Good(download[r])

-----------------------------------------------------------------------------
(* Runs of bytes.                                                           *)
LEMMA RunIs ==
  ASSUME NEW a \in Nat, NEW n \in Nat
  PROVE  Run(a, n) \in Seq(Nat) /\ Len(Run(a, n)) = n /\ \A k \in 1 .. n : Run(a, n)[k] = a + k - 1
<1>1. \A k \in 1 .. n : a + k - 1 \in Nat
  OBVIOUS
<1> QED
  BY <1>1 DEF Run

LEMMA RunEmpty ==
  ASSUME NEW a \in Nat
  PROVE  Run(a, 0) = <<>>
BY RunIs

LEMMA RunConcat ==
  ASSUME NEW a \in Nat, NEW m \in Nat, NEW n \in Nat
  PROVE  Run(a, m) \o Run(a + m, n) = Run(a, m + n)
<1> DEFINE s == Run(a, m)
           t == Run(a + m, n)
           u == Run(a, m + n)
<1>1. a + m \in Nat /\ m + n \in Nat
  OBVIOUS
<1>2. s \in Seq(Nat) /\ Len(s) = m /\ \A k \in 1 .. m : s[k] = a + k - 1
  BY RunIs
<1>3. t \in Seq(Nat) /\ Len(t) = n /\ \A k \in 1 .. n : t[k] = (a + m) + k - 1
  BY <1>1, RunIs
<1>4. u \in Seq(Nat) /\ Len(u) = m + n /\ \A k \in 1 .. m + n : u[k] = a + k - 1
  BY <1>1, RunIs
<1> HIDE DEF s, t, u
<1>5. /\ s \o t \in Seq(Nat) /\ Len(s \o t) = m + n
      /\ \A k \in 1 .. m + n : (s \o t)[k] = IF k <= m THEN s[k] ELSE t[k - m]
  BY <1>2, <1>3, ConcatProperties
<1>6. ASSUME NEW k \in 1 .. m + n PROVE (s \o t)[k] = u[k]
  <2>1. k \in Int /\ 1 <= k /\ k <= m + n
    BY <1>1
  <2>2. k <= m => s[k] = u[k]
    BY <1>2, <1>4, <2>1
  <2>3. ~(k <= m) => k - m \in 1 .. n
    BY <2>1
  <2>4. ~(k <= m) => t[k - m] = (a + m) + (k - m) - 1
    BY <1>3, <2>3
  <2>5. (a + m) + (k - m) - 1 = a + k - 1
    BY <2>1
  <2>6. (s \o t)[k] = IF k <= m THEN s[k] ELSE t[k - m]
    BY <1>5
  <2>7. u[k] = a + k - 1
    BY <1>4
  <2> QED
    BY <2>2, <2>4, <2>5, <2>6, <2>7
<1>7. s \o t = u
  BY <1>4, <1>5, <1>6, SeqEqual
<1> QED
  BY <1>7 DEF s, t, u

LEMMA SubRun ==
  ASSUME NEW a \in Nat, NEW m \in Nat, NEW n \in 0 .. m
  PROVE  SubSeq(Run(a, m), 1, n) = Run(a, n)
<1> DEFINE s == Run(a, m)
           t == Run(a, n)
<1>1. /\ s \in Seq(Nat) /\ Len(s) = m /\ \A k \in 1 .. m : s[k] = a + k - 1
      /\ t \in Seq(Nat) /\ Len(t) = n /\ \A k \in 1 .. n : t[k] = a + k - 1
  BY RunIs
<1> HIDE DEF s, t
<1>2. SubSeq(s, 1, n) \in Seq(Nat) /\ Len(SubSeq(s, 1, n)) = n
      /\ \A k \in 1 .. n : SubSeq(s, 1, n)[k] = s[k]
  BY <1>1
<1> QED
  BY <1>1, <1>2 DEF s, t

(* Blocks.                                                                  *)
LEMMA Blocks ==
  ASSUME NEW i \in Nat
  PROVE  Start(i) \in Nat /\ Start(i + 1) = Start(i) + BlockSize /\ Start(0) = 0
BY BlockSizeAssumption DEF Start

LEMMA Offsets ==
  ASSUME NEW p \in Nat
  PROVE  /\ StartBlock(p) \in Nat /\ BlockOffset(p) \in Nat
         /\ Start(StartBlock(p)) + BlockOffset(p) = p /\ BlockOffset(p) < BlockSize
BY BlockSizeAssumption DEF StartBlock, BlockOffset, Start

LEMMA Ranges ==
  ASSUME NEW h \in Header, NEW size \in Nat
  PROVE  LET p == ParseRange(h, size)
         IN p.from \in Nat /\ p.total \in Nat /\ p.from + p.total <= size
BY HeaderAssumption, UnsetAssumption DEF ParseRange, Whole

-----------------------------------------------------------------------------
(* One request goes on.                                                     *)
LEMMA RequestStep ==
  ASSUME Inv, NEW r \in Reader, NEW d \in Download, Good(d), Becomes(r, d),
         UNCHANGED <<linked, collected>>
  PROVE  Inv'
<1>1. \A q \in Reader : download'[q] = IF q = r THEN d ELSE download[q]
  BY DEF Inv, DownloadTypeOK, Becomes
<1>2. DownloadTypeOK'
  BY <1>1 DEF Inv, DownloadTypeOK, Becomes, Good
<1>3. ASSUME NEW q \in Reader PROVE Good(download[q])'
  <2>1. Good(download'[q])
    BY <1>1 DEF Inv
  <2> QED
    BY <2>1 DEF Good, EntryWhole
<1> QED
  BY <1>2, <1>3 DEF Inv

LEMMA NothingGood == Nothing \in Download /\ Good(Nothing)
BY DEF Nothing, Download, Entry, Good, EntryWhole

LEMMA InitInv == DownloadInit => Inv
BY NothingGood DEF DownloadInit, Inv, DownloadTypeOK, Nothing

(* Less is linked: what was excused stays excused.                          *)
LEMMA DeleteStep ==
  ASSUME Inv,
         \/ \E f \in File : DeleteFile(f)
         \/ \E f \in File, i \in Nat : CollectBlock(f, i)
  PROVE  Inv'
<1>1. linked' \subseteq linked /\ download' = download
  BY DEF DeleteFile, CollectBlock
<1>2. DownloadTypeOK'
  BY DEF Inv, DownloadTypeOK, DeleteFile, CollectBlock
<1>3. ASSUME NEW r \in Reader PROVE Good(download[r])'
  BY <1>1 DEF Inv, DownloadTypeOK, Good, EntryWhole, Download, Entry, Announced, Continues, EntryOpen
<1> QED
  BY <1>2, <1>3 DEF Inv

-----------------------------------------------------------------------------
(* Reading and sending.                                                     *)
LEMMA Sizes ==
  ASSUME NEW f \in File, NEW i \in Nat, HasBlock(f, i)
  PROVE  /\ SizeOf[f] \in Nat /\ Start(i) \in Nat /\ Start(i) <= SizeOf[f]
         /\ BlockLength(f, i) \in Nat /\ BlockLength(f, i) <= BlockSize
         /\ Start(i) + BlockLength(f, i) = Lesser(Start(i + 1), SizeOf[f])
<1>1. SizeOf[f] \in Nat /\ BlockSize \in Nat
  BY SizeAssumption, BlockSizeAssumption
<1>2. Start(i) \in Nat /\ Start(i + 1) = Start(i) + BlockSize /\ (i = 0 => Start(i) = 0)
  BY Blocks
<1>3. Start(i) <= SizeOf[f]
  BY <1>1, <1>2 DEF HasBlock
<1> QED
  BY <1>1, <1>2, <1>3 DEF BlockLength, Lesser

LEMMA Extended ==
  ASSUME NEW a \in Nat, NEW s \in Seq(Nat), s = Run(a, Len(s)), NEW n \in Nat
  PROVE  /\ s \o Run(a + Len(s), n) \in Seq(Nat)
         /\ s \o Run(a + Len(s), n) = Run(a, Len(s) + n)
         /\ Len(s \o Run(a + Len(s), n)) = Len(s) + n
<1>1. Len(s) \in Nat
  OBVIOUS
<1>2. PICK m \in Nat : m = Len(s)
  BY <1>1
<1>3. Run(a, m) \o Run(a + m, n) = Run(a, m + n)
  BY RunConcat
<1>4. m + n \in Nat
  OBVIOUS
<1>5. Run(a, m + n) \in Seq(Nat) /\ Len(Run(a, m + n)) = m + n
  BY <1>4, RunIs
<1> QED
  BY <1>2, <1>3, <1>5

LEMMA PieceIs ==
  ASSUME NEW d \in Download, d.file \in File, Announced(d), Continues(d), Wanted(d)
  PROVE  \E n \in Nat :
           /\ Piece(d) = Run(d.from + Len(d.sent), n) /\ n <= d.left
           /\ n = d.left \/ Start(d.index + 1) = d.from + Len(d.sent) + n
<1>1. /\ d.from \in Nat /\ d.total \in Nat /\ d.left \in Nat /\ d.index \in Nat
      /\ d.offset \in Nat /\ d.sent \in Seq(Nat) /\ Len(d.sent) \in Nat
  BY DEF Download
<1>2. SizeOf[d.file] \in Nat /\ BlockSize \in Nat
  BY SizeAssumption, BlockSizeAssumption
<1>3. Start(d.index) \in Nat /\ Start(d.index + 1) = Start(d.index) + BlockSize
  BY <1>1, Blocks
<1>4. /\ Start(d.index) + d.offset = d.from + Len(d.sent) /\ d.offset < BlockSize /\ d.left > 0
      /\ d.from + d.total <= SizeOf[d.file] /\ Len(d.sent) + d.left = d.total
  BY <1>1 DEF Announced, Continues, Wanted
<1>5. PICK m, n : m = BlockLength(d.file, d.index) - d.offset /\ n = Lesser(m, d.left)
  OBVIOUS
<1>6. /\ m \in Nat /\ n \in Nat /\ n <= m /\ n <= d.left
      /\ n = d.left \/ Start(d.index) + BlockSize = d.from + Len(d.sent) + n
  <2>1. PICK start \in Nat, size \in Nat, offset \in Nat, left \in Nat :
          start = Start(d.index) /\ size = SizeOf[d.file] /\ offset = d.offset /\ left = d.left
    BY <1>1, <1>2, <1>3
  <2>2. PICK from \in Nat, len \in Nat, total \in Nat :
          from = d.from /\ len = Len(d.sent) /\ total = d.total
    BY <1>1
  <2>3. PICK block \in Nat : block = BlockSize
    BY <1>2
  <2>4. /\ start + offset = from + len /\ offset < block /\ left > 0
        /\ from + total <= size /\ len + left = total
    BY <1>4, <2>1, <2>2, <2>3
  <2>5. m = Lesser(block, size - start) - offset /\ n = Lesser(m, left)
    BY <1>5, <2>1, <2>3 DEF BlockLength
  <2>6. m \in Nat
    BY <2>4, <2>5 DEF Lesser
  <2>7. n \in Nat /\ n <= m /\ n <= left /\ (n = left \/ n = m)
    BY <2>5, <2>6 DEF Lesser
  <2>8. m < left => start + block = from + len + m
    BY <2>4, <2>5 DEF Lesser
  <2> QED
    BY <2>1, <2>2, <2>3, <2>6, <2>7, <2>8
<1>7. PICK a \in Nat : a = d.from + Len(d.sent)
  BY <1>1
<1>8. GetObjectRange(d.file, d.index, d.offset) = Run(a, m)
  BY <1>4, <1>5, <1>7 DEF GetObjectRange
<1>9. Len(Run(a, m)) = m /\ SubSeq(Run(a, m), 1, n) = Run(a, n)
  BY <1>6, RunIs, SubRun
<1>10. Piece(d) = Run(a, n)
  BY <1>5, <1>8, <1>9 DEF Piece, Limited
<1> QED
  BY <1>3, <1>6, <1>7, <1>10

(* What is left of an answer when n more bytes of the piece were sent.      *)
LEMMA Sent ==
  ASSUME NEW d \in Download, Announced(d), NEW n \in Nat, n <= d.left,
         NEW e \in Download, e.file = d.file, e.from = d.from, e.total = d.total,
         e.left = d.left - n, e.sent = d.sent \o Run(d.from + Len(d.sent), n)
  PROVE  Announced(e) /\ Len(e.sent) = Len(d.sent) + n
<1>1. /\ d.from \in Nat /\ d.total \in Nat /\ d.left \in Nat
      /\ d.sent \in Seq(Nat) /\ Len(d.sent) \in Nat
  BY DEF Download
<1>2. d.sent = Run(d.from, Len(d.sent))
  BY DEF Announced
<1>3. e.sent = Run(d.from, Len(d.sent) + n) /\ Len(e.sent) = Len(d.sent) + n
  <2>1. PICK s \in Seq(Nat) : s = d.sent
    BY <1>1
  <2>2. PICK a \in Nat : a = d.from
    BY <1>1
  <2>3. s = Run(a, Len(s))
    BY <1>2, <2>1, <2>2
  <2>4. s \o Run(a + Len(s), n) = Run(a, Len(s) + n) /\ Len(s \o Run(a + Len(s), n)) = Len(s) + n
    BY <2>3, Extended
  <2> QED
    BY <2>1, <2>2, <2>4
<1>4. Len(e.sent) + e.left = d.total
  <2>1. d.from + d.total <= SizeOf[d.file] /\ Len(d.sent) + d.left = d.total
    BY DEF Announced
  <2>2. PICK len \in Nat, left \in Nat, total \in Nat :
          len = Len(d.sent) /\ left = d.left /\ total = d.total
    BY <1>1
  <2>3. (len + n) + (left - n) = total
    BY <2>1, <2>2
  <2> QED
    BY <1>3, <2>2, <2>3
<1> QED
  BY <1>3, <1>4 DEF Announced

-----------------------------------------------------------------------------
LEMMA Current ==
  ASSUME Inv, NEW r \in Reader
  PROVE  /\ download[r] \in Download /\ Good(download[r])
         /\ download[r].at \in {"opened", "body", "entry"} => download[r].file \in File
BY DEF Inv, DownloadTypeOK

LEMMA OneFileStep ==
  ASSUME Inv, NEW r \in Reader, OneFile(r) \/ Return(r)
  PROVE  Inv'
<1> DEFINE d == download[r]
<1>0. d \in Download /\ Good(d) /\ (d.at \in {"opened", "body", "entry"} => d.file \in File)
  BY Current
<1> HIDE DEF d
<1>1. ASSUME NEW f \in File, HandleDownload(r, f) PROVE Inv'
  <2>1. PICK e : e = [Nothing EXCEPT !.at = "opened", !.file = f]
    OBVIOUS
  <2>2. e \in Download
    BY <2>1, NothingGood DEF Download
  <2>3. e.at = "opened" /\ e.file = f /\ e.archive = <<>>
    BY <2>1 DEF Nothing
  <2>4. Good(e)
    BY <2>3 DEF Good
  <2> QED
    BY <1>1, <2>1, <2>2, <2>4, RequestStep DEF HandleDownload
<1>2. ASSUME NEW h \in Header, GetDownloadInfo(r, h) PROVE Inv'
  <2>1. d.at = "opened" /\ d.file \in File
    BY <1>0, <1>2 DEF GetDownloadInfo, d
  <2>2. PICK range : range = ParseRange(h, SizeOf[d.file])
    OBVIOUS
  <2>3. SizeOf[d.file] \in Nat
    BY <2>1, SizeAssumption
  <2>4. range.from \in Nat /\ range.total \in Nat /\ range.from + range.total <= SizeOf[d.file]
    BY <2>2, <2>3, Ranges
  <2>5. PICK e : e = [Nothing EXCEPT !.at = "body", !.file = d.file, !.from = range.from,
                                     !.total = range.total, !.left = range.total,
                                     !.index = StartBlock(range.from),
                                     !.offset = BlockOffset(range.from)]
    OBVIOUS
  <2>6. /\ StartBlock(range.from) \in Nat /\ BlockOffset(range.from) \in Nat
        /\ Start(StartBlock(range.from)) + BlockOffset(range.from) = range.from
        /\ BlockOffset(range.from) < BlockSize
    BY <2>4, Offsets
  <2>7. e \in Download
    BY <2>1, <2>4, <2>5, <2>6, NothingGood DEF Download
  <2>8. /\ e.at = "body" /\ e.file = d.file /\ e.from = range.from /\ e.total = range.total
        /\ e.left = range.total /\ e.index = StartBlock(range.from)
        /\ e.offset = BlockOffset(range.from) /\ e.sent = <<>> /\ e.archive = <<>>
    BY <2>5 DEF Nothing
  <2>9. Announced(e)
    BY <2>4, <2>8, RunEmpty DEF Announced
  <2>10. Continues(e)
    BY <2>4, <2>6, <2>8 DEF Continues
  <2>11. Good(e)
    BY <2>1, <2>8, <2>9, <2>10 DEF Good
  <2>12. Becomes(r, e) \/ Becomes(r, Nothing)
    BY <1>2, <2>2, <2>5 DEF GetDownloadInfo, d
  <2> QED
    BY <1>2, <2>7, <2>11, <2>12, NothingGood, RequestStep DEF GetDownloadInfo
<1>3. CASE SendBlock(r)
  <2>1. /\ d.at = "body" /\ Wanted(d) /\ d.file \in File
        /\ Announced(d) /\ Continues(d) /\ d.archive = <<>>
    BY <1>0, <1>3 DEF SendBlock, Good, d
  <2>2. PICK n \in Nat : /\ Piece(d) = Run(d.from + Len(d.sent), n) /\ n <= d.left
                         /\ n = d.left \/ Start(d.index + 1) = d.from + Len(d.sent) + n
    BY <1>0, <2>1, PieceIs
  <2>3. d.from \in Nat /\ d.sent \in Seq(Nat) /\ d.left \in Nat /\ d.index \in Nat /\ Len(d.sent) \in Nat
    BY <1>0 DEF Download
  <2>4. Len(Piece(d)) = n /\ Piece(d) \in Seq(Nat)
    <3>1. d.from + Len(d.sent) \in Nat
      BY <2>3
    <3> QED
      BY <2>2, <3>1, RunIs
  <2>5. PICK e : e = [d EXCEPT !.sent = d.sent \o Piece(d), !.left = d.left - n,
                               !.index = d.index + 1, !.offset = 0]
    OBVIOUS
  <2>6. d.sent \o Piece(d) \in Seq(Nat) /\ d.left - n \in Nat /\ d.index + 1 \in Nat
    BY <2>2, <2>3, <2>4
  <2>7. e \in Download
    BY <1>0, <2>5, <2>6 DEF Download
  <2>8. /\ e.at = "body" /\ e.file = d.file /\ e.from = d.from /\ e.total = d.total
        /\ e.left = d.left - n /\ e.index = d.index + 1 /\ e.offset = 0
        /\ e.sent = d.sent \o Run(d.from + Len(d.sent), n) /\ e.archive = <<>>
    BY <1>0, <2>1, <2>2, <2>5 DEF Download
  <2>9. Announced(e) /\ Len(e.sent) = Len(d.sent) + n
    BY <1>0, <2>1, <2>2, <2>7, <2>8, Sent
  <2>10. Continues(e)
    <3>1. CASE n = d.left
      <4>1. e.left = 0
        BY <2>3, <2>8, <3>1
      <4> QED
        BY <4>1 DEF Continues
    <3>2. CASE Start(d.index + 1) = d.from + Len(d.sent) + n
      <4>1. Start(d.index + 1) \in Nat
        BY <2>6, Blocks
      <4>2. d.from + Len(d.sent) + n = d.from + (Len(d.sent) + n)
        BY <2>3
      <4>3. Start(e.index) + e.offset = e.from + Len(e.sent)
        <5>1. PICK start \in Nat : start = Start(d.index + 1)
          BY <4>1
        <5>2. start + 0 = start
          OBVIOUS
        <5>3. Start(e.index) + e.offset = start
          BY <2>8, <5>1, <5>2
        <5>4. e.from + Len(e.sent) = d.from + (Len(d.sent) + n)
          BY <2>8, <2>9
        <5> QED
          BY <3>2, <4>2, <5>1, <5>3, <5>4
      <4>4. e.offset < BlockSize
        BY <2>8, BlockSizeAssumption
      <4> QED
        BY <4>3, <4>4 DEF Continues
    <3> QED
      BY <2>2, <3>1, <3>2
  <2>11. Good(e)
    BY <2>1, <2>8, <2>9, <2>10 DEF Good
  <2>12. Becomes(r, e)
    BY <1>3, <2>4, <2>5 DEF SendBlock, Becomes, d
  <2> QED
    BY <1>3, <2>7, <2>11, <2>12, RequestStep DEF SendBlock
<1>4. CASE BodyEnds(r)
  <2>1. /\ d.at = "body" /\ ~Wanted(d) /\ d.file \in File
        /\ Announced(d) /\ Continues(d) /\ d.archive = <<>>
    BY <1>0, <1>4 DEF BodyEnds, Good, d
  <2>2. d.left = 0
    <3>1. PICK from \in Nat, len \in Nat, left \in Nat, total \in Nat, i \in Nat, offset \in Nat :
            /\ from = d.from /\ len = Len(d.sent) /\ left = d.left
            /\ total = d.total /\ i = d.index /\ offset = d.offset
      <4>1. d.sent \in Seq(Nat) /\ Len(d.sent) \in Nat
        BY <1>0 DEF Download
      <4>2. /\ d.from \in Nat /\ d.left \in Nat /\ d.total \in Nat
            /\ d.index \in Nat /\ d.offset \in Nat
        BY <1>0 DEF Download
      <4> QED
        BY <4>1, <4>2
    <3>2. PICK size \in Nat : size = SizeOf[d.file]
      BY <2>1, SizeAssumption
    <3>3. PICK start \in Nat : start = Start(i)
      BY Blocks
    <3>4. from + total <= size /\ len + left = total
      BY <2>1, <3>1, <3>2 DEF Announced
    <3>5. left = 0 \/ start + offset = from + len
      BY <2>1, <3>1, <3>3 DEF Continues
    <3>6. left > 0 => start >= size
      BY <2>1, <3>1, <3>2, <3>3 DEF Wanted, HasBlock
    <3>7. left = 0
      BY <3>4, <3>5, <3>6
    <3> QED
      BY <3>1, <3>7
  <2>3. PICK e : e = [d EXCEPT !.at = "completed"]
    OBVIOUS
  <2>4. e \in Download
    BY <1>0, <2>3 DEF Download
  <2>5. /\ e.at = "completed" /\ e.file = d.file /\ e.from = d.from /\ e.total = d.total
        /\ e.left = d.left /\ e.sent = d.sent /\ e.archive = <<>>
    BY <1>0, <2>1, <2>3 DEF Download
  <2>6. Good(e)
    BY <2>1, <2>2, <2>5 DEF Good, Announced
  <2> QED
    BY <1>4, <2>3, <2>4, <2>6, RequestStep DEF BodyEnds, d
<1>5. CASE BodyBreaks(r)
  <2>1. /\ d.at = "body" /\ Wanted(d) /\ d.file \in File
        /\ Announced(d) /\ Continues(d) /\ d.archive = <<>>
    BY <1>0, <1>5 DEF BodyBreaks, Good, d
  <2>2. PICK n \in 0 .. Len(Piece(d)) :
          Becomes(r, [d EXCEPT !.at = "failed", !.sent = d.sent \o SubSeq(Piece(d), 1, n),
                               !.left = d.left - n])
    BY <1>5 DEF BodyBreaks, Becomes, d
  <2>3. PICK m \in Nat : Piece(d) = Run(d.from + Len(d.sent), m) /\ m <= d.left
    BY <1>0, <2>1, PieceIs
  <2>4. d.from \in Nat /\ d.sent \in Seq(Nat) /\ d.left \in Nat /\ Len(d.sent) \in Nat
    BY <1>0 DEF Download
  <2>5. PICK a \in Nat : a = d.from + Len(d.sent)
    BY <2>4
  <2>6. n \in 0 .. m /\ n \in Nat /\ n <= d.left
    <3>1. Len(Piece(d)) = m
      BY <2>3, <2>5, RunIs
    <3> QED
      BY <2>2, <2>3, <2>4, <3>1
  <2>7. SubSeq(Piece(d), 1, n) = Run(d.from + Len(d.sent), n) /\ Run(a, n) \in Seq(Nat)
    BY <2>3, <2>5, <2>6, SubRun, RunIs
  <2>8. PICK e : e = [d EXCEPT !.at = "failed", !.sent = d.sent \o SubSeq(Piece(d), 1, n),
                               !.left = d.left - n]
    OBVIOUS
  <2>9. d.sent \o SubSeq(Piece(d), 1, n) \in Seq(Nat) /\ d.left - n \in Nat
    BY <2>4, <2>5, <2>6, <2>7
  <2>10. e \in Download
    BY <1>0, <2>8, <2>9 DEF Download
  <2>11. /\ e.at = "failed" /\ e.file = d.file /\ e.from = d.from /\ e.total = d.total
         /\ e.left = d.left - n /\ e.sent = d.sent \o Run(d.from + Len(d.sent), n)
         /\ e.archive = <<>>
    BY <1>0, <2>1, <2>7, <2>8 DEF Download
  <2>12. Announced(e)
    BY <1>0, <2>1, <2>6, <2>10, <2>11, Sent
  <2>13. Good(e)
    BY <2>11, <2>12 DEF Good
  <2> QED
    BY <1>5, <2>2, <2>8, <2>10, <2>13, RequestStep DEF BodyBreaks
<1>6. CASE Return(r)
  BY <1>6, NothingGood, RequestStep DEF Return
<1> QED
  BY <1>1, <1>2, <1>3, <1>4, <1>5, <1>6 DEF OneFile

-----------------------------------------------------------------------------
(* Archives.                                                                *)
LEMMA Archiving ==
  ASSUME NEW d \in Download, NEW f \in File, NEW bytes \in Seq(Nat),
         NEW e, e.archive = Archived(d, f, bytes), d.at # "failed",
         \A k \in 1 .. Len(d.archive) : EntryWhole(d, k),
         \/ bytes = Run(0, SizeOf[f])
         \/ bytes = <<>> /\ f \notin linked
         \/ e.at = "failed"
  PROVE  /\ e.archive \in Seq(Entry) /\ e.archive # <<>>
         /\ \A k \in 1 .. Len(e.archive) : EntryWhole(e, k)
<1>1. PICK archive \in Seq(Entry) : archive = d.archive
  BY DEF Download
<1>2. PICK entry \in Entry : entry = [file |-> f, bytes |-> bytes]
  BY DEF Entry
<1>3. entry.file = f /\ entry.bytes = bytes
  BY <1>2
<1>4. e.archive = Append(archive, entry)
  BY <1>1, <1>2 DEF Archived
<1>5. /\ e.archive \in Seq(Entry) /\ Len(e.archive) = Len(archive) + 1 /\ Len(archive) \in Nat
      /\ e.archive[Len(archive) + 1] = entry
      /\ \A k \in 1 .. Len(archive) : e.archive[k] = archive[k]
  BY <1>4
<1>6. e.archive # <<>>
  BY <1>5
<1>7. ASSUME NEW k \in 1 .. Len(e.archive) PROVE EntryWhole(e, k)
  <2>1. CASE k = Len(archive) + 1
    <3>1. e.archive[k] = entry /\ k = Len(e.archive)
      BY <1>5, <2>1
    <3> QED
      BY <1>3, <3>1 DEF EntryWhole
  <2>2. CASE k # Len(archive) + 1
    <3>1. k \in 1 .. Len(archive)
      BY <1>5, <2>2
    <3>2. e.archive[k] = d.archive[k] /\ EntryWhole(d, k)
      BY <1>1, <1>5, <3>1
    <3> QED
      BY <3>2 DEF EntryWhole
  <2> QED
    BY <2>1, <2>2
<1> QED
  BY <1>5, <1>6, <1>7

LEMMA ArchiveKept ==
  ASSUME NEW d, NEW e, e.archive = d.archive, d.at # "failed",
         \A k \in 1 .. Len(d.archive) : EntryWhole(d, k)
  PROVE  \A k \in 1 .. Len(e.archive) : EntryWhole(e, k)
BY DEF EntryWhole

(* A block added to an entry.                                               *)
LEMMA BlockAdded ==
  ASSUME NEW d \in Download, d.file \in File, EntryOpen(d), HasBlock(d.file, d.index)
  PROVE  LET sent == d.sent \o GetObjectRange(d.file, d.index, 0)
         IN /\ sent \in Seq(Nat) /\ sent = Run(0, Len(sent))
            /\ Len(sent) = Lesser(Start(d.index + 1), SizeOf[d.file])
            /\ GetObjectRange(d.file, d.index, 0) \in Seq(Nat)
<1>1. PICK s \in Seq(Nat), i \in Nat, f \in File : s = d.sent /\ i = d.index /\ f = d.file
  BY DEF Download
<1>2. s = Run(0, Len(s)) /\ Len(s) = Lesser(Start(i), SizeOf[f]) /\ HasBlock(f, i)
  BY <1>1 DEF EntryOpen
<1>3. PICK size \in Nat, start \in Nat, n \in Nat :
        size = SizeOf[f] /\ start = Start(i) /\ n = BlockLength(f, i)
  BY <1>2, Sizes
<1>4. start <= size /\ start + n = Lesser(Start(i + 1), size)
  BY <1>2, <1>3, Sizes
<1>5. Len(s) = start
  BY <1>2, <1>3, <1>4 DEF Lesser
<1>6. GetObjectRange(f, i, 0) = Run(start, n)
  <2>1. start + 0 = start /\ n - 0 = n
    OBVIOUS
  <2> QED
    BY <1>3, <2>1 DEF GetObjectRange
<1>7. /\ s \o Run(0 + Len(s), n) \in Seq(Nat)
      /\ s \o Run(0 + Len(s), n) = Run(0, Len(s) + n)
      /\ Len(s \o Run(0 + Len(s), n)) = Len(s) + n
  BY <1>2, Extended
<1>8. 0 + Len(s) = start
  BY <1>5
<1>9. PICK sent : sent = s \o Run(start, n)
  OBVIOUS
<1>10. sent \in Seq(Nat) /\ sent = Run(0, Len(sent)) /\ Len(sent) = start + n
  BY <1>5, <1>7, <1>8, <1>9
<1>11. Run(start, n) \in Seq(Nat)
  BY RunIs
<1> QED
  BY <1>1, <1>3, <1>4, <1>6, <1>9, <1>10, <1>11

LEMMA ZipStep ==
  ASSUME Inv, NEW r \in Reader, Zip(r)
  PROVE  Inv'
<1> DEFINE d == download[r]
<1>0. d \in Download /\ Good(d) /\ (d.at \in {"opened", "body", "entry"} => d.file \in File)
  BY Current
<1>a. d.archive \in Seq(Entry) /\ d.todo \in Seq(File) /\ d.sent \in Seq(Nat) /\ d.index \in Nat
  BY <1>0 DEF Download
<1>b. d.at # "failed" => \A k \in 1 .. Len(d.archive) : EntryWhole(d, k)
  BY <1>0 DEF Good
<1>c. <<>> \in Seq(Nat)
  OBVIOUS
<1>d. d.todo # <<>> => Head(d.todo) \in File /\ Tail(d.todo) \in Seq(File)
  BY <1>a
<1> HIDE DEF d
<1>1. ASSUME NEW list \in ZipList, StreamItemsZip(r, list) PROVE Inv'
  <2>1. PICK e : e = [Nothing EXCEPT !.at = "zip", !.todo = list]
    OBVIOUS
  <2>2. e \in Download
    BY <2>1, NothingGood, ZipListAssumption DEF Download
  <2>3. e.at = "zip" /\ e.file = NoFile /\ e.left = 0 /\ e.archive = <<>>
    BY <2>1 DEF Nothing
  <2>4. Good(e)
    BY <2>3 DEF Good
  <2> QED
    BY <1>1, <2>1, <2>2, <2>4, RequestStep DEF StreamItemsZip
<1>2. CASE OpenEntry(r)
  <2>1. d.at = "zip" /\ d.todo # <<>> /\ d.left = 0
    BY <1>0, <1>2 DEF OpenEntry, Good, d
  <2>2. PICK f \in File : f = Head(d.todo)
    BY <1>d, <2>1
  <2>3. PICK e : e = [d EXCEPT !.at = "entry", !.file = f, !.todo = Tail(d.todo),
                               !.index = 0, !.sent = <<>>]
    OBVIOUS
  <2>4. e \in Download
    BY <1>0, <1>c, <1>d, <2>1, <2>3 DEF Download
  <2>5. /\ e.at = "entry" /\ e.file = f /\ e.left = 0 /\ e.index = 0 /\ e.sent = <<>>
        /\ e.archive = d.archive
    BY <1>0, <2>1, <2>3 DEF Download
  <2>6. EntryOpen(e)
    <3>1. Start(0) = 0 /\ SizeOf[f] \in Nat /\ Run(0, 0) = <<>>
      BY Blocks, RunEmpty, SizeAssumption
    <3> QED
      BY <2>5, <3>1 DEF EntryOpen, Lesser
  <2>7. Good(e)
    BY <1>b, <2>1, <2>5, <2>6, ArchiveKept DEF Good
  <2>8. PICK g : g = [d EXCEPT !.todo = Tail(d.todo), !.archive = Archived(d, f, <<>>)]
    OBVIOUS
  <2>9. g.at = "zip" /\ g.left = 0 /\ g.archive = Archived(d, f, <<>>)
    BY <1>0, <2>1, <2>8 DEF Download
  <2>10. f \notin linked => /\ g.archive \in Seq(Entry) /\ g.archive # <<>>
                            /\ \A k \in 1 .. Len(g.archive) : EntryWhole(g, k)
    BY <1>0, <1>b, <1>c, <2>1, <2>9, Archiving
  <2>11. f \notin linked => g \in Download /\ Good(g)
    <3>1. f \notin linked => g \in Download
      BY <1>0, <1>d, <2>1, <2>8, <2>9, <2>10 DEF Download
    <3>2. f \notin linked => Good(g)
      BY <2>9, <2>10 DEF Good
    <3> QED
      BY <3>1, <3>2
  <2>12. Becomes(r, IF f \in linked THEN e ELSE g) /\ UNCHANGED <<linked, collected>>
    BY <1>2, <2>2, <2>3, <2>8 DEF OpenEntry, Becomes, d
  <2> QED
    BY <2>4, <2>7, <2>11, <2>12, RequestStep
<1>3. CASE ZipBlock(r)
  <2>1. d.at = "entry" /\ d.file \in File /\ HasBlock(d.file, d.index) /\ d.left = 0 /\ EntryOpen(d)
    BY <1>0, <1>3 DEF ZipBlock, Good, d
  <2>2. PICK sent : sent = d.sent \o GetObjectRange(d.file, d.index, 0)
    OBVIOUS
  <2>3. /\ sent \in Seq(Nat) /\ sent = Run(0, Len(sent))
        /\ Len(sent) = Lesser(Start(d.index + 1), SizeOf[d.file])
    BY <1>0, <2>1, <2>2, BlockAdded
  <2>4. PICK e : e = [d EXCEPT !.sent = sent, !.index = d.index + 1]
    OBVIOUS
  <2>5. d.index + 1 \in Nat
    BY <1>a
  <2>6. e \in Download
    BY <1>0, <2>3, <2>4, <2>5 DEF Download
  <2>7. /\ e.at = "entry" /\ e.file = d.file /\ e.left = 0 /\ e.index = d.index + 1
        /\ e.sent = sent /\ e.archive = d.archive
    BY <1>0, <2>1, <2>4 DEF Download
  <2>8. Good(e)
    BY <1>b, <2>1, <2>3, <2>7, ArchiveKept DEF Good, EntryOpen
  <2> QED
    BY <1>3, <2>2, <2>4, <2>6, <2>8, RequestStep DEF ZipBlock, Becomes, d
<1>4. CASE EntryEnds(r)
  <2>1. d.at = "entry" /\ d.file \in File /\ ~HasBlock(d.file, d.index) /\ d.left = 0 /\ EntryOpen(d)
    BY <1>0, <1>4 DEF EntryEnds, Good, d
  <2>2. d.sent = Run(0, SizeOf[d.file])
    <3>1. PICK start \in Nat, size \in Nat : start = Start(d.index) /\ size = SizeOf[d.file]
      BY <1>a, <2>1, Blocks, SizeAssumption
    <3>2. start >= size
      BY <2>1, <3>1 DEF HasBlock
    <3>3. Lesser(start, size) = size
      BY <3>2 DEF Lesser
    <3> QED
      BY <2>1, <3>1, <3>3 DEF EntryOpen
  <2>3. PICK e : e = [d EXCEPT !.at = "zip", !.archive = Archived(d, d.file, d.sent)]
    OBVIOUS
  <2>4. e.at = "zip" /\ e.left = 0 /\ e.archive = Archived(d, d.file, d.sent)
    BY <1>0, <2>1, <2>3 DEF Download
  <2>5. /\ e.archive \in Seq(Entry) /\ e.archive # <<>>
        /\ \A k \in 1 .. Len(e.archive) : EntryWhole(e, k)
    BY <1>0, <1>a, <1>b, <2>1, <2>2, <2>4, Archiving
  <2>6. e \in Download
    BY <1>0, <2>3, <2>4, <2>5 DEF Download
  <2>7. Good(e)
    BY <2>4, <2>5 DEF Good
  <2> QED
    BY <1>4, <2>3, <2>6, <2>7, RequestStep DEF EntryEnds, Becomes, d
<1>5. CASE ZipEnds(r)
  <2>1. d.at = "zip" /\ d.left = 0 /\ (d.file # NoFile => d.archive # <<>>)
    BY <1>0, <1>5 DEF ZipEnds, Good, d
  <2>2. PICK e : e = [d EXCEPT !.at = "completed"]
    OBVIOUS
  <2>3. e \in Download
    BY <1>0, <2>2 DEF Download
  <2>4. e.at = "completed" /\ e.file = d.file /\ e.left = 0 /\ e.archive = d.archive
    BY <1>0, <2>1, <2>2 DEF Download
  <2>5. Good(e)
    BY <1>b, <2>1, <2>4, ArchiveKept DEF Good
  <2> QED
    BY <1>5, <2>2, <2>3, <2>5, RequestStep DEF ZipEnds, d
<1>6. CASE EntryBreaks(r)
  <2>1. d.at = "entry" /\ d.file \in File /\ HasBlock(d.file, d.index) /\ EntryOpen(d)
    BY <1>0, <1>6 DEF EntryBreaks, Good, d
  <2>2. PICK bytes \in Seq(Nat) : bytes = GetObjectRange(d.file, d.index, 0)
    BY <1>0, <2>1, BlockAdded
  <2>3. PICK n \in 0 .. Len(bytes) :
          Becomes(r, [d EXCEPT !.at = "failed",
                               !.archive = Archived(d, d.file, d.sent \o SubSeq(bytes, 1, n))])
    BY <1>6, <2>2 DEF EntryBreaks, Becomes, d
  <2>4. PICK part : part = d.sent \o SubSeq(bytes, 1, n)
    OBVIOUS
  <2>5. part \in Seq(Nat)
    <3>1. SubSeq(bytes, 1, n) \in Seq(Nat)
      OBVIOUS
    <3> QED
      BY <1>a, <2>4, <3>1
  <2>6. PICK e : e = [d EXCEPT !.at = "failed", !.archive = Archived(d, d.file, part)]
    OBVIOUS
  <2>7. e.at = "failed" /\ e.archive = Archived(d, d.file, part)
    BY <1>0, <2>6 DEF Download
  <2>8. /\ e.archive \in Seq(Entry) /\ e.archive # <<>>
        /\ \A k \in 1 .. Len(e.archive) : EntryWhole(e, k)
    BY <1>0, <1>b, <2>1, <2>5, <2>7, Archiving
  <2>9. e \in Download
    BY <1>0, <2>6, <2>7, <2>8 DEF Download
  <2>10. Good(e)
    BY <2>7, <2>8 DEF Good
  <2> QED
    BY <1>6, <2>3, <2>4, <2>6, <2>9, <2>10, RequestStep DEF EntryBreaks
<1>7. CASE ListFails(r)
  <2>1. d.at = "zip" /\ d.todo # <<>>
    BY <1>7 DEF ListFails, d
  <2>2. PICK f \in File : f = Head(d.todo)
    BY <1>d, <2>1
  <2>3. PICK e : e = [d EXCEPT !.at = "failed", !.archive = Archived(d, f, <<>>)]
    OBVIOUS
  <2>4. e.at = "failed" /\ e.archive = Archived(d, f, <<>>)
    BY <1>0, <2>3 DEF Download
  <2>5. /\ e.archive \in Seq(Entry) /\ e.archive # <<>>
        /\ \A k \in 1 .. Len(e.archive) : EntryWhole(e, k)
    BY <1>0, <1>b, <1>c, <2>1, <2>4, Archiving
  <2>6. e \in Download
    BY <1>0, <2>3, <2>4, <2>5 DEF Download
  <2>7. Good(e)
    BY <2>4, <2>5 DEF Good
  <2> QED
    BY <1>7, <2>2, <2>3, <2>6, <2>7, RequestStep DEF ListFails, d
<1> QED
  BY <1>1, <1>2, <1>3, <1>4, <1>5, <1>6, <1>7 DEF Zip

-----------------------------------------------------------------------------
LEMMA NextInv == Inv /\ [DownloadNext]_downloadVars => Inv'
<1> SUFFICES ASSUME Inv, [DownloadNext]_downloadVars PROVE Inv'
  OBVIOUS
<1>1. ASSUME NEW r \in Reader, OneFile(r) \/ Return(r) PROVE Inv'
  BY <1>1, OneFileStep
<1>2. ASSUME NEW r \in Reader, Zip(r) PROVE Inv'
  BY <1>2, ZipStep
<1>3. ASSUME NEW f \in File, DeleteFile(f) PROVE Inv'
  BY <1>3, DeleteStep
<1>4. ASSUME NEW f \in File, NEW i \in 0 .. SizeOf[f], CollectBlock(f, i) PROVE Inv'
  <2>1. i \in Nat
    BY SizeAssumption
  <2> QED
    BY <1>4, <2>1, DeleteStep
<1>5. CASE UNCHANGED downloadVars
  <2>1. linked' = linked /\ collected' = collected /\ download' = download
    BY <1>5 DEF downloadVars
  <2>2. DownloadTypeOK'
    BY <2>1 DEF Inv, DownloadTypeOK
  <2>3. ASSUME NEW r \in Reader PROVE Good(download[r])'
    BY <2>1 DEF Inv, Good, EntryWhole, Announced, Continues, EntryOpen
  <2> QED
    BY <2>2, <2>3 DEF Inv
<1> QED
  BY <1>1, <1>2, <1>3, <1>4, <1>5 DEF DownloadNext

LEMMA Invariance == DownloadSpec => []Inv
BY InitInv, NextInv, PTL DEF DownloadSpec

(* DownloadTypeOK for any files, sizes, block size and ranges.              *)
THEOREM DownloadTypeCorrect == DownloadSpec => []DownloadTypeOK
<1>1. Inv => DownloadTypeOK
  BY DEF Inv
<1> QED
  BY <1>1, Invariance, PTL

(* The client always has a prefix of the bytes announced, for any size of   *)
(* file and of block and any range.                                         *)
THEOREM BytesPromisedCorrect == DownloadSpec => []BytesPromised
<1>1. Inv => BytesPromised
  BY DEF Inv, Good, Announced, BytesPromised
<1> QED
  BY <1>1, Invariance, PTL

(* A completed download lacks nothing.                                      *)
THEOREM CompletedWholeCorrect == DownloadSpec => []CompletedWhole
<1>1. Inv => CompletedWhole
  BY DEF Inv, Good, CompletedWhole
<1> QED
  BY <1>1, Invariance, PTL

(* The entries of every archive are whole, but for what EntriesWhole        *)
(* excuses.                                                                 *)
THEOREM EntriesWholeCorrect == DownloadSpec => []EntriesWhole
<1>1. Inv => EntriesWhole
  BY DEF Inv, Good, EntryWhole, EntriesWhole
<1> QED
  BY <1>1, Invariance, PTL
=============================================================================
