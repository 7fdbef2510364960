--------------------------- MODULE RingBuffProofs ---------------------------
(* Theorems of RingBuff for every memory size, byte set and call length, and   *)
(* of RingBuffIsr with at most one DMA interrupt in one call of ringbuff_write. *)
EXTENDS RingBuff, RingBuffIsr, SequenceTheorems, TLAPS

-----------------------------------------------------------------------------
(* The functions as a whole. *)

\* A move in two parts is a move modulo the size.
LEMMA MovedIsAdvanced ==
  ASSUME NEW i \in Cells, NEW n \in 0 .. Size - 1
  PROVE  Moved(i, n) = Advanced(i, n) /\ Advanced(i, n) \in Cells
BY SizeAssumption DEF Moved, Advanced, Lesser, Cells

\* Full and free are sizes, and complementary.
LEMMA FullAndFree ==
  ASSUME NEW rd \in Cells, NEW wr \in Cells
  PROVE  /\ GetFull(rd, wr) \in 0 .. Size - 1
         /\ GetFree(rd, wr) = Size - 1 - GetFull(rd, wr)
BY SizeAssumption DEF GetFull, GetFree, Cells

\* Moving w by n bytes that fit makes the buffer n bytes fuller, and the cells
\* behind the unread ones are those at w.
LEMMA MoveWriter ==
  ASSUME NEW rd \in Cells, NEW wr \in Cells, NEW n \in Nat,
         GetFull(rd, wr) + n <= Size - 1
  PROVE  /\ GetFull(rd, Advanced(wr, n)) = GetFull(rd, wr) + n
         /\ Advanced(rd, GetFull(rd, wr) + n) = Advanced(wr, n)
BY SizeAssumption DEF GetFull, Advanced, Cells

\* Moving r by n unread bytes makes the buffer n bytes emptier, and the cells
\* at the new r are those n behind the old one.
LEMMA MoveReader ==
  ASSUME NEW rd \in Cells, NEW wr \in Cells, NEW n \in Nat, n <= GetFull(rd, wr)
  PROVE  /\ GetFull(Advanced(rd, n), wr) = GetFull(rd, wr) - n
         /\ \A k \in Nat : n + k < GetFull(rd, wr) =>
              Advanced(Advanced(rd, n), k) = Advanced(rd, n + k)
BY SizeAssumption DEF GetFull, Advanced, Cells

LEMMA CopyOutType ==
  ASSUME TypeOK, NEW i \in Cells, NEW n \in 0 .. Size - 1
  PROVE  /\ CopyOut(i, n) \in Seq(Byte)
         /\ Len(CopyOut(i, n)) = n
         /\ \A k \in 1 .. n : CopyOut(i, n)[k] = buff[Advanced(i, k - 1)]
<1> DEFINE t == Lesser(Size - i, n)
           f == [k \in 1 .. n |-> IF k <= t THEN buff[i + k - 1] ELSE buff[k - t - 1]]
<1>1. t \in Nat /\ t <= n /\ t <= Size - i /\ (n <= Size - i => t = n)
              /\ (n > Size - i => t = Size - i)
  BY SizeAssumption DEF Lesser, Cells
<1>2. CopyOut(i, n) = f
  BY DEF CopyOut
<1> HIDE DEF t
<1>3. ASSUME NEW k \in 1 .. n
      PROVE  f[k] = buff[Advanced(i, k - 1)] /\ f[k] \in Byte
  <2>1. CASE k <= t
    BY <2>1, <1>1, SizeAssumption DEF TypeOK, Advanced, Cells
  <2>2. CASE k > t
    BY <2>2, <1>1, SizeAssumption DEF TypeOK, Advanced, Cells
  <2> QED BY <2>1, <2>2, <1>1
<1>4. f \in Seq(Byte) /\ Len(f) = n
  BY <1>3, SizeAssumption
<1> QED BY <1>2, <1>3, <1>4

LEMMA CopyInType ==
  ASSUME TypeOK, NEW d \in Seq(Byte), NEW n \in 0 .. Size - 1, n <= Len(d)
  PROVE  CopyIn(d, n) \in [Cells -> Byte]
BY SizeAssumption DEF CopyIn, Lesser, TypeOK, Cells

LEMMA PayloadSeq == \A d \in Payload : d \in Seq(Byte) /\ Len(d) \in 1 .. MaxLen
BY SizeAssumption DEF Payload

-----------------------------------------------------------------------------
(* Type correctness. *)

\* The indices stay inside the memory through every call (TypeOK).
THEOREM TypeCorrect == Spec => []TypeOK
<1>1. Init => TypeOK
  <2>1. <<>> \in Seq(Byte) /\ Len(<<>>) = 0
    OBVIOUS
  <2>2. ASSUME Init PROVE out \in Seq(Byte) /\ Len(out) < Size
    <3>1. out = <<>>
      BY <2>2 DEF Init
    <3> QED BY <3>1, <2>1, SizeAssumption
  <2>3. ASSUME Init PROVE valid \in BOOLEAN /\ r \in Cells /\ w \in Cells /\ ret \in Nat
    BY <2>3, SizeAssumption DEF Init, Cells
  <2>4. Init => buff \in [Cells -> Byte]
    BY DEF Init
  <2> QED BY <2>2, <2>3, <2>4 DEF TypeOK
<1>2. TypeOK /\ [Next]_vars => TypeOK'
  <2> SUFFICES ASSUME TypeOK, [Next]_vars PROVE TypeOK'
    OBVIOUS
  <2> USE DEF TypeOK
  <2>1. CASE BuffInit
    BY <2>1, SizeAssumption DEF BuffInit, Cells
  <2>2. CASE BuffFree
    BY <2>2 DEF BuffFree
  <2>3. CASE BuffReset
    BY <2>3, SizeAssumption DEF BuffReset, Cells
  <2>4. ASSUME NEW d \in Payload, BuffWrite(d) PROVE TypeOK'
    <3> DEFINE n == Lesser(GetFree(r, w), Len(d))
    <3>1. d \in Seq(Byte) /\ n \in 0 .. Size - 1 /\ n <= Len(d)
      BY PayloadSeq, FullAndFree, SizeAssumption DEF Lesser
    <3>2. CopyIn(d, n) \in [Cells -> Byte]
      BY <3>1, CopyInType
    <3>3. Moved(w, n) \in Cells
      BY <3>1, MovedIsAdvanced
    <3> QED BY <2>4, <3>1, <3>2, <3>3 DEF BuffWrite
  <2>5. ASSUME NEW btr \in Lengths, BuffRead(btr) PROVE TypeOK'
    <3> DEFINE n == Lesser(GetFull(r, w), btr)
    <3>1. n \in 0 .. Size - 1
      BY FullAndFree, SizeAssumption DEF Lesser, Lengths
    <3>2. CopyOut(r, n) \in Seq(Byte) /\ Len(CopyOut(r, n)) < Size
      BY <3>1, CopyOutType, SizeAssumption
    <3>3. Moved(r, n) \in Cells
      BY <3>1, MovedIsAdvanced
    <3> QED BY <2>5, <3>1, <3>2, <3>3 DEF BuffRead
  <2>6. ASSUME NEW s \in Lengths, NEW btp \in Lengths, BuffPeek(s, btp)
        PROVE  TypeOK'
    <3> DEFINE full == GetFull(r, w)
               n    == IF s >= full THEN 0 ELSE Lesser(full - s, btp)
    <3>1. full \in 0 .. Size - 1 /\ n \in 0 .. Size - 1 /\ (n # 0 => s < full)
      BY FullAndFree, SizeAssumption DEF Lesser, Lengths
    <3>2. CASE n = 0
      BY <2>6, <3>2, SizeAssumption DEF BuffPeek
    <3>3. CASE n # 0
      <4>1. Advanced(r, s) \in Cells
        BY <3>1, <3>3, SizeAssumption DEF Advanced, Cells, Lengths
      <4>2. CopyOut(Advanced(r, s), n) \in Seq(Byte)
            /\ Len(CopyOut(Advanced(r, s), n)) < Size
        BY <3>1, <4>1, CopyOutType, SizeAssumption
      <4> QED BY <2>6, <3>1, <3>3, <4>2 DEF BuffPeek
    <3> QED BY <3>2, <3>3
  <2>7. ASSUME NEW asked \in Lengths, BuffSkip(asked) PROVE TypeOK'
    <3>1. Lesser(asked, GetFull(r, w)) \in 0 .. Size - 1
      BY FullAndFree, SizeAssumption DEF Lesser, Lengths
    <3> QED BY <2>7, <3>1, MovedIsAdvanced, SizeAssumption DEF BuffSkip, Lengths
  <2>8. ASSUME NEW asked \in Lengths, BuffAdvance(asked) PROVE TypeOK'
    <3>1. Lesser(asked, GetFree(r, w)) \in 0 .. Size - 1
      BY FullAndFree, SizeAssumption DEF Lesser, Lengths
    <3> QED BY <2>8, <3>1, MovedIsAdvanced, SizeAssumption DEF BuffAdvance, Lengths
  <2>9. ASSUME NEW b \in Byte, HardwareFill(b) PROVE TypeOK'
    <3>1. LinearWrite(r, w) \in Nat
      BY SizeAssumption DEF LinearWrite, Cells
    <3> QED BY <2>9, <3>1 DEF HardwareFill
  <2>10. CASE HardwareSend
    <3> DEFINE n == LinearRead(r, w)
    <3>1. n \in 0 .. Size - 1 /\ r + n <= Size
      BY SizeAssumption DEF LinearRead, Cells
    <3>2. \A k \in 1 .. n : r + k - 1 \in Cells
      BY <3>1, SizeAssumption DEF Cells
    <3> HIDE DEF n
    <3>3. [k \in 1 .. n |-> buff[r + k - 1]] \in Seq(Byte)
          /\ Len([k \in 1 .. n |-> buff[r + k - 1]]) = n
      BY <3>1, <3>2
    <3> QED BY <2>10, <3>1, <3>3, SizeAssumption DEF HardwareSend, n
  <2>11. CASE UNCHANGED vars
    BY <2>11 DEF vars
  <2> QED BY <2>1, <2>2, <2>3, <2>4, <2>5, <2>6, <2>7, <2>8, <2>9, <2>10, <2>11
          DEF Next
<1> QED BY <1>1, <1>2, PTL DEF Spec

\* The DMA blocks never overlap, for every memory size (BlocksDisjoint).
THEOREM BlocksAlwaysDisjoint == Spec => []BlocksDisjoint
<1>1. TypeOK => BlocksDisjoint
  BY SizeAssumption
     DEF TypeOK, BlocksDisjoint, GetFree, GetFull, LinearRead, LinearWrite, Cells
<1> QED BY <1>1, TypeCorrect, PTL

-----------------------------------------------------------------------------
(* Refinement: the unread bytes behave as the queue of ByteFifo. *)

ContentsFact ==
  /\ Contents \in Seq(Byte)
  /\ ~valid => Contents = <<>>
  /\ valid => /\ Len(Contents) = GetFull(r, w)
              /\ \A k \in 1 .. GetFull(r, w) : Contents[k] = buff[Advanced(r, k - 1)]

LEMMA ContentsSeq == TypeOK => ContentsFact
<1> SUFFICES ASSUME TypeOK PROVE ContentsFact
  OBVIOUS
<1>1. GetFull(r, w) \in 0 .. Size - 1
  BY FullAndFree DEF TypeOK
<1>2. \A k \in 1 .. GetFull(r, w) : buff[Advanced(r, k - 1)] \in Byte
  BY <1>1, SizeAssumption DEF TypeOK, Advanced, Cells
<1> DEFINE f == [k \in 1 .. GetFull(r, w) |-> buff[Advanced(r, k - 1)]]
<1>3. f \in Seq(Byte) /\ Len(f) = GetFull(r, w)
  BY <1>1, <1>2
<1>4. CASE valid
  <2>1. Contents = f
    BY <1>4 DEF Contents
  <2> QED BY <2>1, <1>3, <1>4 DEF ContentsFact
<1>5. CASE ~valid
  <2>1. Contents = <<>>
    BY <1>5 DEF Contents
  <2> QED BY <2>1, <1>5 DEF ContentsFact
<1> QED BY <1>4, <1>5

LEMMA ContentsSeqPrime == TypeOK' => ContentsFact'
BY ContentsSeq, PTL

\* A write reaches exactly the n cells behind w.
LEMMA CopyInAt ==
  ASSUME TypeOK, NEW d \in Seq(Byte), NEW n \in 0 .. Size - 1, n <= Len(d)
  PROVE  /\ \A j \in 1 .. n : CopyIn(d, n)[Advanced(w, j - 1)] = d[j]
         /\ \A i \in Cells : (\A j \in 1 .. n : i # Advanced(w, j - 1))
                            => CopyIn(d, n)[i] = buff[i]
<1> DEFINE t == Lesser(Size - w, n)
<1>1. t \in Nat /\ t <= n /\ t <= Size - w /\ (n <= Size - w => t = n)
              /\ (n > Size - w => t = Size - w)
  BY SizeAssumption DEF Lesser, Cells, TypeOK
<1>2. \A i \in Cells : CopyIn(d, n)[i] = IF i >= w /\ i < w + t THEN d[i - w + 1]
                                         ELSE IF i < n - t THEN d[t + i + 1]
                                         ELSE buff[i]
  BY DEF CopyIn
<1> HIDE DEF t
<1>3. ASSUME NEW j \in 1 .. n PROVE CopyIn(d, n)[Advanced(w, j - 1)] = d[j]
  <2>1. CASE j <= t
    <3>1. Advanced(w, j - 1) = w + j - 1 /\ w + j - 1 \in Cells
      BY <2>1, <1>1, SizeAssumption DEF Advanced, Cells, TypeOK
    <3>2. (w + j - 1) - w + 1 = j
      BY SizeAssumption DEF Cells, TypeOK
    <3> QED BY <3>1, <3>2, <2>1, <1>2, <1>1, SizeAssumption DEF Cells, TypeOK
  <2>2. CASE j > t
    <3>1. Advanced(w, j - 1) = j - t - 1 /\ j - t - 1 \in Cells
          /\ j - t - 1 < w /\ j - t - 1 < n - t
      BY <2>2, <1>1, SizeAssumption DEF Advanced, Cells, TypeOK
    <3>2. t + (j - t - 1) + 1 = j
      BY <1>1
    <3> QED BY <3>1, <3>2, <1>2, <1>1, SizeAssumption DEF Cells, TypeOK
  <2> QED BY <2>1, <2>2, <1>1
<1>4. ASSUME NEW i \in Cells, \A j \in 1 .. n : i # Advanced(w, j - 1)
      PROVE  CopyIn(d, n)[i] = buff[i]
  <2>1. CASE i >= w /\ i < w + t
    <3>1. i - w + 1 \in 1 .. n /\ Advanced(w, (i - w + 1) - 1) = i
      BY <2>1, <1>1, SizeAssumption DEF Advanced, Cells, TypeOK
    <3> QED BY <3>1, <1>4
  <2>2. CASE ~(i >= w /\ i < w + t) /\ i < n - t
    <3>1. t + i + 1 \in 1 .. n /\ Advanced(w, (t + i + 1) - 1) = i
      BY <2>2, <1>1, SizeAssumption DEF Advanced, Cells, TypeOK
    <3> QED BY <3>1, <1>4
  <2> QED BY <2>1, <2>2, <1>2
<1> QED BY <1>3, <1>4

\* Two sequences of one length with the same elements are the same.
LEMMA SameSeq ==
  ASSUME NEW S, NEW a \in Seq(S), NEW b \in Seq(S), Len(a) = Len(b),
         \A k \in 1 .. Len(a) : a[k] = b[k]
  PROVE  a = b
OBVIOUS

\* Moving w behind n cells that hold d appends d.
LEMMA AppendContents ==
  ASSUME TypeOK, TypeOK', valid, valid', r' = r,
         NEW d \in Seq(Byte), GetFull(r, w) + Len(d) <= Size - 1,
         w' = Advanced(w, Len(d)),
         \A k \in 1 .. GetFull(r, w) :
           buff'[Advanced(r, k - 1)] = buff[Advanced(r, k - 1)],
         \A j \in 1 .. Len(d) : buff'[Advanced(w, j - 1)] = d[j]
  PROVE  Contents' = Contents \o d
<1> DEFINE n    == Len(d)
           full == GetFull(r, w)
           q    == Contents \o d
<1>1. n \in Nat /\ full \in 0 .. Size - 1 /\ full + n <= Size - 1
  BY FullAndFree DEF TypeOK
<1>2. GetFull(r', w') = full + n
  BY <1>1, MoveWriter DEF TypeOK
<1> HIDE DEF n, full
<1>3. /\ Contents \in Seq(Byte) /\ Len(Contents) = full
      /\ \A k \in 1 .. full : Contents[k] = buff[Advanced(r, k - 1)]
  BY ContentsSeq DEF ContentsFact, full
<1>4. /\ Contents' \in Seq(Byte) /\ Len(Contents') = full + n
      /\ \A k \in 1 .. full + n : Contents'[k] = buff'[Advanced(r, k - 1)]
  BY <1>2, ContentsSeqPrime DEF ContentsFact
<1>5. /\ q \in Seq(Byte) /\ Len(q) = full + n
      /\ \A k \in 1 .. full : q[k] = Contents[k]
      /\ \A j \in 1 .. n : q[full + j] = d[j]
  <2>1. Len(Contents) = full /\ Len(d) = n
    BY <1>3 DEF n
  <2>2. q \in Seq(Byte)
    BY <1>3, ConcatProperties, Zenon
  <2>3. Len(q) = full + n
    BY <1>3, <2>1, ConcatProperties, Zenon
  <2>4. \A k \in 1 .. full : q[k] = Contents[k]
    BY <1>1, <1>3, <2>1, ConcatProperties, SMT
  <2>5. \A j \in 1 .. n : q[full + j] = d[j]
    BY <1>1, <1>3, <2>1, ConcatProperties, SMT
  <2> HIDE DEF q
  <2> QED BY <2>2, <2>3, <2>4, <2>5
<1>6. ASSUME NEW k \in 1 .. full PROVE Contents'[k] = q[k]
  <2>1. buff'[Advanced(r, k - 1)] = buff[Advanced(r, k - 1)] /\ k \in 1 .. full + n
    BY <1>1 DEF full
  <2> QED BY <2>1, <1>3, <1>4, <1>5
<1>7. ASSUME NEW j \in 1 .. n PROVE Contents'[full + j] = q[full + j]
  <2>1. /\ j - 1 \in Nat /\ full + (j - 1) <= Size - 1
        /\ full + j \in 1 .. full + n /\ full + (j - 1) = (full + j) - 1
    BY <1>1, SizeAssumption
  <2>2. Advanced(r, (full + j) - 1) = Advanced(w, j - 1)
    BY <2>1, MoveWriter DEF TypeOK, full
  <2>3. buff'[Advanced(w, j - 1)] = d[j]
    BY DEF n
  <2>4. Contents'[full + j] = buff'[Advanced(r, (full + j) - 1)]
    BY <2>1, <1>4
  <2> QED BY <2>2, <2>3, <2>4, <1>5
<1> HIDE DEF q
<1>8. ASSUME NEW k \in 1 .. full + n PROVE Contents'[k] = q[k]
  <2>1. CASE k <= full
    BY <2>1, <1>1, <1>6
  <2>2. CASE k > full
    <3> DEFINE j == k - full
    <3>1. j \in 1 .. n /\ full + j = k
      BY <2>2, <1>1
    <3>2. Contents'[full + j] = q[full + j]
      BY <3>1, <1>7
    <3> QED BY <3>1, <3>2
  <2> QED BY <2>1, <2>2, <1>1
<1>9. Contents' = q
  BY <1>4, <1>5, <1>8, SameSeq
<1> QED BY <1>9 DEF q

LEMMA SubSeqAt ==
  ASSUME NEW S, NEW a \in Seq(S), NEW m \in Nat, NEW n \in Nat, m + n <= Len(a)
  PROVE  /\ SubSeq(a, m + 1, m + n) \in Seq(S)
         /\ Len(SubSeq(a, m + 1, m + n)) = n
         /\ \A k \in 1 .. n : SubSeq(a, m + 1, m + n)[k] = a[m + k]
OBVIOUS

\* Moving r alone drops the oldest bytes.
LEMMA DropContents ==
  ASSUME TypeOK, TypeOK', valid, valid', buff' = buff, w' = w,
         NEW n \in Nat, n <= GetFull(r, w), r' = Advanced(r, n)
  PROVE  Contents' = SubSeq(Contents, n + 1, Len(Contents))
<1> DEFINE full == GetFull(r, w)
           q    == SubSeq(Contents, n + 1, n + (full - n))
<1>1. full \in Nat /\ full - n \in Nat /\ n + (full - n) = full
  BY FullAndFree DEF TypeOK
<1>2. ContentsFact /\ ContentsFact'
  BY ContentsSeq, ContentsSeqPrime
<1>3. GetFull(r', w') = full - n
  BY MoveReader DEF TypeOK
<1>4. \A k \in Nat : n + k < full => Advanced(r', k) = Advanced(r, n + k)
  BY MoveReader DEF TypeOK
<1> HIDE DEF full
<1>5. Contents \in Seq(Byte) /\ Len(Contents) = full
      /\ \A k \in 1 .. full : Contents[k] = buff[Advanced(r, k - 1)]
  BY <1>2 DEF ContentsFact, full
<1>6. Contents' \in Seq(Byte) /\ Len(Contents') = full - n
      /\ \A k \in 1 .. full - n : Contents'[k] = buff[Advanced(r', k - 1)]
  BY <1>2, <1>3 DEF ContentsFact
<1>7. q \in Seq(Byte) /\ Len(q) = full - n
      /\ \A k \in 1 .. full - n : q[k] = Contents[n + k]
  BY <1>1, <1>5, SubSeqAt
<1>8. ASSUME NEW k \in 1 .. full - n PROVE Contents'[k] = q[k]
  <2>1. k - 1 \in Nat /\ n + (k - 1) < full /\ n + k \in 1 .. full
        /\ n + (k - 1) = (n + k) - 1
    BY <1>1
  <2>2. Advanced(r', k - 1) = Advanced(r, (n + k) - 1)
    BY <2>1, <1>4
  <2>3. Contents[n + k] = buff[Advanced(r, (n + k) - 1)]
    BY <2>1, <1>5
  <2> QED BY <2>2, <2>3, <1>6, <1>7
<1> HIDE DEF q
<1>9. Contents' = q
  BY <1>6, <1>7, <1>8, SameSeq
<1> QED BY <1>1, <1>5, <1>9 DEF q

\* Copying out behind s unread bytes copies a run of the queue.
LEMMA CopyOutContents ==
  ASSUME TypeOK, valid, NEW s \in Nat, NEW n \in Nat, s + n <= GetFull(r, w),
         s + n > 0 => s < GetFull(r, w)
  PROVE  CopyOut(Advanced(r, s), n) = SubSeq(Contents, s + 1, s + n)
<1> DEFINE full == GetFull(r, w)
           p    == CopyOut(Advanced(r, s), n)
           q    == SubSeq(Contents, s + 1, s + n)
<1>1. full \in 0 .. Size - 1
  BY FullAndFree DEF TypeOK
<1>2. Advanced(r, s) \in Cells /\ n \in 0 .. Size - 1
  BY <1>1, SizeAssumption, MovedIsAdvanced DEF TypeOK
<1>3. \A k \in Nat : s + k < full =>
        Advanced(Advanced(r, s), k) = Advanced(r, s + k)
  BY <1>1, MoveReader DEF TypeOK
<1>4. Contents \in Seq(Byte) /\ Len(Contents) = full
      /\ \A k \in 1 .. full : Contents[k] = buff[Advanced(r, k - 1)]
  BY ContentsSeq DEF ContentsFact
<1>5. p \in Seq(Byte) /\ Len(p) = n
      /\ \A k \in 1 .. n : p[k] = buff[Advanced(Advanced(r, s), k - 1)]
  BY <1>2, CopyOutType
<1> HIDE DEF full, p
<1>6. q \in Seq(Byte) /\ Len(q) = n /\ \A k \in 1 .. n : q[k] = Contents[s + k]
  BY <1>4, SubSeqAt DEF full
<1>7. ASSUME NEW k \in 1 .. n PROVE p[k] = q[k]
  <2>1. k - 1 \in Nat /\ s + (k - 1) < full /\ s + k \in 1 .. full
        /\ s + (k - 1) = (s + k) - 1
    BY <1>1 DEF full
  <2>2. Advanced(Advanced(r, s), k - 1) = Advanced(r, (s + k) - 1)
    BY <2>1, <1>3
  <2>3. Contents[s + k] = buff[Advanced(r, (s + k) - 1)]
    BY <2>1, <1>4
  <2> QED BY <2>2, <2>3, <1>5, <1>6
<1> HIDE DEF q
<1>8. p = q
  BY <1>5, <1>6, <1>7, SameSeq
<1> QED BY <1>8 DEF p, q

-----------------------------------------------------------------------------
(* One lemma per call: the step of the buffer is that step of the queue. *)

LEMMA ContentsLen == TypeOK /\ valid => Len(Contents) = GetFull(r, w)
BY ContentsSeq DEF ContentsFact

LEMMA WriteStep ==
  ASSUME TypeOK, TypeOK', NEW d \in Payload, BuffWrite(d)
  PROVE  Fifo!Write(d)
<1> DEFINE n == Lesser(GetFree(r, w), Len(d))
           e == SubSeq(d, 1, n)
<1>1. d \in Seq(Byte) /\ Len(d) \in Nat
  BY PayloadSeq
<1>2. GetFull(r, w) \in 0 .. Size - 1 /\ GetFree(r, w) = Size - 1 - GetFull(r, w)
  BY FullAndFree DEF TypeOK
<1>3. n \in 0 .. Size - 1 /\ n <= Len(d) /\ GetFull(r, w) + n <= Size - 1
  BY <1>1, <1>2, SizeAssumption DEF Lesser
<1>4. valid /\ valid' /\ r' = r /\ w' = Advanced(w, n) /\ buff' = CopyIn(d, n)
  BY <1>3, MovedIsAdvanced DEF BuffWrite, TypeOK
<1>5. n = Fifo!Smaller(Fifo!Room, Len(d))
  BY <1>2, <1>4, ContentsSeq DEF Fifo!Smaller, Fifo!Room, Lesser, ContentsFact
<1> HIDE DEF n
<1>6. e \in Seq(Byte) /\ Len(e) = n /\ \A j \in 1 .. n : e[j] = d[j]
  BY <1>1, <1>3
<1>7. ASSUME NEW k \in 1 .. GetFull(r, w)
      PROVE  buff'[Advanced(r, k - 1)] = buff[Advanced(r, k - 1)]
  <2>1. /\ Advanced(r, k - 1) \in Cells
        /\ \A j \in 1 .. n : Advanced(r, k - 1) # Advanced(w, j - 1)
    BY <1>3, SizeAssumption DEF Advanced, TypeOK, Cells, GetFull
  <2> QED BY <2>1, <1>1, <1>3, <1>4, CopyInAt
<1>8. \A j \in 1 .. n : buff'[Advanced(w, j - 1)] = e[j]
  BY <1>1, <1>3, <1>4, <1>6, CopyInAt
<1> HIDE DEF e
<1>9. Contents' = Contents \o e
  BY <1>3, <1>4, <1>6, <1>7, <1>8, AppendContents
<1> QED BY <1>5, <1>9 DEF Fifo!Write, BuffWrite, n, e

LEMMA AdvanceStep ==
  ASSUME TypeOK, TypeOK', NEW asked \in Lengths, BuffAdvance(asked)
  PROVE  Fifo!Advance(asked)
<1> DEFINE n == Lesser(asked, GetFree(r, w))
           d == [j \in 1 .. n |-> buff[Advanced(w, j - 1)]]
<1>1. GetFull(r, w) \in 0 .. Size - 1 /\ GetFree(r, w) = Size - 1 - GetFull(r, w)
  BY FullAndFree DEF TypeOK
<1>2. n \in 0 .. Size - 1 /\ GetFull(r, w) + n <= Size - 1 /\ asked \in Nat
  BY <1>1, SizeAssumption DEF Lesser, Lengths
<1>3. valid /\ valid' /\ r' = r /\ w' = Advanced(w, n) /\ buff' = buff /\ ret' = asked
  BY DEF BuffAdvance
<1>4. n = Fifo!Smaller(Fifo!Room, asked)
  BY <1>1, <1>2, <1>3, ContentsLen, SizeAssumption DEF Fifo!Smaller, Fifo!Room, Lesser
<1> HIDE DEF n
<1>5. \A j \in 1 .. n : buff[Advanced(w, j - 1)] \in Byte
  BY <1>2, SizeAssumption DEF TypeOK, Advanced, Cells
<1>6. d \in Seq(Byte) /\ Len(d) = n /\ d \in [1 .. n -> Byte]
      /\ \A j \in 1 .. n : d[j] = buff[Advanced(w, j - 1)]
  BY <1>2, <1>5
<1> HIDE DEF d
<1>7. Contents' = Contents \o d
  BY <1>2, <1>3, <1>6, AppendContents
<1> QED BY <1>2, <1>3, <1>4, <1>6, <1>7 DEF Fifo!Advance, BuffAdvance

LEMMA SkipStep ==
  ASSUME TypeOK, TypeOK', NEW asked \in Lengths, BuffSkip(asked)
  PROVE  Fifo!Skip(asked)
<1> DEFINE n == Lesser(asked, GetFull(r, w))
<1>1. n \in Nat /\ n <= GetFull(r, w) /\ GetFull(r, w) \in Nat /\ asked \in Nat
  <2>1. GetFull(r, w) \in Nat /\ asked \in Nat
    BY FullAndFree DEF TypeOK, Lengths
  <2> QED BY <2>1 DEF Lesser
<1>2. valid /\ valid' /\ r' = Advanced(r, n) /\ w' = w /\ buff' = buff /\ ret' = asked
  BY DEF BuffSkip
<1>3. n = Fifo!Smaller(Len(Contents), asked)
  BY <1>1, <1>2, ContentsLen DEF Fifo!Smaller, Lesser
<1> HIDE DEF n
<1>4. Contents' = SubSeq(Contents, n + 1, Len(Contents))
  BY <1>1, <1>2, DropContents
<1> QED BY <1>1, <1>2, <1>3, <1>4 DEF Fifo!Skip, BuffSkip

LEMMA ReadStep ==
  ASSUME TypeOK, TypeOK', NEW btr \in Lengths, BuffRead(btr)
  PROVE  Fifo!Read(btr)
<1> DEFINE n == Lesser(GetFull(r, w), btr)
<1>1. n \in 0 .. Size - 1 /\ n <= GetFull(r, w) /\ GetFull(r, w) \in Nat /\ btr \in Nat
  <2>1. GetFull(r, w) \in 0 .. Size - 1 /\ btr \in Nat
    BY FullAndFree DEF TypeOK, Lengths
  <2> QED BY <2>1, SizeAssumption DEF Lesser
<1>2. valid /\ valid' /\ r' = Advanced(r, n) /\ w' = w /\ buff' = buff
      /\ out' = CopyOut(r, n)
  BY <1>1, MovedIsAdvanced DEF BuffRead, TypeOK
<1>3. n = Fifo!Smaller(Len(Contents), btr)
  BY <1>1, <1>2, ContentsLen DEF Fifo!Smaller, Lesser
<1> HIDE DEF n
<1>4. Contents' = SubSeq(Contents, n + 1, Len(Contents))
  BY <1>1, <1>2, DropContents
<1>5. CopyOut(r, n) = SubSeq(Contents, 1, n)
  <2>1. Advanced(r, 0) = r
    BY SizeAssumption DEF Advanced, TypeOK, Cells
  <2>2. 0 + n <= GetFull(r, w) /\ (0 + n > 0 => 0 < GetFull(r, w)) /\ 0 + n = n /\ 0 + 1 = 1
    BY <1>1
  <2>3. CopyOut(Advanced(r, 0), n) = SubSeq(Contents, 0 + 1, 0 + n)
    BY <2>2, <1>1, <1>2, CopyOutContents
  <2> QED BY <2>1, <2>2, <2>3
<1> QED BY <1>2, <1>3, <1>4, <1>5 DEF Fifo!Read, BuffRead, n

LEMMA PeekStep ==
  ASSUME TypeOK, TypeOK', NEW s \in Lengths, NEW btp \in Lengths, BuffPeek(s, btp)
  PROVE  Fifo!Peek(s, btp)
<1> DEFINE full == GetFull(r, w)
           n    == IF s >= full THEN 0 ELSE Lesser(full - s, btp)
<1>1. full \in Nat /\ s \in Nat /\ btp \in Nat /\ n \in Nat
  <2>1. full \in Nat /\ s \in Nat /\ btp \in Nat
    BY FullAndFree DEF TypeOK, Lengths
  <2> QED BY <2>1 DEF Lesser
<1>2. valid /\ valid' /\ buff' = buff /\ r' = r /\ w' = w /\ ret' = n
      /\ out' = IF n = 0 THEN <<>> ELSE CopyOut(Advanced(r, s), n)
  BY DEF BuffPeek
<1>3. Contents \in Seq(Byte) /\ Len(Contents) = full /\ Contents' = Contents
  BY <1>2, ContentsSeq DEF ContentsFact, Contents
<1> DEFINE m == Fifo!Smaller(full, s + btp)
<1>4. /\ n = 0 => m <= s
      /\ n # 0 => m = s + n /\ s + n <= full /\ s < full
      /\ m \in Nat /\ m <= full
  BY <1>1 DEF Lesser, Fifo!Smaller
<1> HIDE DEF n, full, m
<1>5. out' = SubSeq(Contents, s + 1, m) /\ Len(out') = n
  <2>1. CASE n = 0
    <3>1. SubSeq(Contents, s + 1, m) = <<>>
      BY <2>1, <1>1, <1>3, <1>4
    <3>2. Len(<<>>) = 0
      OBVIOUS
    <3> QED BY <3>1, <3>2, <2>1, <1>2
  <2>2. CASE n # 0
    <3>1. CopyOut(Advanced(r, s), n) = SubSeq(Contents, s + 1, s + n)
      BY <2>2, <1>1, <1>2, <1>4, CopyOutContents DEF full
    <3>2. Len(SubSeq(Contents, s + 1, s + n)) = n
      BY <2>2, <1>1, <1>3, <1>4, SubSeqAt
    <3> QED BY <3>1, <3>2, <2>2, <1>2, <1>4
  <2> QED BY <2>1, <2>2
<1>6. m = Fifo!Smaller(Len(Contents), s + btp)
  BY <1>3 DEF m
<1> QED BY <1>2, <1>3, <1>5, <1>6 DEF Fifo!Peek, BuffPeek

LEMMA FillStep ==
  ASSUME TypeOK, TypeOK', NEW b \in Byte, HardwareFill(b)
  PROVE  Fifo!Fill(b)
<1> DEFINE n == LinearWrite(r, w)
<1>1. /\ valid /\ valid' /\ r' = r /\ w' = w /\ ret' = n /\ out' = out
      /\ call' = <<"fill", b>>
      /\ buff' = [i \in Cells |-> IF i >= w /\ i < w + n THEN b ELSE buff[i]]
  BY DEF HardwareFill
<1>2. n \in 0 .. Size - 1 - GetFull(r, w) /\ GetFull(r, w) \in Nat
  BY SizeAssumption DEF LinearWrite, GetFull, TypeOK, Cells
<1>3. ASSUME NEW k \in 1 .. GetFull(r, w)
      PROVE  buff'[Advanced(r, k - 1)] = buff[Advanced(r, k - 1)]
  <2>1. /\ Advanced(r, k - 1) \in Cells
        /\ ~(Advanced(r, k - 1) >= w /\ Advanced(r, k - 1) < w + n)
    BY SizeAssumption DEF Advanced, TypeOK, Cells, GetFull, LinearWrite
  <2> QED BY <2>1, <1>1
<1> HIDE DEF n
<1>4. /\ Contents \in Seq(Byte) /\ Len(Contents) = GetFull(r, w)
      /\ \A k \in 1 .. GetFull(r, w) : Contents[k] = buff[Advanced(r, k - 1)]
  BY <1>1, ContentsSeq DEF ContentsFact
<1>5. /\ Contents' \in Seq(Byte) /\ Len(Contents') = GetFull(r, w)
      /\ \A k \in 1 .. GetFull(r, w) : Contents'[k] = buff'[Advanced(r, k - 1)]
  BY <1>1, ContentsSeqPrime DEF ContentsFact
<1>6. Contents' = Contents
  BY <1>3, <1>4, <1>5, SameSeq
<1>7. ret' \in 0 .. Fifo!Room
  BY <1>1, <1>2, <1>4, SizeAssumption DEF Fifo!Room
<1> QED BY <1>1, <1>6, <1>7 DEF Fifo!Fill

LEMMA SendStep ==
  ASSUME TypeOK, TypeOK', HardwareSend
  PROVE  Fifo!Send
<1> DEFINE n == LinearRead(r, w)
           q == [k \in 1 .. n |-> buff[r + k - 1]]
           p == SubSeq(Contents, 0 + 1, 0 + n)
<1>1. /\ valid /\ valid' /\ r' = r /\ w' = w /\ buff' = buff /\ ret' = n
      /\ out' = q /\ call' = <<"send">>
  BY DEF HardwareSend
<1>2. /\ n \in Nat /\ n <= GetFull(r, w) /\ (n = 0 => GetFull(r, w) = 0)
      /\ \A k \in 1 .. n : Advanced(r, k - 1) = r + k - 1 /\ r + k - 1 \in Cells
  BY SizeAssumption DEF LinearRead, GetFull, Advanced, TypeOK, Cells
<1>3. /\ Contents \in Seq(Byte) /\ Len(Contents) = GetFull(r, w)
      /\ \A k \in 1 .. GetFull(r, w) : Contents[k] = buff[Advanced(r, k - 1)]
      /\ Contents' = Contents
  BY <1>1, ContentsSeq DEF ContentsFact, Contents
<1> HIDE DEF n
<1>4. \A k \in 1 .. n : buff[r + k - 1] \in Byte
  BY <1>2 DEF TypeOK
<1>5. q \in Seq(Byte) /\ Len(q) = n /\ \A k \in 1 .. n : q[k] = buff[r + k - 1]
  BY <1>2, <1>4
<1>6. p \in Seq(Byte) /\ Len(p) = n /\ \A k \in 1 .. n : p[k] = Contents[0 + k]
  BY <1>2, <1>3, SubSeqAt
<1> HIDE DEF p, q
<1>7. ASSUME NEW k \in 1 .. n PROVE q[k] = p[k]
  <2>1. k \in 1 .. GetFull(r, w) /\ 0 + k = k
    BY <1>2, <1>3
  <2> QED BY <2>1, <1>2, <1>3, <1>5, <1>6
<1>8. q = p
  BY <1>5, <1>6, <1>7, SameSeq
<1>9. p = SubSeq(Contents, 1, n)
  BY <1>2 DEF p
<1>10. n \in 0 .. Len(Contents) /\ (n = 0 => Contents = <<>>)
  BY <1>2, <1>3
<1> QED BY <1>1, <1>3, <1>8, <1>9, <1>10 DEF Fifo!Send

LEMMA ClearStep ==
  ASSUME TypeOK, TypeOK', BuffInit \/ BuffFree \/ BuffReset
  PROVE  Fifo!Clear
<1>1. Contents' = <<>>
  <2>1. CASE BuffFree
    BY <2>1, ContentsSeqPrime DEF ContentsFact, BuffFree
  <2>2. CASE BuffInit \/ BuffReset
    <3>1. valid' /\ r' = w'
      BY <2>2 DEF BuffInit, BuffReset
    <3>2. Contents' \in Seq(Byte) /\ Len(Contents') = 0
      BY <3>1, ContentsSeqPrime DEF ContentsFact, GetFull
    <3> QED BY <3>2
  <2> QED BY <2>1, <2>2
<1>2. call' \in {<<"init">>, <<"free">>, <<"reset">>} /\ out' = out
  BY DEF BuffInit, BuffFree, BuffReset
<1> QED BY <1>1, <1>2 DEF Fifo!Clear, TypeOK

\* ringbuff.c is a bounded first-in first-out queue of Size - 1 bytes, whatever
\* the size, the bytes and the lengths of the calls (ImplementsFifo).
THEOREM BufferIsFifo == Spec => ImplementsFifo
<1>1. Init => Fifo!Init
  BY DEF Init, Fifo!Init, Contents
<1>2. TypeOK /\ TypeOK' /\ [Next]_vars => [Fifo!Next]_Fifo!vars
  <2> SUFFICES ASSUME TypeOK, TypeOK', [Next]_vars PROVE [Fifo!Next]_Fifo!vars
    OBVIOUS
  <2>1. CASE BuffInit \/ BuffFree \/ BuffReset
    BY <2>1, ClearStep DEF Fifo!Next
  <2>2. ASSUME NEW d \in Payload, BuffWrite(d) PROVE Fifo!Next
    BY <2>2, WriteStep DEF Fifo!Next, Payload
  <2>3. ASSUME NEW n \in Lengths, BuffRead(n) \/ BuffSkip(n) \/ BuffAdvance(n)
        PROVE  Fifo!Next
    BY <2>3, ReadStep, SkipStep, AdvanceStep DEF Fifo!Next, Fifo!Lens, Lengths
  <2>4. ASSUME NEW s \in Lengths, NEW n \in Lengths, BuffPeek(s, n) PROVE Fifo!Next
    BY <2>4, PeekStep DEF Fifo!Next, Fifo!Lens, Lengths
  <2>5. ASSUME NEW b \in Byte, HardwareFill(b) PROVE Fifo!Next
    BY <2>5, FillStep DEF Fifo!Next
  <2>6. CASE HardwareSend
    BY <2>6, SendStep DEF Fifo!Next
  <2>7. CASE UNCHANGED vars
    BY <2>7 DEF vars, Fifo!vars, Contents
  <2> QED BY <2>1, <2>2, <2>3, <2>4, <2>5, <2>6, <2>7 DEF Next
<1> QED BY <1>1, <1>2, TypeCorrect, PTL DEF Spec, ImplementsFifo, Fifo!Spec

-----------------------------------------------------------------------------
(* The functions in steps: the inductive invariant. *)

\* The number of a byte of the stream.
Num(x) == x % IdMod

\* The index Size is the index 0.
Norm(i) == IF i = Size THEN 0 ELSE i

\* Where the next byte is taken, and where the next one is put, which inside a
\* function is not what r and w say.
TakePos ==
  Norm(IF mainWrites THEN IF len > 0 THEN dmaAt ELSE r
       ELSE CASE pc = "move" -> r + part [] pc = "copy2" -> 0 [] pc = "move2" -> rest
              [] OTHER -> r)

PutPos ==
  Norm(IF ~mainWrites THEN w
       ELSE CASE pc = "move" -> w + part [] pc = "copy2" -> 0 [] pc = "move2" -> rest
              [] OTHER -> w)

\* From cell p to cell e the memory b holds the bytes of the stream from tk to wr.
Holds(b, p, e, tk, wr) ==
  /\ wr = Num(tk + GetFull(p, e))
  /\ \A k \in 0 .. GetFull(p, e) - 1 : b[Advanced(p, k)] = Num(tk + k)

Stream == Holds(buff, TakePos, PutPos, taken, written)

\* The transfer that runs is a block of unread bytes.
TransferSound ==
  IF mainWrites
  THEN /\ r \in Cells /\ w \in 0 .. Size /\ r + len <= Size /\ dmaLeft <= len
       /\ len > 0 => dmaAt = r + len - dmaLeft
       /\ len <= GetFull(r, w)
       /\ pc = "idle" /\ r # w => len > 0
  ELSE len = 0 /\ dmaLeft = 0

\* What ringbuff_write still has to copy fits in front of r; and a transfer that
\* runs since before the call ends before the cell the call began at.
WriterSound ==
  mainWrites =>
    /\ pc \in {"idle", "send"} => w \in Cells
    /\ pc \in {"copy", "move"} =>
         /\ w \in Cells /\ part >= 1 /\ w + part <= Size
         /\ rest > 0 => w + part = Size
         /\ GetFull(r, w) + part + rest <= Size - 1
    /\ pc \in {"copy2", "move2"} => w = Size /\ rest > 0
    /\ pc = "wrap" => w = rest \/ rest = 0
    /\ pc \in {"copy2", "move2", "wrap"} =>
         /\ part >= 1
         /\ rest > 0 => rest < r
         /\ w = Size => r > 0
         /\ isrs = 0 /\ (w = Size \/ rest > 0) => r + len <= Size - part

\* What ringbuff_read still has to copy is there.
ReaderSound ==
  ~mainWrites =>
    /\ w \in Cells /\ pc # "send"
    /\ pc = "idle" => r \in Cells
    /\ pc \in {"copy", "move"} =>
         /\ r \in Cells /\ part >= 1 /\ r + part <= Size
         /\ rest > 0 => r + part = Size
         /\ part + rest <= GetFull(r, w)
    /\ pc \in {"copy2", "move2"} => r = Size /\ rest > 0 /\ rest <= w
    /\ pc = "wrap" => r \in 0 .. Size

IInv == IsrTypeOK /\ good /\ Stream /\ TransferSound /\ WriterSound /\ ReaderSound

-----------------------------------------------------------------------------
(* Arithmetic of the two indices, and of the numbers of the bytes.           *)

LEMMA Sizes == Size \in Nat \ {0} /\ Size \in Nat /\ MaxLen \in Nat /\ IdMod \in Nat \ {0}
               /\ PerCall \in Nat
BY SizeAssumption, IsrAssumption

LEMMA NumType == ASSUME NEW x \in Int PROVE Num(x) \in 0 .. IdMod - 1
BY Sizes DEF Num

LEMMA NumSmall == ASSUME NEW x \in 0 .. IdMod - 1 PROVE Num(x) = x
BY Sizes DEF Num

LEMMA Remainder ==
  ASSUME NEW d \in Nat \ {0}, NEW q \in Int, NEW k \in 0 .. d - 1
  PROVE  (d * q + k) % d = k
OBVIOUS

LEMMA Division ==
  ASSUME NEW d \in Nat \ {0}, NEW x \in Int
  PROVE  x % d \in 0 .. d - 1 /\ x \div d \in Int /\ x = d * (x \div d) + (x % d)
OBVIOUS

\* Counting on from a number of a byte is counting on from the byte.
LEMMA NumPlus ==
  ASSUME NEW a \in Int, NEW c \in Int
  PROVE  Num(Num(a) + c) = Num(a + c)
<1> DEFINE q == a \div IdMod
           m == a % IdMod
           p == (m + c) \div IdMod
           n == (m + c) % IdMod
<1>1. q \in Int /\ m \in 0 .. IdMod - 1 /\ a = IdMod * q + m
  BY Division, Sizes
<1> HIDE DEF q, m
<1>2. m + c \in Int
  BY <1>1, Sizes
<1>3. p \in Int /\ n \in 0 .. IdMod - 1 /\ m + c = IdMod * p + n
  BY <1>2, Division, Sizes
<1> HIDE DEF p, n
<1>4. a + c = IdMod * (q + p) + n
  <2>1. a + c = (IdMod * q) + (IdMod * p) + n
    BY <1>1, <1>3, Sizes
  <2>2. IdMod * (q + p) = (IdMod * q) + (IdMod * p)
    BY <1>1, <1>3, Sizes
  <2> QED BY <2>1, <2>2, <1>1, <1>3, Sizes
<1>5. (IdMod * (q + p) + n) % IdMod = n
  <2>1. q + p \in Int
    BY <1>1, <1>3
  <2> QED BY <2>1, <1>3, Remainder, Sizes
<1>6. (a + c) % IdMod = n
  BY <1>4, <1>5
<1> QED BY <1>6 DEF n, m, Num

LEMMA Full ==
  ASSUME NEW rd \in Cells, NEW wr \in Cells
  PROVE  /\ GetFull(rd, wr) \in 0 .. Size - 1
         /\ GetFree(rd, wr) = Size - 1 - GetFull(rd, wr) /\ GetFree(rd, wr) \in Nat
         /\ \A k \in Nat : k < Size => Advanced(rd, k) \in Cells
BY Sizes DEF GetFull, GetFree, Cells, Advanced

LEMMA WriterMoves ==
  ASSUME NEW rd \in Cells, NEW wr \in Cells, NEW n \in Nat,
         GetFull(rd, wr) + n <= Size - 1
  PROVE  /\ Advanced(wr, n) \in Cells
         /\ GetFull(rd, Advanced(wr, n)) = GetFull(rd, wr) + n
         /\ \A k \in 0 .. n - 1 : Advanced(rd, GetFull(rd, wr) + k) = Advanced(wr, k)
         /\ \A j \in 0 .. GetFull(rd, wr) - 1, k \in 0 .. n - 1 : Advanced(rd, j) # Advanced(wr, k)
BY Sizes DEF GetFull, Advanced, Cells

LEMMA ReaderMoves ==
  ASSUME NEW rd \in Cells, NEW wr \in Cells, NEW n \in Nat, n <= GetFull(rd, wr)
  PROVE  /\ Advanced(rd, n) \in Cells
         /\ GetFull(Advanced(rd, n), wr) = GetFull(rd, wr) - n
         /\ \A k \in Nat : n + k < GetFull(rd, wr) =>
              Advanced(Advanced(rd, n), k) = Advanced(rd, n + k)
BY Sizes DEF GetFull, Advanced, Cells

\* What is copied in two parts.
LEMMA TwoParts ==
  ASSUME NEW i \in Cells, NEW n \in 1 .. Size
  PROVE  /\ Lesser(Size - i, n) \in 1 .. Size /\ n - Lesser(Size - i, n) \in 0 .. Size
         /\ i + Lesser(Size - i, n) <= Size
         /\ n - Lesser(Size - i, n) > 0 => i + Lesser(Size - i, n) = Size
         /\ Lesser(Size - i, n) + (n - Lesser(Size - i, n)) = n
BY Sizes DEF Lesser, Cells

-----------------------------------------------------------------------------
(* Bytes put into the memory and taken out of it. *)

\* n bytes of the stream put behind those the memory holds.
LEMMA PutHolds ==
  ASSUME NEW b, NEW c, NEW p \in Cells, NEW e \in Cells, NEW tk \in Int, NEW wr, NEW n \in Nat,
         Holds(b, p, e, tk, wr), GetFull(p, e) + n <= Size - 1,
         \A k \in 0 .. n - 1 : c[Advanced(e, k)] = Num(wr + k),
         \A i \in Cells : (\A k \in 0 .. n - 1 : i # Advanced(e, k)) => c[i] = b[i]
  PROVE  Advanced(e, n) \in Cells /\ Holds(c, p, Advanced(e, n), tk, Num(wr + n))
<1> DEFINE f == GetFull(p, e)
<1>1. f \in 0 .. Size - 1 /\ wr = Num(tk + f) /\ f \in Int
  BY Full, Sizes DEF Holds
<1>2. Advanced(e, n) \in Cells /\ GetFull(p, Advanced(e, n)) = f + n
  BY WriterMoves
<1>3. \A k \in Nat : Num(wr + k) = Num(tk + (f + k))
  <2> SUFFICES ASSUME NEW k \in Nat PROVE Num(wr + k) = Num(tk + (f + k))
    OBVIOUS
  <2>1. PICK a \in Int : a = tk + f
    BY <1>1
  <2>2. Num(Num(a) + k) = Num(a + k)
    BY NumPlus
  <2>3. a + k = tk + (f + k)
    BY <1>1, <2>1
  <2> QED BY <1>1, <2>1, <2>2, <2>3
<1>4. ASSUME NEW j \in 0 .. (f + n) - 1 PROVE c[Advanced(p, j)] = Num(tk + j)
  <2>1. CASE j < f
    <3>1. j \in 0 .. f - 1 /\ j \in Nat /\ j < Size
      BY <1>1, <2>1, Sizes
    <3>2. Advanced(p, j) \in Cells /\ \A k \in 0 .. n - 1 : Advanced(p, j) # Advanced(e, k)
      BY <3>1, WriterMoves, Full
    <3>3. c[Advanced(p, j)] = b[Advanced(p, j)]
      BY <3>2
    <3> QED BY <3>1, <3>3 DEF Holds
  <2>2. CASE j >= f
    <3>1. PICK k \in 0 .. n - 1 : j = f + k
      <4>1. j - f \in 0 .. n - 1 /\ j = f + (j - f)
        BY <1>1, <2>2
      <4> QED BY <4>1
    <3>2. Advanced(p, f + k) = Advanced(e, k)
      BY WriterMoves
    <3>3. c[Advanced(p, j)] = Num(wr + k) /\ k \in Nat
      BY <3>1, <3>2
    <3> QED BY <1>3, <3>1, <3>3
  <2> QED BY <1>1, <2>1, <2>2
<1>5. Num(wr + n) = Num(tk + (f + n))
  BY <1>3
<1> QED BY <1>2, <1>4, <1>5 DEF Holds

\* n bytes taken from those the memory holds are the next of the stream.
LEMMA TakeHolds ==
  ASSUME NEW b, NEW p \in Cells, NEW e \in Cells, NEW tk \in Int, NEW wr, NEW n \in Nat,
         Holds(b, p, e, tk, wr), n <= GetFull(p, e)
  PROVE  /\ Advanced(p, n) \in Cells /\ Holds(b, Advanced(p, n), e, Num(tk + n), wr)
         /\ \A k \in 0 .. n - 1 : b[Advanced(p, k)] = Num(tk + k)
<1> DEFINE f == GetFull(p, e)
           q == Advanced(p, n)
<1>1. f \in 0 .. Size - 1 /\ wr = Num(tk + f) /\ f \in Int
  BY Full, Sizes DEF Holds
<1>2. q \in Cells /\ GetFull(q, e) = f - n
  BY ReaderMoves
<1>3. \A k \in Nat : Num(Num(tk + n) + k) = Num(tk + (n + k))
  <2> SUFFICES ASSUME NEW k \in Nat PROVE Num(Num(tk + n) + k) = Num(tk + (n + k))
    OBVIOUS
  <2>1. PICK a \in Int : a = tk + n
    OBVIOUS
  <2>2. Num(Num(a) + k) = Num(a + k)
    BY NumPlus
  <2>3. a + k = tk + (n + k)
    BY <2>1
  <2> QED BY <2>1, <2>2, <2>3
<1>4. wr = Num(Num(tk + n) + GetFull(q, e))
  <2>1. PICK g \in Nat : g = f - n
    BY <1>1
  <2>2. n + g = f
    BY <1>1, <2>1
  <2> QED BY <1>1, <1>2, <1>3, <2>1, <2>2
<1>5. ASSUME NEW k \in 0 .. GetFull(q, e) - 1 PROVE b[Advanced(q, k)] = Num(Num(tk + n) + k)
  <2>1. k \in Nat /\ n + k < f /\ n + k \in 0 .. f - 1
    BY <1>1, <1>2
  <2>2. Advanced(q, k) = Advanced(p, n + k)
    BY <2>1, ReaderMoves
  <2>3. b[Advanced(p, n + k)] = Num(tk + (n + k))
    BY <2>1 DEF Holds
  <2> QED BY <1>3, <2>1, <2>2, <2>3
<1>6. \A k \in 0 .. n - 1 : b[Advanced(p, k)] = Num(tk + k)
  BY <1>1 DEF Holds
<1> HIDE DEF q
<1> QED BY <1>2, <1>4, <1>5, <1>6 DEF Holds, q

-----------------------------------------------------------------------------
(* Main writes, the DMA reads. *)

LEMMA Types ==
  ASSUME IsrTypeOK
  PROVE  /\ buff \in [Cells -> 0 .. IdMod - 1] /\ mainWrites \in BOOLEAN
         /\ r \in 0 .. Size /\ w \in 0 .. Size
         /\ part \in 0 .. Size /\ rest \in 0 .. Size /\ dmaLeft \in 0 .. Size
         /\ len \in 0 .. Size /\ dmaAt \in 0 .. Size /\ isrs \in 0 .. PerCall
         /\ written \in 0 .. IdMod - 1 /\ taken \in 0 .. IdMod - 1
         /\ written \in Int /\ taken \in Int
BY Sizes DEF IsrTypeOK, Cells

\* Where the DMA reads, in terms of the transfer, and what is there to read.
LEMMA Transfer ==
  ASSUME IInv, mainWrites
  PROVE  /\ len - dmaLeft \in Nat /\ TakePos = Advanced(r, len - dmaLeft)
         /\ TakePos \in Cells /\ PutPos \in Cells
         /\ GetFull(TakePos, PutPos) = GetFull(r, PutPos) - (len - dmaLeft)
         /\ dmaLeft <= GetFull(TakePos, PutPos)
<1>1. /\ r \in Cells /\ w \in 0 .. Size /\ r + len <= Size /\ dmaLeft <= len
      /\ len > 0 => dmaAt = r + len - dmaLeft
      /\ len <= GetFull(r, w)
      /\ len \in 0 .. Size /\ dmaLeft \in 0 .. Size /\ part \in 0 .. Size /\ rest \in 0 .. Size
      /\ pc \in {"idle", "copy", "move", "copy2", "move2", "wrap", "send"}
  BY Types DEF IInv, TransferSound, IsrTypeOK
<1>2. len - dmaLeft \in Nat /\ TakePos = Advanced(r, len - dmaLeft)
  BY <1>1, Sizes DEF TakePos, Norm, Advanced, Cells
<1>3. PutPos \in Cells /\ len <= GetFull(r, PutPos)
  <2>1. CASE pc \in {"idle", "send", "copy"}
    <3>1. PutPos = w /\ w \in Cells
      BY <2>1, <1>1, Sizes DEF PutPos, Norm, Cells, IInv, WriterSound
    <3> QED BY <1>1, <3>1
  <2>2. CASE pc = "move"
    <3>1. PutPos = Norm(w + part)
      BY <2>2 DEF PutPos
    <3>2. w \in Cells /\ w + part <= Size /\ GetFull(r, w) + part + rest <= Size - 1
      BY <2>2 DEF IInv, WriterSound
    <3> QED BY <1>1, <3>1, <3>2, Sizes DEF Norm, GetFull, Cells
  <2>3. CASE pc = "copy2"
    <3>1. PutPos = 0 /\ w = Size /\ 0 < r
      BY <2>3, <1>1, Sizes DEF PutPos, Norm, Cells, IInv, WriterSound
    <3> QED BY <1>1, <3>1, Sizes DEF GetFull, Cells
  <2>4. CASE pc = "move2"
    <3>1. PutPos = Norm(rest) /\ w = Size /\ rest < r
      BY <2>4, <1>1, Sizes DEF PutPos, Cells, IInv, WriterSound
    <3> QED BY <1>1, <3>1, Sizes DEF GetFull, Cells, Norm
  <2>5. CASE pc = "wrap"
    <3>1. PutPos = Norm(w) /\ (w = Size => r > 0)
      BY <2>5 DEF PutPos, IInv, WriterSound
    <3> QED BY <1>1, <3>1, Sizes DEF GetFull, Cells, Norm
  <2> QED BY <1>1, <2>1, <2>2, <2>3, <2>4, <2>5
<1>4. /\ Advanced(r, len - dmaLeft) \in Cells
      /\ GetFull(Advanced(r, len - dmaLeft), PutPos) = GetFull(r, PutPos) - (len - dmaLeft)
  <2>1. PICK m \in Nat : m = len - dmaLeft
    BY <1>2
  <2>2. GetFull(r, PutPos) \in 0 .. Size - 1
    BY <1>1, <1>3, Full
  <2>3. m <= GetFull(r, PutPos)
    BY <1>1, <1>3, <2>1, <2>2
  <2> QED BY <1>1, <1>3, <2>1, <2>3, ReaderMoves
<1>5. dmaLeft <= GetFull(r, PutPos) - (len - dmaLeft)
  <2>1. GetFull(r, PutPos) \in 0 .. Size - 1
    BY <1>1, <1>3, Full
  <2> QED BY <1>1, <1>3, <2>1
<1> QED BY <1>2, <1>3, <1>4, <1>5

LEMMA WriteBeginStep == ASSUME IInv, NEW n \in 1 .. MaxLen, WriteBegin(n) PROVE IInv'
<1>1. PICK btw \in Nat : btw = Lesser(GetFree(r, w), n) /\ btw > 0 /\ btw <= GetFree(r, w)
                          /\ part' = Lesser(Size - w, btw) /\ rest' = btw - part'
  <2>1. r \in Cells /\ w \in Cells
    BY DEF WriteBegin, IInv, TransferSound, WriterSound
  <2>2. GetFree(r, w) \in Nat
    BY <2>1, Full
  <2>3. n \in Nat
    BY Sizes
  <2>4. Lesser(GetFree(r, w), n) \in Nat /\ Lesser(GetFree(r, w), n) <= GetFree(r, w)
    BY <2>2, <2>3 DEF Lesser
  <2> QED BY <2>4 DEF WriteBegin
<1>2. /\ mainWrites /\ pc = "idle" /\ pc' = "copy" /\ isrs' = 0
      /\ UNCHANGED <<mainWrites, buff, r, w, dmaAt, dmaLeft, len, written, taken, good>>
  BY DEF WriteBegin, ring, dma, history
<1>3. r \in Cells /\ w \in Cells /\ r + len <= Size /\ len <= GetFull(r, w)
  BY <1>2 DEF IInv, TransferSound, WriterSound
<1>4. /\ part' \in 1 .. Size /\ rest' \in 0 .. Size /\ w + part' <= Size
      /\ rest' > 0 => w + part' = Size
      /\ GetFull(r, w) + part' + rest' <= Size - 1
  <2>1. GetFree(r, w) = Size - 1 - GetFull(r, w) /\ GetFull(r, w) \in 0 .. Size - 1
    BY <1>3, Full
  <2>2. btw \in 1 .. Size /\ GetFull(r, w) + btw <= Size - 1
    BY <1>1, <2>1, Sizes
  <2>3. /\ part' \in 1 .. Size /\ rest' \in 0 .. Size /\ w + part' <= Size
        /\ rest' > 0 => w + part' = Size
        /\ part' + rest' = btw
    BY <1>1, <1>3, <2>2, TwoParts
  <2>4. GetFull(r, w) + part' + rest' = GetFull(r, w) + (part' + rest')
    BY <2>1, <2>3
  <2> QED BY <2>2, <2>3, <2>4
<1>5. IsrTypeOK'
  <2>1. IsrTypeOK
    BY DEF IInv
  <2> QED BY <1>2, <1>3, <1>4, <2>1, Sizes DEF IsrTypeOK, Cells
<1>6. Stream'
  <2>1. TakePos' = TakePos /\ PutPos' = PutPos
    BY <1>2 DEF TakePos, PutPos
  <2> QED BY <1>2, <2>1 DEF IInv, Stream
<1>7. TransferSound'
  BY <1>2 DEF IInv, TransferSound
<1>8. WriterSound' /\ ReaderSound'
  BY <1>2, <1>3, <1>4 DEF WriterSound, ReaderSound
<1> QED BY <1>2, <1>5, <1>6, <1>7, <1>8 DEF IInv

\* PutAt puts bytes as PutHolds has it.
LEMMA PutAtIs ==
  ASSUME IsrTypeOK, NEW i \in Cells, NEW n \in 0 .. Size, i + n <= Size, PutAt(i, n)
  PROVE  /\ buff' \in [Cells -> 0 .. IdMod - 1] /\ written' \in 0 .. IdMod - 1
         /\ written' = Num(written + n)
         /\ \A k \in 0 .. n - 1 : buff'[Advanced(i, k)] = Num(written + k)
         /\ \A c \in Cells : (\A k \in 0 .. n - 1 : c # Advanced(i, k)) => buff'[c] = buff[c]
<1>1. /\ buff' = [c \in Cells |-> IF c \in i .. i + n - 1 THEN Num(written + (c - i)) ELSE buff[c]]
      /\ written' = Num(written + n)
  BY DEF PutAt, Num
<1>2. buff \in [Cells -> 0 .. IdMod - 1] /\ written \in Int /\ i \in Int /\ n \in Int
  BY Types, Sizes DEF Cells
<1>3. written' \in 0 .. IdMod - 1
  <2>1. written + n \in Int
    BY <1>2
  <2> QED BY <1>1, <2>1, NumType
<1>4. buff' \in [Cells -> 0 .. IdMod - 1]
  <2>1. ASSUME NEW c \in Cells PROVE Num(written + (c - i)) \in 0 .. IdMod - 1
    <3>1. written + (c - i) \in Int
      BY <1>2, Sizes DEF Cells
    <3> QED BY <3>1, NumType
  <2> QED BY <1>1, <1>2, <2>1
<1>5. ASSUME NEW k \in 0 .. n - 1 PROVE buff'[Advanced(i, k)] = Num(written + k)
  <2>1. Advanced(i, k) = i + k /\ i + k \in Cells /\ i + k \in i .. i + n - 1 /\ (i + k) - i = k
    BY <1>2, Sizes DEF Advanced, Cells
  <2> QED BY <1>1, <2>1
<1>6. ASSUME NEW c \in Cells, \A k \in 0 .. n - 1 : c # Advanced(i, k)
      PROVE  buff'[c] = buff[c]
  <2>1. c \notin i .. i + n - 1
    <3> SUFFICES ASSUME c \in i .. i + n - 1 PROVE FALSE
      OBVIOUS
    <3>1. c - i \in 0 .. n - 1 /\ Advanced(i, c - i) = c
      BY <1>2, Sizes DEF Advanced, Cells
    <3> QED BY <1>6, <3>1
  <2> QED BY <1>1, <2>1
<1> QED BY <1>1, <1>3, <1>4, <1>5, <1>6

LEMMA WriteCopyStep == ASSUME IInv, WriteCopy PROVE IInv'
<1>1. /\ mainWrites /\ pc = "copy" /\ pc' = "move" /\ PutAt(w, part)
      /\ UNCHANGED <<mainWrites, r, w, part, rest, dmaAt, dmaLeft, len, isrs, taken, good>>
  BY DEF WriteCopy, dma
<1>2. /\ r \in Cells /\ w \in Cells /\ part \in 1 .. Size /\ w + part <= Size /\ rest \in 0 .. Size
      /\ rest > 0 => w + part = Size
      /\ GetFull(r, w) + part + rest <= Size - 1
  BY <1>1, Types, Sizes DEF IInv, TransferSound, WriterSound
<1>3. PutPos = w /\ PutPos' = Advanced(w, part)
  BY <1>1, <1>2, Sizes DEF PutPos, Norm, Advanced, Cells
<1>4. TakePos \in Cells /\ GetFull(TakePos, w) + part <= Size - 1
  <2>1. GetFull(TakePos, w) = GetFull(r, w) - (len - dmaLeft) /\ len - dmaLeft \in Nat
        /\ TakePos \in Cells
    BY <1>1, <1>3, Transfer
  <2>2. GetFull(r, w) \in Nat
    BY <1>2, Full
  <2> QED BY <1>2, <2>1, <2>2, Sizes
<1>5. /\ buff' \in [Cells -> 0 .. IdMod - 1] /\ written' \in 0 .. IdMod - 1
      /\ written' = Num(written + part)
      /\ \A k \in 0 .. part - 1 : buff'[Advanced(w, k)] = Num(written + k)
      /\ \A c \in Cells : (\A k \in 0 .. part - 1 : c # Advanced(w, k)) => buff'[c] = buff[c]
  BY <1>1, <1>2, PutAtIs DEF IInv
<1>6. Stream'
  <2>1. Holds(buff, TakePos, w, taken, written) /\ taken \in Int /\ part \in Nat
    BY <1>2, <1>3, Types DEF IInv, Stream
  <2>2. Holds(buff', TakePos, Advanced(w, part), taken, written')
    BY <1>2, <1>4, <1>5, <2>1, PutHolds
  <2>3. TakePos' = TakePos
    BY <1>1 DEF TakePos
  <2> QED BY <1>1, <1>3, <2>2, <2>3 DEF Stream
<1>7. IsrTypeOK'
  <2>1. IsrTypeOK
    BY DEF IInv
  <2> QED BY <1>1, <1>5, <2>1 DEF IsrTypeOK
<1>8. TransferSound'
  BY <1>1 DEF IInv, TransferSound
<1>9. WriterSound' /\ ReaderSound'
  BY <1>1, <1>2 DEF WriterSound, ReaderSound
<1> QED BY <1>1, <1>6, <1>7, <1>8, <1>9 DEF IInv

LEMMA WriteMoveStep == ASSUME IInv, WriteMove PROVE IInv'
<1>1. /\ mainWrites /\ pc = "move" /\ w' = w + part
      /\ pc' = (IF rest > 0 THEN "copy2" ELSE "wrap")
      /\ UNCHANGED <<mainWrites, buff, r, part, rest, dmaAt, dmaLeft, len, isrs, written, taken, good>>
  BY DEF WriteMove, dma, history
<1>2. /\ r \in Cells /\ w \in Cells /\ part \in 1 .. Size /\ w + part <= Size /\ rest \in 0 .. Size
      /\ rest > 0 => w + part = Size
      /\ GetFull(r, w) + part + rest <= Size - 1
      /\ len \in 0 .. Size /\ len <= GetFull(r, w) /\ r + len <= Size
  BY <1>1, Types, Sizes DEF IInv, TransferSound, WriterSound
<1>3. /\ w' \in 0 .. Size /\ len <= GetFull(r, w')
      /\ rest > 0 => rest < r /\ r + len <= Size - part
      /\ w' = Size => r > 0 /\ r + len <= Size - part
  BY <1>1, <1>2, Sizes DEF GetFull, Cells
<1>4. Stream'
  <2>1. TakePos' = TakePos
    BY <1>1 DEF TakePos
  <2>2. PutPos' = PutPos
    BY <1>1, <1>2, Sizes DEF PutPos, Norm
  <2> QED BY <1>1, <2>1, <2>2 DEF IInv, Stream
<1>5. IsrTypeOK'
  <2>1. IsrTypeOK
    BY DEF IInv
  <2> QED BY <1>1, <1>3, <2>1 DEF IsrTypeOK
<1>6. TransferSound'
  BY <1>1, <1>3 DEF IInv, TransferSound
<1>7. WriterSound' /\ ReaderSound'
  BY <1>1, <1>2, <1>3, Sizes DEF WriterSound, ReaderSound
<1> QED BY <1>1, <1>4, <1>5, <1>6, <1>7 DEF IInv

LEMMA WriteCopy2Step == ASSUME IInv, WriteCopy2 PROVE IInv'
<1>1. /\ mainWrites /\ pc = "copy2" /\ pc' = "move2" /\ PutAt(0, rest)
      /\ UNCHANGED <<mainWrites, r, w, part, rest, dmaAt, dmaLeft, len, isrs, taken, good>>
  BY DEF WriteCopy2, dma
<1>2. /\ r \in Cells /\ w = Size /\ rest \in 1 .. Size /\ rest < r /\ 0 \in Cells
  BY <1>1, Types, Sizes DEF IInv, TransferSound, WriterSound, Cells
<1>3. PutPos = 0 /\ PutPos' = Advanced(0, rest)
  BY <1>1, <1>2, Sizes DEF PutPos, Norm, Advanced, Cells
<1>4. TakePos \in Cells /\ GetFull(TakePos, 0) + rest <= Size - 1
  <2>1. GetFull(TakePos, 0) = GetFull(r, 0) - (len - dmaLeft) /\ len - dmaLeft \in Nat
        /\ TakePos \in Cells
    BY <1>1, <1>3, Transfer
  <2>2. GetFull(r, 0) = Size - r
    BY <1>2, Sizes DEF GetFull, Cells
  <2> QED BY <1>2, <2>1, <2>2, Sizes DEF Cells
<1>5. /\ buff' \in [Cells -> 0 .. IdMod - 1] /\ written' \in 0 .. IdMod - 1
      /\ written' = Num(written + rest)
      /\ \A k \in 0 .. rest - 1 : buff'[Advanced(0, k)] = Num(written + k)
      /\ \A c \in Cells : (\A k \in 0 .. rest - 1 : c # Advanced(0, k)) => buff'[c] = buff[c]
  BY <1>1, <1>2, PutAtIs, Sizes DEF IInv
<1>6. Stream'
  <2>1. Holds(buff, TakePos, 0, taken, written) /\ taken \in Int /\ rest \in Nat
    BY <1>2, <1>3, Types DEF IInv, Stream
  <2>2. Holds(buff', TakePos, Advanced(0, rest), taken, written')
    BY <1>2, <1>4, <1>5, <2>1, PutHolds
  <2>3. TakePos' = TakePos
    BY <1>1 DEF TakePos
  <2> QED BY <1>1, <1>3, <2>2, <2>3 DEF Stream
<1>7. IsrTypeOK'
  <2>1. IsrTypeOK
    BY DEF IInv
  <2> QED BY <1>1, <1>5, <2>1 DEF IsrTypeOK
<1>8. TransferSound'
  BY <1>1 DEF IInv, TransferSound
<1>9. WriterSound' /\ ReaderSound'
  BY <1>1, <1>2 DEF WriterSound, ReaderSound, IInv
<1> QED BY <1>1, <1>6, <1>7, <1>8, <1>9 DEF IInv

LEMMA WriteMove2Step == ASSUME IInv, WriteMove2 PROVE IInv'
<1>1. /\ mainWrites /\ pc = "move2" /\ w' = rest /\ pc' = "wrap"
      /\ UNCHANGED <<mainWrites, buff, r, part, rest, dmaAt, dmaLeft, len, isrs, written, taken, good>>
  BY DEF WriteMove2, dma, history
<1>2. /\ r \in Cells /\ w = Size /\ rest \in 1 .. Size /\ rest < r
      /\ len \in 0 .. Size /\ len <= GetFull(r, w) /\ r + len <= Size
      /\ part >= 1 /\ (isrs = 0 => r + len <= Size - part)
  BY <1>1, Types, Sizes DEF IInv, TransferSound, WriterSound
<1>3. w' \in 0 .. Size /\ w' # Size /\ len <= GetFull(r, w')
  BY <1>1, <1>2, Sizes DEF GetFull, Cells
<1>4. Stream'
  <2>1. TakePos' = TakePos
    BY <1>1 DEF TakePos
  <2>2. PutPos' = PutPos
    BY <1>1 DEF PutPos
  <2> QED BY <1>1, <2>1, <2>2 DEF IInv, Stream
<1>5. IsrTypeOK'
  <2>1. IsrTypeOK
    BY DEF IInv
  <2> QED BY <1>1, <1>3, <2>1 DEF IsrTypeOK
<1>6. TransferSound'
  BY <1>1, <1>3 DEF IInv, TransferSound
<1>7. WriterSound' /\ ReaderSound'
  BY <1>1, <1>2, <1>3, Sizes DEF WriterSound, ReaderSound
<1> QED BY <1>1, <1>4, <1>5, <1>6, <1>7 DEF IInv

LEMMA WriteWrapStep == ASSUME IInv, WriteWrap PROVE IInv'
<1>1. /\ mainWrites /\ pc = "wrap" /\ w' = (IF w >= Size THEN 0 ELSE w) /\ pc' = "send"
      /\ UNCHANGED <<mainWrites, buff, r, part, rest, dmaAt, dmaLeft, len, isrs, written, taken, good>>
  BY DEF WriteWrap, dma, history
<1>2. /\ r \in Cells /\ w \in 0 .. Size /\ (w = Size => r > 0)
      /\ len \in 0 .. Size /\ len <= GetFull(r, w) /\ r + len <= Size
  BY <1>1, Types, Sizes DEF IInv, TransferSound, WriterSound
<1>3. w' \in Cells /\ w' \in 0 .. Size /\ w' = Norm(w) /\ Norm(w') = w' /\ len <= GetFull(r, w')
  BY <1>1, <1>2, Sizes DEF GetFull, Cells, Norm
<1>4. Stream'
  <2>1. TakePos' = TakePos
    BY <1>1 DEF TakePos
  <2>2. PutPos' = Norm(w') /\ PutPos = Norm(w)
    BY <1>1 DEF PutPos, Norm
  <2> QED BY <1>1, <1>3, <2>1, <2>2 DEF IInv, Stream
<1>5. IsrTypeOK'
  <2>1. IsrTypeOK
    BY DEF IInv
  <2> QED BY <1>1, <1>3, <2>1 DEF IsrTypeOK
<1>6. TransferSound'
  BY <1>1, <1>3 DEF IInv, TransferSound
<1>7. WriterSound' /\ ReaderSound'
  BY <1>1, <1>3 DEF WriterSound, ReaderSound
<1> QED BY <1>1, <1>4, <1>5, <1>6, <1>7 DEF IInv

\* send_data takes the linear block at rd.
LEMMA Linear ==
  ASSUME NEW rd \in Cells, NEW wr \in 0 .. Size, wr = Size => rd > 0
  PROVE  /\ LinearRead(rd, wr) \in 0 .. Size /\ rd + LinearRead(rd, wr) <= Size
         /\ LinearRead(rd, wr) <= GetFull(rd, wr)
         /\ rd # wr => LinearRead(rd, wr) > 0
BY Sizes DEF LinearRead, GetFull, Cells

LEMMA MainSendStep == ASSUME IInv, MainSend PROVE IInv'
<1>1. /\ mainWrites /\ pc = "send" /\ pc' = "idle"
      /\ IF len > 0 THEN UNCHANGED <<dmaAt, dmaLeft, len>>
         ELSE len' = LinearRead(r, w) /\ dmaLeft' = len' /\ dmaAt' = r
      /\ UNCHANGED <<mainWrites, buff, r, w, part, rest, isrs, written, taken, good>>
  BY DEF MainSend, dma, ring, history, SendData
<1>2. r \in Cells /\ w \in Cells /\ w \in 0 .. Size /\ w # Size /\ r \in 0 .. Size
  BY <1>1, Sizes DEF IInv, TransferSound, WriterSound, Cells
<1>3. IsrTypeOK /\ len \in 0 .. Size
  BY Types DEF IInv
<1>4. CASE len > 0
  <2>1. UNCHANGED <<dmaAt, dmaLeft, len>>
    BY <1>1, <1>4
  <2>2. IsrTypeOK'
    BY <1>1, <1>2, <1>3, <2>1 DEF IsrTypeOK
  <2>3. Stream'
    <3>1. TakePos' = TakePos /\ PutPos' = PutPos
      BY <1>1, <2>1 DEF TakePos, PutPos
    <3> QED BY <1>1, <3>1 DEF IInv, Stream
  <2>4. TransferSound'
    BY <1>1, <1>4, <2>1 DEF IInv, TransferSound
  <2>5. WriterSound' /\ ReaderSound'
    BY <1>1, <1>2 DEF WriterSound, ReaderSound
  <2> QED BY <1>1, <2>2, <2>3, <2>4, <2>5 DEF IInv
<1>5. CASE ~(len > 0)
  <2>1. /\ len' = LinearRead(r, w) /\ dmaLeft' = len' /\ dmaAt' = r
        /\ len' \in 0 .. Size /\ r + len' <= Size /\ len' <= GetFull(r, w)
        /\ (r # w => len' > 0)
    BY <1>1, <1>2, <1>5, Linear
  <2>2. IsrTypeOK'
    BY <1>1, <1>2, <1>3, <2>1 DEF IsrTypeOK
  <2>3. Stream'
    <3>1. TakePos' = TakePos /\ PutPos' = PutPos
      BY <1>1, <1>5, <2>1 DEF TakePos, PutPos
    <3> QED BY <1>1, <3>1 DEF IInv, Stream
  <2>4. TransferSound'
    BY <1>1, <1>2, <2>1, Sizes DEF TransferSound, Cells
  <2>5. WriterSound' /\ ReaderSound'
    BY <1>1, <1>2 DEF WriterSound, ReaderSound
  <2> QED BY <1>1, <2>2, <2>3, <2>4, <2>5 DEF IInv
<1> QED BY <1>4, <1>5

LEMMA DmaByteStep == ASSUME IInv, DmaByte PROVE IInv'
<1>1. /\ dmaLeft > 0 /\ dmaAt < Size /\ TakeAt(dmaAt, 1)
      /\ dmaLeft' = dmaLeft - 1 /\ dmaAt' = dmaAt + 1
      /\ UNCHANGED <<mainWrites, buff, r, w, pc, part, rest, len, isrs, written>>
  BY DEF DmaByte, ring, main
<1>2. IsrTypeOK /\ taken \in Int /\ dmaLeft \in 0 .. Size /\ len \in 0 .. Size /\ dmaAt \in 0 .. Size
      /\ good \in BOOLEAN
  BY Types DEF IInv, IsrTypeOK
<1>3. mainWrites /\ dmaLeft <= len /\ len > 0 /\ r \in Cells /\ r + len <= Size
      /\ dmaAt = r + len - dmaLeft
  <2>1. mainWrites
    BY <1>1, <1>2 DEF IInv, TransferSound
  <2> QED BY <1>1, <1>2, <2>1 DEF IInv, TransferSound
<1>4. dmaAt \in Cells /\ TakePos = dmaAt /\ PutPos \in Cells /\ 1 <= GetFull(dmaAt, PutPos)
  <2>1. dmaAt \in Cells /\ TakePos = dmaAt
    BY <1>1, <1>2, <1>3, Sizes DEF TakePos, Norm, Cells
  <2>2. PutPos \in Cells /\ dmaLeft <= GetFull(dmaAt, PutPos)
    BY <1>3, <2>1, Transfer
  <2>3. GetFull(dmaAt, PutPos) \in 0 .. Size - 1
    BY <2>1, <2>2, Full
  <2> QED BY <1>1, <1>2, <2>1, <2>2, <2>3
<1>5. /\ Holds(buff, Advanced(dmaAt, 1), PutPos, Num(taken + 1), written)
      /\ \A k \in 0 .. 1 - 1 : buff[Advanced(dmaAt, k)] = Num(taken + k)
  <2>1. Holds(buff, dmaAt, PutPos, taken, written)
    BY <1>4 DEF IInv, Stream
  <2> QED BY <1>2, <1>4, <2>1, TakeHolds
<1>6. good' /\ taken' = Num(taken + 1) /\ taken' \in 0 .. IdMod - 1
  <2>1. ASSUME NEW k \in 0 .. 1 - 1 PROVE buff[dmaAt + k] = Num(taken + k)
    <3>1. Advanced(dmaAt, k) = dmaAt + k
      BY <1>1, <1>2, Sizes DEF Advanced
    <3> QED BY <1>5, <3>1
  <2>2. good' = (good /\ \A k \in 0 .. 1 - 1 : buff[dmaAt + k] = Num(taken + k))
        /\ taken' = Num(taken + 1)
    BY <1>1 DEF TakeAt, Num
  <2>3. good'
    BY <2>1, <2>2 DEF IInv
  <2>4. taken + 1 \in Int
    BY <1>2
  <2> QED BY <2>2, <2>3, <2>4, NumType
<1>7. Stream'
  <2>1. PutPos' = PutPos
    BY <1>1 DEF PutPos
  <2>2. TakePos' = Norm(dmaAt + 1)
    BY <1>1, <1>3 DEF TakePos, Norm
  <2>3. Norm(dmaAt + 1) = Advanced(dmaAt, 1)
    BY <1>1, <1>2, Sizes DEF Norm, Advanced
  <2> QED BY <1>1, <1>5, <1>6, <2>1, <2>2, <2>3 DEF Stream
<1>8. IsrTypeOK'
  <2>1. dmaAt' \in 0 .. Size /\ dmaLeft' \in 0 .. Size /\ good' \in BOOLEAN
    BY <1>1, <1>2, <1>6, Sizes
  <2> QED BY <1>1, <1>2, <1>6, <2>1 DEF IsrTypeOK
<1>9. TransferSound'
  <2>1. dmaLeft' <= len /\ dmaAt' = r + len - dmaLeft'
    BY <1>1, <1>2, <1>3, Sizes DEF Cells
  <2> QED BY <1>1, <1>3, <2>1 DEF IInv, TransferSound
<1>10. WriterSound' /\ ReaderSound'
  BY <1>1 DEF IInv, WriterSound, ReaderSound
<1> QED BY <1>6, <1>7, <1>8, <1>9, <1>10 DEF IInv

LEMMA DmaInterruptStep == ASSUME PerCall <= 1, IInv, DmaInterrupt PROVE IInv'
<1>1. /\ len > 0 /\ dmaLeft = 0
      /\ pc \in {"idle", "send"} \/ isrs < PerCall
      /\ isrs' = (IF pc \in {"idle", "send"} THEN isrs ELSE isrs + 1)
      /\ r' = Advanced(r, Lesser(len, GetFull(r, w)))
      /\ len' = LinearRead(r', w) /\ dmaLeft' = len' /\ dmaAt' = r'
      /\ UNCHANGED <<mainWrites, buff, w, pc, part, rest, written, taken, good>>
  BY DEF DmaInterrupt, SkipSent, SendData, main, history
<1>2. IsrTypeOK /\ len \in 0 .. Size /\ isrs \in 0 .. PerCall /\ part \in 0 .. Size /\ rest \in 0 .. Size
      /\ pc \in {"idle", "copy", "move", "copy2", "move2", "wrap", "send"}
  BY Types DEF IInv, IsrTypeOK
<1>3. /\ mainWrites /\ r \in Cells /\ w \in 0 .. Size /\ r + len <= Size /\ len <= GetFull(r, w)
  BY <1>1, <1>2 DEF IInv, TransferSound
<1>4. r' = Advanced(r, len) /\ r' \in Cells
  <2>1. Lesser(len, GetFull(r, w)) = len
    BY <1>2, <1>3, Sizes DEF Lesser, GetFull, Cells
  <2>2. Advanced(r, len) \in Cells
    BY <1>2, <1>3, Sizes DEF Advanced, Cells
  <2> QED BY <1>1, <2>1, <2>2
<1>5. pc \notin {"idle", "send"} => isrs = 0 /\ isrs' = 1 /\ 1 \in 0 .. PerCall
  BY <1>1, <1>2, Sizes
<1>6. /\ pc \in {"idle", "send", "copy", "move"} => w \in Cells
      /\ w = Size => r + len <= Size - part /\ part >= 1
      /\ pc \in {"copy2", "move2", "wrap"} /\ rest > 0 => rest < r /\ r + len <= Size - part /\ part >= 1
  BY <1>2, <1>3, <1>5, Sizes DEF IInv, WriterSound, Cells
<1>7. w = Size => r' > 0
  BY <1>1, <1>2, <1>3, <1>4, <1>6, Sizes DEF Advanced, Cells
<1>8. len' \in 0 .. Size /\ r' + len' <= Size /\ len' <= GetFull(r', w) /\ (r' # w => len' > 0)
  BY <1>1, <1>3, <1>4, <1>7, Linear
<1>9. IsrTypeOK'
  <2>1. r' \in 0 .. Size /\ isrs' \in 0 .. PerCall
    BY <1>1, <1>2, <1>4, <1>5, Sizes DEF Cells
  <2> QED BY <1>1, <1>2, <1>3, <1>4, <1>8, <2>1 DEF IsrTypeOK
<1>10. Stream'
  <2>1. PutPos' = PutPos
    BY <1>1 DEF PutPos
  <2>2. TakePos = Advanced(r, len - dmaLeft) /\ len - dmaLeft = len
    BY <1>1, <1>2, <1>3, Transfer
  <2>3. TakePos' = Norm(r')
    BY <1>1, <1>3 DEF TakePos, Norm
  <2>4. Norm(r') = r'
    BY <1>4, Sizes DEF Norm, Cells
  <2> QED BY <1>1, <1>4, <2>1, <2>2, <2>3, <2>4 DEF IInv, Stream
<1>11. TransferSound'
  BY <1>1, <1>3, <1>4, <1>8, Sizes DEF TransferSound, Cells
<1>12. WriterSound'
  <2>1. CASE pc \in {"idle", "send"}
    BY <1>1, <1>6, <2>1 DEF WriterSound
  <2>2. CASE pc \in {"copy", "move"}
    <3>1. /\ w \in Cells /\ part >= 1 /\ w + part <= Size
          /\ rest > 0 => w + part = Size
          /\ GetFull(r, w) + part + rest <= Size - 1
      BY <1>3, <2>2 DEF IInv, WriterSound
    <3>2. GetFull(r', w) = GetFull(r, w) - len /\ GetFull(r, w) \in 0 .. Size - 1
      BY <1>2, <1>3, <1>4, <3>1, ReaderMoves, Full
    <3>3. GetFull(r', w) + part + rest <= Size - 1
      BY <1>2, <3>1, <3>2, Sizes
    <3> QED BY <1>1, <2>2, <3>1, <3>3 DEF WriterSound
  <2>3. CASE pc \in {"copy2", "move2", "wrap"}
    <3>1. rest > 0 => rest < r'
      BY <1>2, <1>3, <1>4, <1>6, <2>3, Sizes DEF Advanced, Cells
    <3>2. isrs' # 0
      BY <1>5, <2>3
    <3> QED BY <1>1, <1>3, <1>7, <2>3, <3>1, <3>2 DEF IInv, WriterSound
  <2> QED BY <1>2, <2>1, <2>2, <2>3
<1>13. ReaderSound'
  BY <1>1, <1>3 DEF ReaderSound
<1> QED BY <1>1, <1>9, <1>10, <1>11, <1>12, <1>13 DEF IInv

-----------------------------------------------------------------------------
(* An interrupt writes, main reads. *)

LEMMA ReadBeginStep == ASSUME IInv, NEW n \in 1 .. MaxLen, ReadBegin(n) PROVE IInv'
<1>1. /\ ~mainWrites /\ pc = "idle" /\ pc' = "copy"
      /\ UNCHANGED <<mainWrites, buff, r, w, dmaAt, dmaLeft, len, isrs, written, taken, good>>
  BY DEF ReadBegin, ring, dma, history
<1>2. r \in Cells /\ w \in Cells /\ GetFull(r, w) \in 0 .. Size - 1
  BY <1>1, Full DEF IInv, ReaderSound
<1>3. PICK btr \in 1 .. Size : btr <= GetFull(r, w)
                            /\ part' = Lesser(Size - r, btr) /\ rest' = btr - part'
  <2>1. n \in Nat
    BY Sizes
  <2>0. Lesser(GetFull(r, w), n) > 0
    BY DEF ReadBegin
  <2>2. /\ Lesser(GetFull(r, w), n) \in 0 .. Size - 1 /\ Lesser(GetFull(r, w), n) <= GetFull(r, w)
        /\ Lesser(GetFull(r, w), n) > 0
    BY <1>2, <2>0, <2>1, Sizes DEF Lesser
  <2>3. Lesser(GetFull(r, w), n) \in 1 .. Size
    BY <2>2, Sizes
  <2> QED BY <2>2, <2>3 DEF ReadBegin
<1>4. /\ part' \in 1 .. Size /\ rest' \in 0 .. Size /\ r + part' <= Size
      /\ rest' > 0 => r + part' = Size
      /\ part' + rest' = btr
  BY <1>2, <1>3, TwoParts
<1>5. IsrTypeOK'
  <2>1. IsrTypeOK
    BY DEF IInv
  <2>2. part' \in 0 .. Size
    BY <1>4, Sizes
  <2>3. r \in 0 .. Size
    BY <1>2, Sizes DEF Cells
  <2> QED BY <1>1, <1>2, <1>4, <2>1, <2>2, <2>3 DEF IsrTypeOK
<1>6. Stream'
  <2>1. TakePos' = TakePos /\ PutPos' = PutPos
    BY <1>1 DEF TakePos, PutPos
  <2> QED BY <1>1, <2>1 DEF IInv, Stream
<1>7. TransferSound' /\ WriterSound'
  BY <1>1 DEF IInv, TransferSound, WriterSound
<1>8. ReaderSound'
  BY <1>1, <1>2, <1>3, <1>4 DEF ReaderSound
<1> QED BY <1>1, <1>5, <1>6, <1>7, <1>8 DEF IInv

\* What main copies out, if it is there, is what comes next.
LEMMA TakeAtIs ==
  ASSUME IsrTypeOK, good, NEW i \in Cells, NEW n \in 0 .. Size, i + n <= Size, TakeAt(i, n),
         NEW e \in Cells, Holds(buff, i, e, taken, written), n <= GetFull(i, e)
  PROVE  /\ good' /\ taken' \in 0 .. IdMod - 1
         /\ Holds(buff, Norm(i + n), e, taken', written)
<1>1. taken \in Int /\ n \in Nat /\ i \in Nat
  BY Types, Sizes DEF Cells
<1>2. /\ Holds(buff, Advanced(i, n), e, Num(taken + n), written)
      /\ \A k \in 0 .. n - 1 : buff[Advanced(i, k)] = Num(taken + k)
  BY <1>1, TakeHolds
<1>3. ASSUME NEW k \in 0 .. n - 1 PROVE buff[i + k] = Num(taken + k)
  <2>1. Advanced(i, k) = i + k
    BY <1>1, Sizes DEF Advanced
  <2> QED BY <1>2, <2>1
<1>4. good' /\ taken' = Num(taken + n)
  <2>1. good' = (good /\ \A k \in 0 .. n - 1 : buff[i + k] = Num(taken + k))
        /\ taken' = Num(taken + n)
    BY DEF TakeAt, Num
  <2> QED BY <1>3, <2>1
<1>5. taken' \in 0 .. IdMod - 1
  <2>1. taken + n \in Int
    BY <1>1
  <2> QED BY <1>4, <2>1, NumType
<1>6. Norm(i + n) = Advanced(i, n)
  BY <1>1, Sizes DEF Norm, Advanced
<1> QED BY <1>2, <1>4, <1>5, <1>6

LEMMA ReadCopyStep == ASSUME IInv, ReadCopy PROVE IInv'
<1>1. /\ ~mainWrites /\ pc = "copy" /\ pc' = "move" /\ TakeAt(r, part)
      /\ UNCHANGED <<mainWrites, buff, r, w, part, rest, dmaAt, dmaLeft, len, isrs, written>>
  BY DEF ReadCopy, ring, dma
<1>2. /\ r \in Cells /\ w \in Cells /\ part \in 0 .. Size /\ rest \in 0 .. Size /\ r + part <= Size
      /\ part + rest <= GetFull(r, w) /\ IsrTypeOK /\ good
  BY <1>1, Types DEF IInv, ReaderSound
<1>3. TakePos = r /\ PutPos = w /\ PutPos' = w /\ TakePos' = Norm(r + part)
  BY <1>1, <1>2, Sizes DEF TakePos, PutPos, Norm, Cells
<1>4. part <= GetFull(r, w)
  BY <1>2, Sizes DEF GetFull, Cells
<1>5. /\ good' /\ taken' \in 0 .. IdMod - 1
      /\ Holds(buff, Norm(r + part), w, taken', written)
  <2>1. Holds(buff, r, w, taken, written)
    BY <1>3 DEF IInv, Stream
  <2> QED BY <1>1, <1>2, <1>4, <2>1, TakeAtIs
<1>6. IsrTypeOK'
  <2>1. good' \in BOOLEAN /\ r \in 0 .. Size
    BY <1>2, <1>5, Types
  <2> QED BY <1>1, <1>2, <1>5, <2>1 DEF IsrTypeOK
<1>7. Stream'
  BY <1>1, <1>3, <1>5 DEF Stream
<1>8. TransferSound' /\ WriterSound' /\ ReaderSound'
  BY <1>1, <1>2 DEF IInv, TransferSound, WriterSound, ReaderSound
<1> QED BY <1>5, <1>6, <1>7, <1>8 DEF IInv

LEMMA ReadMoveStep == ASSUME IInv, ReadMove PROVE IInv'
<1>1. /\ ~mainWrites /\ pc = "move" /\ r' = r + part
      /\ pc' = (IF rest > 0 THEN "copy2" ELSE "wrap")
      /\ UNCHANGED <<mainWrites, buff, w, part, rest, dmaAt, dmaLeft, len, isrs, written, taken, good>>
  BY DEF ReadMove, dma, history
<1>2. /\ r \in Cells /\ w \in Cells /\ part \in 1 .. Size /\ rest \in 0 .. Size /\ r + part <= Size
      /\ rest > 0 => r + part = Size
      /\ part + rest <= GetFull(r, w) /\ IsrTypeOK
  BY <1>1, Types, Sizes DEF IInv, ReaderSound
<1>3. r' \in 0 .. Size /\ (rest > 0 => r' = Size /\ rest <= w)
  BY <1>1, <1>2, Sizes DEF GetFull, Cells
<1>4. Stream'
  <2>1. TakePos' = TakePos
    BY <1>1, <1>2, Sizes DEF TakePos, Norm
  <2>2. PutPos' = PutPos
    BY <1>1 DEF PutPos
  <2> QED BY <1>1, <2>1, <2>2 DEF IInv, Stream
<1>5. IsrTypeOK'
  BY <1>1, <1>2, <1>3 DEF IsrTypeOK
<1>6. TransferSound' /\ WriterSound'
  BY <1>1 DEF IInv, TransferSound, WriterSound
<1>7. ReaderSound'
  BY <1>1, <1>2, <1>3 DEF ReaderSound
<1> QED BY <1>1, <1>4, <1>5, <1>6, <1>7 DEF IInv

LEMMA ReadCopy2Step == ASSUME IInv, ReadCopy2 PROVE IInv'
<1>1. /\ ~mainWrites /\ pc = "copy2" /\ pc' = "move2" /\ TakeAt(0, rest)
      /\ UNCHANGED <<mainWrites, buff, r, w, part, rest, dmaAt, dmaLeft, len, isrs, written>>
  BY DEF ReadCopy2, ring, dma
<1>2. /\ r = Size /\ w \in Cells /\ rest \in 0 .. Size /\ rest > 0 /\ rest <= w
      /\ IsrTypeOK /\ good /\ 0 \in Cells
  BY <1>1, Types, Sizes DEF IInv, ReaderSound, Cells
<1>3. TakePos = 0 /\ PutPos = w /\ PutPos' = w /\ TakePos' = Norm(0 + rest) /\ 0 + rest <= Size
  BY <1>1, <1>2, Sizes DEF TakePos, PutPos, Norm, Cells
<1>4. rest <= GetFull(0, w)
  BY <1>2, Sizes DEF GetFull, Cells
<1>5. /\ good' /\ taken' \in 0 .. IdMod - 1
      /\ Holds(buff, Norm(0 + rest), w, taken', written)
  <2>1. Holds(buff, 0, w, taken, written)
    BY <1>3 DEF IInv, Stream
  <2> QED BY <1>1, <1>2, <1>3, <1>4, <2>1, TakeAtIs
<1>6. IsrTypeOK'
  <2>1. good' \in BOOLEAN /\ r \in 0 .. Size
    BY <1>2, <1>5, Types
  <2> QED BY <1>1, <1>2, <1>5, <2>1 DEF IsrTypeOK
<1>7. Stream'
  BY <1>1, <1>3, <1>5 DEF Stream
<1>8. TransferSound' /\ WriterSound' /\ ReaderSound'
  BY <1>1, <1>2 DEF IInv, TransferSound, WriterSound, ReaderSound
<1> QED BY <1>5, <1>6, <1>7, <1>8 DEF IInv

LEMMA ReadEndStep == ASSUME IInv, ReadMove2 \/ ReadWrap PROVE IInv'
<1>1. /\ ~mainWrites
      /\ UNCHANGED <<mainWrites, buff, w, part, rest, dmaAt, dmaLeft, len, isrs, written, taken, good>>
      /\ \/ pc = "move2" /\ pc' = "wrap" /\ r' = rest
         \/ pc = "wrap" /\ pc' = "idle" /\ r' = IF r >= Size THEN 0 ELSE r
  BY DEF ReadMove2, ReadWrap, dma, history
<1>2. w \in Cells /\ rest \in 0 .. Size /\ r \in 0 .. Size /\ IsrTypeOK
  BY <1>1, Types DEF IInv, ReaderSound
<1>3. r' \in 0 .. Size /\ (pc' = "idle" => r' \in Cells)
  BY <1>1, <1>2, Sizes DEF Cells
<1>4. Stream'
  <2>1. TakePos' = TakePos
    BY <1>1, <1>2, Sizes DEF TakePos, Norm
  <2>2. PutPos' = PutPos
    BY <1>1 DEF PutPos
  <2> QED BY <1>1, <2>1, <2>2 DEF IInv, Stream
<1>5. IsrTypeOK'
  BY <1>1, <1>2, <1>3 DEF IsrTypeOK
<1>6. TransferSound' /\ WriterSound'
  BY <1>1 DEF IInv, TransferSound, WriterSound
<1>7. ReaderSound'
  BY <1>1, <1>2, <1>3 DEF ReaderSound
<1> QED BY <1>1, <1>4, <1>5, <1>6, <1>7 DEF IInv

\* The cell k behind i, by division.
LEMMA CellBehind ==
  ASSUME NEW i \in Cells, NEW k \in 0 .. Size - 1
  PROVE  (i + k) % Size = Advanced(i, k) /\ (Advanced(i, k) - i) % Size = k
<1>1. i \in 0 .. Size - 1 /\ i \in Int /\ k \in Int /\ -1 \in Int
  BY Sizes DEF Cells
<1>2. CASE i + k < Size
  <2>1. PICK m \in 0 .. Size - 1 : m = i + k
    BY <1>1, <1>2, Sizes
  <2>2. Advanced(i, k) = m
    BY <1>2, <2>1, Sizes DEF Advanced
  <2>3. (Size * 0 + m) % Size = m /\ Size * 0 + m = i + k
    BY <1>1, <2>1, Remainder, Sizes
  <2>4. (Size * 0 + k) % Size = k /\ Size * 0 + k = m - i
    BY <1>1, <2>1, Remainder, Sizes
  <2> QED BY <2>2, <2>3, <2>4
<1>3. CASE i + k >= Size
  <2>1. PICK m \in 0 .. Size - 1 : m = i + k - Size
    BY <1>1, <1>3, Sizes
  <2>2. Advanced(i, k) = m
    BY <1>3, <2>1, Sizes DEF Advanced
  <2>3. (Size * 1 + m) % Size = m /\ Size * 1 + m = i + k
    BY <1>1, <2>1, Remainder, Sizes
  <2>4. (Size * (-1) + k) % Size = k /\ Size * (-1) + k = m - i
    BY <1>1, <2>1, Remainder, Sizes
  <2> QED BY <2>2, <2>3, <2>4
<1> QED BY <1>1, <1>2, <1>3, Sizes

LEMMA IsrWriteStep == ASSUME IInv, NEW n \in 1 .. MaxLen, IsrWrite(n) PROVE IInv'
<1> DEFINE b == Lesser(GetFree(r, w), n)
<1>1. /\ ~mainWrites /\ b > 0
      /\ buff' = [c \in Cells |-> IF \E k \in 0 .. b - 1 : c = (w + k) % Size
                                   THEN Num(written + ((c - w) % Size)) ELSE buff[c]]
      /\ written' = Num(written + b) /\ w' = Moved(w, b)
      /\ UNCHANGED <<mainWrites, r, pc, part, rest, dmaAt, dmaLeft, len, isrs, taken, good>>
  BY DEF IsrWrite, main, dma, Num
<1>2. /\ w \in Cells /\ r \in 0 .. Size /\ part \in 0 .. Size /\ rest \in 0 .. Size /\ IsrTypeOK
      /\ n \in Nat /\ written \in Int /\ taken \in Int
      /\ buff \in [Cells -> 0 .. IdMod - 1]
      /\ pc \in {"idle", "copy", "move", "copy2", "move2", "wrap", "send"} /\ pc # "send"
  BY <1>1, Types, Sizes DEF IInv, ReaderSound, IsrTypeOK
<1>3. b \in Int /\ b <= GetFree(r, w)
  BY <1>1, <1>2, Sizes DEF Lesser, GetFree, Cells
<1> HIDE DEF b
<1>4. /\ TakePos \in Cells /\ PutPos = w
      /\ GetFull(TakePos, w) + b <= Size - 1
  <2>1. PutPos = w
    BY <1>1, <1>2, Sizes DEF PutPos, Norm, Cells
  <2>2. CASE pc \in {"idle", "copy"}
    <3>1. TakePos = r /\ r \in Cells
      BY <1>1, <1>2, <2>2, Sizes DEF TakePos, Norm, Cells, IInv, ReaderSound
    <3> QED BY <1>2, <1>3, <2>1, <3>1, Sizes DEF GetFree, GetFull, Cells
  <2>3. CASE pc = "move"
    <3>1. /\ TakePos = Norm(r + part) /\ r \in Cells /\ r + part <= Size
          /\ part + rest <= GetFull(r, w) /\ part >= 1
      BY <1>1, <2>3 DEF TakePos, IInv, ReaderSound
    <3> QED BY <1>2, <1>3, <2>1, <3>1, Sizes DEF GetFree, GetFull, Cells, Norm
  <2>4. CASE pc = "copy2"
    <3>1. TakePos = 0 /\ r = Size
      BY <1>1, <2>4, Sizes DEF TakePos, Norm, IInv, ReaderSound
    <3> QED BY <1>2, <1>3, <2>1, <3>1, Sizes DEF GetFree, GetFull, Cells
  <2>5. CASE pc = "move2"
    <3>1. TakePos = Norm(rest) /\ r = Size /\ rest <= w
      BY <1>1, <2>5, Sizes DEF TakePos, IInv, ReaderSound
    <3> QED BY <1>2, <1>3, <2>1, <3>1, Sizes DEF GetFree, GetFull, Cells, Norm
  <2>6. CASE pc = "wrap"
    <3>1. TakePos = Norm(r)
      BY <1>1, <2>6 DEF TakePos
    <3> QED BY <1>2, <1>3, <2>1, <3>1, Sizes DEF GetFree, GetFull, Cells, Norm
  <2> QED BY <1>2, <2>2, <2>3, <2>4, <2>5, <2>6
<1>5. b \in 1 .. Size - 1 /\ b \in Nat
  <2>1. GetFull(TakePos, w) \in 0 .. Size - 1
    BY <1>2, <1>4, Full
  <2> QED BY <1>1, <1>3, <1>4, <2>1, Sizes
<1>6. \A k \in 0 .. b - 1 : /\ (w + k) % Size = Advanced(w, k) /\ (Advanced(w, k) - w) % Size = k
                           /\ Advanced(w, k) \in Cells
  <2> SUFFICES ASSUME NEW k \in 0 .. b - 1
               PROVE  /\ (w + k) % Size = Advanced(w, k) /\ (Advanced(w, k) - w) % Size = k
                      /\ Advanced(w, k) \in Cells
    OBVIOUS
  <2>1. k \in 0 .. Size - 1 /\ k \in Nat /\ k < Size
    BY <1>5, Sizes
  <2> QED BY <1>2, <2>1, CellBehind, Full
<1>7. \A k \in 0 .. b - 1 : buff'[Advanced(w, k)] = Num(written + k)
  BY <1>1, <1>6
<1>8. \A c \in Cells : (\A k \in 0 .. b - 1 : c # Advanced(w, k)) => buff'[c] = buff[c]
  BY <1>1, <1>6
<1>9. buff' \in [Cells -> 0 .. IdMod - 1]
  <2>1. ASSUME NEW c \in Cells PROVE buff'[c] \in 0 .. IdMod - 1
    <3>1. CASE \E k \in 0 .. b - 1 : c = Advanced(w, k)
      <4>1. PICK k \in 0 .. b - 1 : c = Advanced(w, k)
        BY <3>1
      <4>2. written + k \in Int
        BY <1>2, <1>5
      <4> QED BY <1>7, <4>1, <4>2, NumType
    <3>2. CASE \A k \in 0 .. b - 1 : c # Advanced(w, k)
      BY <1>2, <1>8, <3>2
    <3> QED BY <3>1, <3>2
  <2>2. buff' = [c \in Cells |-> buff'[c]]
    BY <1>1
  <2> QED BY <2>1, <2>2
<1>10. w' = Advanced(w, b)
  BY <1>1, <1>2, <1>5, Sizes DEF Moved, Advanced, Lesser, Cells
<1>11. w' \in Cells /\ Holds(buff', TakePos, w', taken, written')
  <2>1. Holds(buff, TakePos, w, taken, written)
    BY <1>4 DEF IInv, Stream
  <2>2. Advanced(w, b) \in Cells /\ Holds(buff', TakePos, Advanced(w, b), taken, Num(written + b))
    BY <1>2, <1>4, <1>5, <1>7, <1>8, <2>1, PutHolds
  <2> QED BY <1>1, <1>10, <2>2
<1>12. Stream'
  <2>1. TakePos' = TakePos
    BY <1>1 DEF TakePos
  <2>2. PutPos' = w'
    BY <1>1, <1>11, Sizes DEF PutPos, Norm, Cells
  <2> QED BY <1>1, <1>11, <2>1, <2>2 DEF Stream
<1>13. IsrTypeOK'
  <2>1. written' \in 0 .. IdMod - 1
    <3>1. written + b \in Int
      BY <1>2, <1>5
    <3> QED BY <1>1, <3>1, NumType
  <2> QED BY <1>1, <1>2, <1>9, <1>11, <2>1 DEF IsrTypeOK
<1>14. TransferSound' /\ WriterSound'
  BY <1>1 DEF IInv, TransferSound, WriterSound
<1>15. ReaderSound'
  <2>1. CASE pc \in {"copy", "move"}
    <3>1. /\ r \in Cells /\ part >= 1 /\ r + part <= Size
          /\ rest > 0 => r + part = Size
          /\ part + rest <= GetFull(r, w)
      BY <1>1, <2>1 DEF IInv, ReaderSound
    <3>2. GetFull(r, w) \in 0 .. Size - 1 /\ GetFree(r, w) = Size - 1 - GetFull(r, w)
      BY <1>2, <3>1, Full
    <3>3. GetFull(r, w) + b <= Size - 1
      BY <1>3, <3>2, Sizes
    <3>4. GetFull(r, w') = GetFull(r, w) + b
      BY <1>2, <1>5, <1>10, <3>1, <3>3, WriterMoves
    <3>5. part + rest <= GetFull(r, w')
      BY <1>2, <1>5, <3>1, <3>2, <3>4
    <3> QED BY <1>1, <1>11, <2>1, <3>1, <3>5 DEF ReaderSound
  <2>2. CASE pc \in {"copy2", "move2"}
    <3>1. r = Size /\ rest > 0 /\ rest <= w
      BY <1>1, <2>2 DEF IInv, ReaderSound
    <3>2. rest <= w'
      BY <1>2, <1>3, <1>5, <1>10, <3>1, Sizes DEF GetFree, Advanced, Cells
    <3> QED BY <1>1, <1>11, <2>2, <3>1, <3>2 DEF ReaderSound
  <2>3. CASE pc \in {"idle", "wrap"}
    BY <1>1, <1>2, <1>11, <2>3 DEF IInv, ReaderSound
  <2> QED BY <1>2, <2>1, <2>2, <2>3
<1> QED BY <1>1, <1>12, <1>13, <1>14, <1>15 DEF IInv

-----------------------------------------------------------------------------
(* The theorems. *)

LEMMA InitInv == IsrInit => IInv
<1> SUFFICES ASSUME IsrInit PROVE IInv
  OBVIOUS
<1>1. /\ mainWrites \in BOOLEAN
      /\ buff = [i \in Cells |-> 0] /\ r = 0 /\ w = 0
      /\ pc = "idle" /\ part = 0 /\ rest = 0
      /\ dmaAt = 0 /\ dmaLeft = 0 /\ len = 0 /\ isrs = 0
      /\ written = 0 /\ taken = 0 /\ good = TRUE
  BY DEF IsrInit
<1>2. 0 \in Cells /\ 0 \in 0 .. Size /\ 0 \in 0 .. IdMod - 1 /\ 0 \in 0 .. PerCall
  BY Sizes DEF Cells
<1>3. IsrTypeOK
  <2>1. buff \in [Cells -> 0 .. IdMod - 1]
    BY <1>1, <1>2
  <2> QED BY <1>1, <1>2, <2>1 DEF IsrTypeOK
<1>4. Stream
  <2>1. TakePos = 0 /\ PutPos = 0
    BY <1>1, Sizes DEF TakePos, PutPos, Norm
  <2>2. GetFull(0, 0) = 0
    BY DEF GetFull
  <2>3. Num(0 + 0) = 0
    BY <1>2, NumSmall
  <2> QED BY <1>1, <2>1, <2>2, <2>3 DEF Stream, Holds
<1>5. TransferSound
  <2>1. 0 <= GetFull(0, 0) /\ 0 + 0 <= Size
    BY Sizes DEF GetFull
  <2> QED BY <1>1, <1>2, <2>1 DEF TransferSound
<1>6. WriterSound /\ ReaderSound
  BY <1>1, <1>2 DEF WriterSound, ReaderSound
<1> QED BY <1>1, <1>3, <1>4, <1>5, <1>6 DEF IInv

LEMMA NextInv == PerCall <= 1 /\ IInv /\ [IsrNext]_isrVars => IInv'
<1> SUFFICES ASSUME PerCall <= 1, IInv, [IsrNext]_isrVars PROVE IInv'
  OBVIOUS
<1>1. CASE UNCHANGED isrVars
  <2>1. /\ UNCHANGED <<mainWrites, buff, r, w, pc, part, rest, dmaAt, dmaLeft, len, isrs>>
        /\ UNCHANGED <<written, taken, good>>
    BY <1>1 DEF isrVars, ring, main, dma, history
  <2>2. IsrTypeOK'
    BY <2>1 DEF IInv, IsrTypeOK
  <2>3. Stream'
    BY <2>1 DEF IInv, Stream, TakePos, PutPos
  <2>4. TransferSound' /\ WriterSound' /\ ReaderSound'
    BY <2>1 DEF IInv, TransferSound, WriterSound, ReaderSound
  <2> QED BY <2>1, <2>2, <2>3, <2>4 DEF IInv
<1>2. CASE MainStep
  BY <1>2, WriteCopyStep, WriteMoveStep, WriteCopy2Step, WriteMove2Step, WriteWrapStep, MainSendStep,
     ReadCopyStep, ReadMoveStep, ReadCopy2Step, ReadEndStep DEF MainStep
<1>3. CASE DmaByte \/ DmaInterrupt
  BY <1>3, DmaByteStep, DmaInterruptStep
<1>4. CASE \E n \in 1 .. MaxLen : WriteBegin(n) \/ ReadBegin(n) \/ IsrWrite(n)
  BY <1>4, WriteBeginStep, ReadBeginStep, IsrWriteStep
<1> QED BY <1>1, <1>2, <1>3, <1>4 DEF IsrNext

LEMMA Safety == PerCall <= 1 /\ IsrSpec => []IInv
<1>1. CASE PerCall <= 1
  <2>1. IInv /\ [IsrNext]_isrVars => IInv'
    BY <1>1, NextInv
  <2> QED BY <2>1, InitInv, PTL DEF IsrSpec
<1>2. CASE ~(PerCall <= 1)
  BY <1>2
<1> QED BY <1>1, <1>2

\* Indices, locals and transfer stay inside the memory, also when the interrupt
\* falls between the parts of a call and sees an index resting on size.
THEOREM IsrTypeCorrect == PerCall <= 1 /\ IsrSpec => []IsrTypeOK
<1>1. IInv => IsrTypeOK
  BY DEF IInv
<1> QED BY <1>1, Safety, PTL

\* Every byte comes out once and in its turn (docs/index.rst:25), in both
\* directions, if no second DMA interrupt falls into one ringbuff_write.
THEOREM EveryByteInOrder == PerCall <= 1 /\ IsrSpec => []InOrder
<1>1. IInv => InOrder
  BY DEF IInv, InOrder
<1> QED BY <1>1, Safety, PTL

\* The block the DMA sends and the cells that are being written are disjoint, in
\* both copies of ringbuff_write (ringbuff.c:111, :117, example_dma_skip.c:33-41).
THEOREM DmaStaysBehind == PerCall <= 1 /\ IsrSpec => []DmaBehindWriter
<1>1. IInv => DmaBehindWriter
  <2> SUFFICES ASSUME IInv, mainWrites, NEW c \in dmaAt .. dmaAt + dmaLeft - 1,
                      c \in BeingWritten
               PROVE  FALSE
    BY DEF DmaBehindWriter
  <2>1. /\ r \in Cells /\ r + len <= Size /\ dmaLeft <= len
        /\ len > 0 => dmaAt = r + len - dmaLeft
        /\ len <= GetFull(r, w)
    BY DEF IInv, TransferSound
  <2>2. /\ len \in 0 .. Size /\ dmaLeft \in 0 .. Size /\ dmaAt \in 0 .. Size
        /\ part \in 0 .. Size /\ rest \in 0 .. Size
    BY Types DEF IInv
  <2>3. len > 0 /\ c \in Int /\ c >= r /\ c < r + len
    BY <2>1, <2>2, Sizes DEF Cells
  \* The first copy: the cells from w on are free, the transfer's are not.
  <2>4. CASE pc = "copy"
    <3>1. /\ w \in Cells /\ w + part <= Size
          /\ GetFull(r, w) + part + rest <= Size - 1
      BY <2>4 DEF IInv, WriterSound
    <3>2. w <= c /\ c < w + part
      BY <2>2, <2>4, <3>1, Sizes DEF BeingWritten, Cells
    <3> QED BY <2>1, <2>2, <2>3, <3>1, <3>2, Sizes DEF GetFull, Cells
  \* The second copy ends before r, and the transfer begins at r.
  <2>5. CASE pc = "copy2"
    <3>1. rest > 0 /\ rest < r
      BY <2>5 DEF IInv, WriterSound
    <3>2. c < rest
      BY <2>2, <2>5, <3>1 DEF BeingWritten
    <3> QED BY <2>1, <2>2, <2>3, <3>1, <3>2 DEF Cells
  <2>6. CASE pc # "copy" /\ pc # "copy2"
    BY <2>6 DEF BeingWritten
  <2> QED BY <2>4, <2>5, <2>6
<1> QED BY <1>1, Safety, PTL

\* Main and the interrupt never each leave the start of a transfer to the other
\* (example_dma_skip.c:29-60).
THEOREM TransferIsStarted == PerCall <= 1 /\ IsrSpec => []NothingStuck
<1>1. IInv => NothingStuck
  BY DEF IInv, TransferSound, NothingStuck
<1> QED BY <1>1, Safety, PTL

=============================================================================
