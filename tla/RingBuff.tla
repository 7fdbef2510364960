------------------------------ MODULE RingBuff ------------------------------
(***************************************************************************)
(* The byte ring buffer of ringbuff.c, one action per public function,     *)
(* each function executed to its end (RingBuffIsr interleaves the steps    *)
(* inside a function).  The handle is the record of the C structure: the   *)
(* memory buff, its size (the constant Size), the read index r and the     *)
(* write index w.  One cell always stays free, so w = r means "empty".     *)
(***************************************************************************)
EXTENDS RingBuffSizes, Sequences

CONSTANT
  Byte     \* the values a byte takes (the code never looks at them)

VARIABLES
  valid,   \* BUF_IS_VALID(buff): init was called and free was not
  call,    \* the last call, with its arguments
  ret,     \* the value it returned
  out      \* the bytes the last read, peek or transfer gave out

vars == <<valid, buff, r, w, call, ret, out>>

\* Calls pass between 1 and MaxLen bytes; 0 returns at once, as an invalid
\* handle does.
Payload == UNION {[1 .. n -> Byte] : n \in 1 .. MaxLen}
Lengths == 0 .. MaxLen

-----------------------------------------------------------------------------
(* The two copies of ringbuff_read and ringbuff_write. *)

\* n bytes copied out of the memory from index i, in two parts.
CopyOut(i, n) ==
  LET tocopy == Lesser(Size - i, n)
  IN  [k \in 1 .. n |-> IF k <= tocopy THEN buff[i + k - 1]
                                       ELSE buff[k - tocopy - 1]]

\* A faulty CopyIn: the second part starts over at the first byte of d.
CopyInTwice(d, n) ==
  LET tocopy == Lesser(Size - w, n)
  IN  [i \in Cells |-> IF i >= w /\ i < w + tocopy THEN d[i - w + 1]
                       ELSE IF i < n - tocopy THEN d[i + 1] ELSE buff[i]]

\* The memory with the first n bytes of d copied in at w, in two parts.
CopyIn(d, n) ==
  LET tocopy == Lesser(Size - w, n)
  IN  [i \in Cells |-> IF i >= w /\ i < w + tocopy THEN d[i - w + 1]
                       ELSE IF i < n - tocopy THEN d[tocopy + i + 1]
                       ELSE buff[i]]

-----------------------------------------------------------------------------
(* The operations. *)

Init ==
  /\ valid = FALSE
  /\ buff \in [Cells -> Byte]
  /\ r = 0 /\ w = 0
  /\ call = <<"none">> /\ ret = 0 /\ out = <<>>

\* ringbuff_init on a non-null handle and memory and a size that is not 0.
BuffInit ==
  /\ valid' = TRUE
  /\ r' = 0 /\ w' = 0
  /\ ret' = 1
  /\ call' = <<"init">>
  /\ UNCHANGED <<buff, out>>

\* ringbuff_free forgets the memory; the indices keep their values.
BuffFree ==
  /\ valid
  /\ valid' = FALSE
  /\ call' = <<"free">>
  /\ UNCHANGED <<buff, r, w, ret, out>>

\* ringbuff_reset.
BuffReset ==
  /\ valid
  /\ r' = 0 /\ w' = 0
  /\ call' = <<"reset">>
  /\ UNCHANGED <<valid, buff, ret, out>>

\* ringbuff_write.
BuffWrite(d) ==
  LET n == Lesser(GetFree(r, w), Len(d))
  IN  /\ valid
      /\ buff' = CopyIn(d, n)
      /\ w' = Moved(w, n)
      /\ ret' = n
      /\ call' = <<"write", d>>
      /\ UNCHANGED <<valid, r, out>>

\* ringbuff_read.
BuffRead(btr) ==
  LET n == Lesser(GetFull(r, w), btr)
  IN  /\ valid
      /\ out' = CopyOut(r, n)
      /\ r' = Moved(r, n)
      /\ ret' = n
      /\ call' = <<"read", btr>>
      /\ UNCHANGED <<valid, buff, w>>

\* ringbuff_peek: a read behind skip_count bytes that moves nothing.
BuffPeek(skip_count, btp) ==
  LET full == GetFull(r, w)
      n    == IF skip_count >= full THEN 0 ELSE Lesser(full - skip_count, btp)
  IN  /\ valid
      /\ out' = IF n = 0 THEN <<>> ELSE CopyOut(Advanced(r, skip_count), n)
      /\ ret' = n
      /\ call' = <<"peek", skip_count, btp>>
      /\ UNCHANGED <<valid, buff, r, w>>

\* ringbuff_skip: the index moves by at most full, the caller is told len.
BuffSkip(len) ==
  /\ valid
  /\ r' = Advanced(r, Lesser(len, GetFull(r, w)))
  /\ ret' = len
  /\ call' = <<"skip", len>>
  /\ UNCHANGED <<valid, buff, w, out>>

\* ringbuff_advance: the index moves by at most free, the caller is told len.
BuffAdvance(len) ==
  /\ valid
  /\ w' = Advanced(w, Lesser(len, GetFree(r, w)))
  /\ ret' = len
  /\ call' = <<"advance", len>>
  /\ UNCHANGED <<valid, buff, r, out>>

\* The hardware fills the block that get_linear_block_write_address and
\* get_linear_block_write_length describe; w moves with a later advance.
HardwareFill(b) ==
  LET n == LinearWrite(r, w)
  IN  /\ valid
      /\ buff' = [i \in Cells |-> IF i >= w /\ i < w + n THEN b ELSE buff[i]]
      /\ ret' = n
      /\ call' = <<"fill", b>>
      /\ UNCHANGED <<valid, r, w, out>>

\* The hardware sends the block that get_linear_block_read_address and
\* get_linear_block_read_length describe; r moves with a later skip.
HardwareSend ==
  LET n == LinearRead(r, w)
  IN  /\ valid
      /\ out' = [k \in 1 .. n |-> buff[r + k - 1]]
      /\ ret' = n
      /\ call' = <<"send">>
      /\ UNCHANGED <<valid, buff, r, w>>

Next ==
  \/ BuffInit \/ BuffFree \/ BuffReset
  \/ \E d \in Payload : BuffWrite(d)
  \/ \E n \in Lengths : BuffRead(n) \/ BuffSkip(n) \/ BuffAdvance(n)
  \/ \E s, n \in Lengths : BuffPeek(s, n)
  \/ \E b \in Byte : HardwareFill(b)
  \/ HardwareSend

Spec == Init /\ [][Next]_vars

-----------------------------------------------------------------------------
(* The unread bytes, oldest first: what the buffer stands for. *)
Contents ==
  IF valid THEN [k \in 1 .. GetFull(r, w) |-> buff[Advanced(r, k - 1)]]
           ELSE <<>>

\* The refinement mapping: the unread bytes are the queue.
Fifo == INSTANCE ByteFifo
        WITH Capacity <- Size - 1, queue <- Contents, count <- ret, taken <- out

\* The indices stay in the memory whatever the calls, and what the last call
\* copied out is a run of bytes no longer than the capacity.
TypeOK ==
  /\ valid \in BOOLEAN
  /\ buff \in [Cells -> Byte]
  /\ r \in Cells /\ w \in Cells
  /\ ret \in Nat
  /\ out \in Seq(Byte) /\ Len(out) < Size

\* The two sizes a caller can ask for always add up to the capacity, and the
\* two linear blocks handed to DMA hardware are disjoint and inside the memory:
\* hardware writing one can never overwrite an unread byte of the other.
BlocksDisjoint ==
  valid =>
    /\ GetFree(r, w) + GetFull(r, w) = Size - 1
    /\ r + LinearRead(r, w) <= Size /\ w + LinearWrite(r, w) <= Size
    /\ LinearRead(r, w) <= GetFull(r, w)
    /\ LinearWrite(r, w) <= GetFree(r, w)
    /\ \A i \in r .. r + LinearRead(r, w) - 1 :
         i \notin w .. w + LinearWrite(r, w) - 1

\* Every call does to the unread bytes what the same call does to a bounded
\* first-in first-out queue (ringbuff.c:93-422).
ImplementsFifo == Fifo!Spec

\* A skip and an advance return the number of bytes skipped or advanced
\* (ringbuff.c:331, :406).  They return what they were asked for (:346, :421),
\* which is more whenever the buffer holds less; the module states it, and
\* RingBuffMoved.cfg shows the call.
MovedIsTold ==
  [][/\ \A n \in Lengths : BuffSkip(n) => ret' = Len(Contents) - Len(Contents')
     /\ \A n \in Lengths : BuffAdvance(n) => ret' = Len(Contents') - Len(Contents)]_vars
=============================================================================
