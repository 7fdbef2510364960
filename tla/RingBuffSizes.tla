--------------------------- MODULE RingBuffSizes ----------------------------
(***************************************************************************)
(* The handle of ringbuff.c, whose memory has Size bytes, and the          *)
(* arithmetic on two indices: rd, the next byte to read, and wr, the next  *)
(* byte to write.                                                          *)
(***************************************************************************)
EXTENDS Integers

CONSTANTS
  Size,    \* buff->size, the number of bytes of the memory given to init
  MaxLen   \* bound: the longest length a caller passes

VARIABLES
  buff,    \* the memory
  r, w     \* next byte to read, next byte to write

ASSUME SizeAssumption == Size \in Nat \ {0} /\ MaxLen \in Nat

Cells == 0 .. Size - 1
Lesser(x, y) == IF x < y THEN x ELSE y

\* A faulty GetFree: the cell that tells full from empty is given away.
GetFreeAll(rd, wr) ==
  IF wr = rd THEN Size ELSE IF rd > wr THEN rd - wr ELSE Size - (wr - rd)

\* ringbuff_get_free on a valid handle.
GetFree(rd, wr) ==
  (IF wr = rd THEN Size
   ELSE IF rd > wr THEN rd - wr ELSE Size - (wr - rd)) - 1

\* ringbuff_get_full on a valid handle.
GetFull(rd, wr) ==
  IF wr = rd THEN 0
  ELSE IF wr > rd THEN wr - rd ELSE Size - (rd - wr)

\* ringbuff_get_linear_block_read_length on a valid handle.
LinearRead(rd, wr) ==
  IF wr > rd THEN wr - rd ELSE IF rd > wr THEN Size - rd ELSE 0

\* A faulty LinearWrite: the free cell is not kept when the reader is at 0.
LinearWriteToEnd(rd, wr) == IF wr >= rd THEN Size - wr ELSE rd - wr - 1

\* ringbuff_get_linear_block_write_length on a valid handle.
LinearWrite(rd, wr) ==
  IF wr >= rd THEN Size - wr - (IF rd = 0 THEN 1 ELSE 0) ELSE rd - wr - 1

\* An index moved by n, by a copy in two parts and its end-of-buffer check.
Moved(i, n) ==
  LET tocopy == Lesser(Size - i, n)
      left   == n - tocopy
      ptr    == IF left > 0 THEN left ELSE i + tocopy
  IN  IF ptr >= Size THEN 0 ELSE ptr

\* A faulty Advanced: an index may rest on Size.
AdvancedPastEnd(i, n) == IF i + n > Size THEN i + n - Size ELSE i + n

\* An index moved by n, by an addition and one subtraction.
Advanced(i, n) == IF i + n >= Size THEN i + n - Size ELSE i + n
=============================================================================
