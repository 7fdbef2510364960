----------------------------- MODULE RingBuffIsr ------------------------------
(***************************************************************************)
(* The ring buffer between a main program and an interrupt, as in          *)
(* docs/examples_src/example_dma_skip.c: a DMA takes linear blocks out of  *)
(* the buffer and its interrupt skips them and starts the next one, while  *)
(* the main program writes; or an interrupt writes while the main program  *)
(* reads.  Functions the main program calls are cut into the steps between *)
(* which the interrupt sees the indices.                                   *)
(*                                                                         *)
(* A byte is its number in the stream, modulo IdMod.                       *)
(***************************************************************************)
EXTENDS RingBuffSizes

CONSTANTS
  PerCall,     \* bound: DMA interrupts in one call of ringbuff_write
  IdMod        \* bound: numbers of bytes that are told apart

ASSUME IsrAssumption ==
  PerCall \in Nat /\ IdMod \in Nat /\ IdMod > 2 * Size

VARIABLES
  mainWrites,   \* main writes and a DMA reads, or an interrupt writes and main reads
  pc,           \* the main program's step
  part, rest,   \* its locals: tocopy, and what btw or btr is after it
  dmaAt,        \* the address the DMA reads next
  dmaLeft,      \* bytes it still has to read
  len,          \* the example's len: size of the transfer, 0 when none runs
  isrs,         \* DMA interrupts since ringbuff_write was entered
  written,      \* history: bytes put into the memory
  taken,        \* history: bytes taken out of it
  good          \* history: each of them was the next one of the stream

ring    == <<mainWrites, buff, r, w>>
main    == <<pc, part, rest>>
dma     == <<dmaAt, dmaLeft, len>>
history == <<written, taken, good>>
isrVars == <<ring, main, dma, isrs, history>>

IsrInit ==
  /\ mainWrites \in BOOLEAN
  /\ buff = [i \in Cells |-> 0] /\ r = 0 /\ w = 0
  /\ pc = "idle" /\ part = 0 /\ rest = 0
  /\ dmaAt = 0 /\ dmaLeft = 0 /\ len = 0 /\ isrs = 0
  /\ written = 0 /\ taken = 0 /\ good = TRUE

\* n bytes of the stream go to the cells from i on.
PutAt(i, n) ==
  /\ buff' = [c \in Cells |-> IF c \in i .. i + n - 1 THEN (written + (c - i)) % IdMod
                              ELSE buff[c]]
  /\ written' = (written + n) % IdMod

\* n bytes are taken from the cells from i on.
TakeAt(i, n) ==
  /\ good' = (good /\ \A k \in 0 .. n - 1 : buff[i + k] = ((taken + k) % IdMod))
  /\ taken' = (taken + n) % IdMod

-----------------------------------------------------------------------------
(* ringbuff_write, called by main, and then send_data. *)

WriteBegin(n) ==
  LET btw == Lesser(GetFree(r, w), n)
  IN  /\ mainWrites /\ pc = "idle" /\ btw > 0
      /\ part' = Lesser(Size - w, btw)
      /\ rest' = btw - part'
      /\ isrs' = 0
      /\ pc' = "copy"
      /\ UNCHANGED <<ring, dma, history>>

WriteCopy ==
  /\ mainWrites /\ pc = "copy"
  /\ PutAt(w, part)
  /\ pc' = "move"
  /\ UNCHANGED <<mainWrites, r, w, part, rest, dma, isrs, taken, good>>

\* buff->w += tocopy: it may rest on size until the function ends.
WriteMove ==
  /\ mainWrites /\ pc = "move"
  /\ w' = w + part
  /\ pc' = IF rest > 0 THEN "copy2" ELSE "wrap"
  /\ UNCHANGED <<mainWrites, buff, r, part, rest, dma, isrs, history>>

WriteCopy2 ==
  /\ mainWrites /\ pc = "copy2"
  /\ PutAt(0, rest)
  /\ pc' = "move2"
  /\ UNCHANGED <<mainWrites, r, w, part, rest, dma, isrs, taken, good>>

WriteMove2 ==
  /\ mainWrites /\ pc = "move2"
  /\ w' = rest
  /\ pc' = "wrap"
  /\ UNCHANGED <<mainWrites, buff, r, part, rest, dma, isrs, history>>

WriteWrap ==
  /\ mainWrites /\ pc = "wrap"
  /\ w' = IF w >= Size THEN 0 ELSE w
  /\ pc' = "send"
  /\ UNCHANGED <<mainWrites, buff, r, part, rest, dma, isrs, history>>

\* send_data: the linear block at rd goes to the DMA.
SendData(rd, wr) ==
  /\ len' = LinearRead(rd, wr)
  /\ dmaLeft' = len'
  /\ dmaAt' = rd

MainSend ==
  /\ mainWrites /\ pc = "send"
  /\ IF len > 0 THEN UNCHANGED dma ELSE SendData(r, w)
  /\ pc' = "idle"
  /\ UNCHANGED <<ring, part, rest, isrs, history>>

-----------------------------------------------------------------------------
(* The DMA, and its interrupt. *)

DmaByte ==
  /\ dmaLeft > 0 /\ dmaAt < Size
  /\ TakeAt(dmaAt, 1)
  /\ dmaLeft' = dmaLeft - 1
  /\ dmaAt' = dmaAt + 1
  /\ UNCHANGED <<ring, main, len, isrs, written>>

\* A faulty SkipSent: the block is measured again when the transfer ends.
SkipBlock == Advanced(r, LinearRead(r, w))

\* ringbuff_skip of what was sent.
SkipSent == Advanced(r, Lesser(len, GetFull(r, w)))

\* A faulty DmaInterrupt: no further transfer is started.
DmaInterruptOnce ==
  /\ len > 0 /\ dmaLeft = 0
  /\ pc \in {"idle", "send"} \/ isrs < PerCall
  /\ isrs' = IF pc \in {"idle", "send"} THEN isrs ELSE isrs + 1
  /\ r' = SkipSent
  /\ len' = 0
  /\ UNCHANGED <<mainWrites, buff, w, main, dmaAt, dmaLeft, history>>

\* DMA_Interrupt_handler: skip, then send what follows.
DmaInterrupt ==
  /\ len > 0 /\ dmaLeft = 0
  /\ pc \in {"idle", "send"} \/ isrs < PerCall
  /\ isrs' = IF pc \in {"idle", "send"} THEN isrs ELSE isrs + 1
  /\ r' = SkipSent
  /\ SendData(r', w)
  /\ UNCHANGED <<mainWrites, buff, w, main, history>>

-----------------------------------------------------------------------------
(* The other way round: an interrupt writes, main reads. *)

ReadBegin(n) ==
  LET btr == Lesser(GetFull(r, w), n)
  IN  /\ ~mainWrites /\ pc = "idle" /\ btr > 0
      /\ part' = Lesser(Size - r, btr)
      /\ rest' = btr - part'
      /\ pc' = "copy"
      /\ UNCHANGED <<ring, dma, isrs, history>>

ReadCopy ==
  /\ ~mainWrites /\ pc = "copy"
  /\ TakeAt(r, part)
  /\ pc' = "move"
  /\ UNCHANGED <<ring, part, rest, dma, isrs, written>>

\* A faulty ReadMove: the second part is given back before it is copied.
ReadMoveBoth ==
  /\ ~mainWrites /\ pc = "move"
  /\ r' = IF rest > 0 THEN rest ELSE r + part
  /\ pc' = IF rest > 0 THEN "copy2" ELSE "wrap"
  /\ UNCHANGED <<mainWrites, buff, w, part, rest, dma, isrs, history>>

ReadMove ==
  /\ ~mainWrites /\ pc = "move"
  /\ r' = r + part
  /\ pc' = IF rest > 0 THEN "copy2" ELSE "wrap"
  /\ UNCHANGED <<mainWrites, buff, w, part, rest, dma, isrs, history>>

ReadCopy2 ==
  /\ ~mainWrites /\ pc = "copy2"
  /\ TakeAt(0, rest)
  /\ pc' = "move2"
  /\ UNCHANGED <<ring, part, rest, dma, isrs, written>>

ReadMove2 ==
  /\ ~mainWrites /\ pc = "move2"
  /\ r' = rest
  /\ pc' = "wrap"
  /\ UNCHANGED <<mainWrites, buff, w, part, rest, dma, isrs, history>>

ReadWrap ==
  /\ ~mainWrites /\ pc = "wrap"
  /\ r' = IF r >= Size THEN 0 ELSE r
  /\ pc' = "idle"
  /\ UNCHANGED <<mainWrites, buff, w, part, rest, dma, isrs, history>>

\* The interrupt calls ringbuff_write, which sees both indices as they are.
IsrWrite(n) ==
  LET btw == Lesser(GetFree(r, w), n)
  IN  /\ ~mainWrites /\ btw > 0
      /\ buff' = [c \in Cells |->
           IF \E k \in 0 .. btw - 1 : c = (w + k) % Size
           THEN (written + ((c - w) % Size)) % IdMod ELSE buff[c]]
      /\ written' = (written + btw) % IdMod
      /\ w' = Moved(w, btw)
      /\ UNCHANGED <<mainWrites, r, main, dma, isrs, taken, good>>

-----------------------------------------------------------------------------
MainStep ==
  \/ WriteCopy \/ WriteMove \/ WriteCopy2 \/ WriteMove2 \/ WriteWrap \/ MainSend
  \/ ReadCopy \/ ReadMove \/ ReadCopy2 \/ ReadMove2 \/ ReadWrap

IsrNext ==
  \/ MainStep \/ DmaByte \/ DmaInterrupt
  \/ \E n \in 1 .. MaxLen : WriteBegin(n) \/ ReadBegin(n) \/ IsrWrite(n)

IsrSpec == IsrInit /\ [][IsrNext]_isrVars

-----------------------------------------------------------------------------
IsrTypeOK ==
  /\ mainWrites \in BOOLEAN
  /\ buff \in [Cells -> 0 .. IdMod - 1]
  /\ r \in (IF mainWrites \/ pc = "idle" THEN Cells ELSE 0 .. Size)
  /\ w \in (IF mainWrites /\ pc # "idle" THEN 0 .. Size ELSE Cells)
  /\ pc \in {"idle", "copy", "move", "copy2", "move2", "wrap", "send"}
  /\ {part, rest, dmaLeft, len} \subseteq 0 .. Size /\ dmaAt \in 0 .. Size
  /\ isrs \in 0 .. PerCall
  /\ {written, taken} \subseteq 0 .. IdMod - 1 /\ good \in BOOLEAN

\* "Interrupt safe when used as pipe with single write and single read entries"
\* (docs/index.rst:25): every byte comes out once and in its turn, wherever in
\* a function of the other side the interrupt falls.
InOrder == good

\* The cells the copy that main is about to make writes: those from w on, and in
\* the second copy of ringbuff_write those from the start of the memory on.
BeingWritten ==
  CASE pc = "copy"  -> w .. w + part - 1
    [] pc = "copy2" -> 0 .. rest - 1
    [] OTHER -> {}

\* The DMA never reads a cell that is being written, neither in the first nor in
\* the second copy of ringbuff_write (ringbuff.c:111, :117), however the
\* interrupt moved r since the call began (example_dma_skip.c:33-41).
DmaBehindWriter ==
  mainWrites => \A c \in dmaAt .. dmaAt + dmaLeft - 1 : c \notin BeingWritten

\* What is written is sent: when main is in none of its calls and the buffer
\* is not empty a transfer runs; never did main and the interrupt each leave
\* its start to the other (example_dma_skip.c:29-60).
NothingStuck == mainWrites /\ pc = "idle" /\ r # w => len > 0
=============================================================================
