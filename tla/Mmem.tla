--------------------------------- MODULE Mmem ---------------------------------
(***************************************************************************)
(* contiki/core/lib/mmem.c: memory without gaps.  The blocks lie in the    *)
(* order in which they were asked for, and freeing one moves those behind  *)
(* it down, whose struct mmem is told where they are now.  A client goes   *)
(* through its struct mmem (MMEM_PTR); memory is counted in bytes, and     *)
(* mmem_init has been called, which does nothing a second time.            *)
(***************************************************************************)
EXTENDS Integers, Sequences, Functions

CONSTANTS
  NumCells,   \* MMEM_SIZE
  Handle,     \* the struct mmem of the clients
  Nobody,     \* content of memory no client owns
  Sizes       \* bound: the sizes asked for

MmemAssumption == NumCells \in Nat /\ Sizes \subseteq Nat

VARIABLES
  mem,     \* mmemlist, avail_memory and memory
  ptr,     \* ptr and size of each struct mmem; what is left in one that is
  size,    \*   freed, and in memory that is free, is never read, and dropped
  denied   \* history: who was last refused, and how many bytes it asked for

vars == <<mem, ptr, size, denied>>

Init ==
  /\ mem = [list |-> <<>>, avail |-> NumCells, data |-> [c \in 1 .. NumCells |-> Nobody]]
  /\ ptr = [h \in Handle |-> 1] /\ size = [h \in Handle |-> 0] /\ denied = <<>>

\* The first byte behind the blocks, memory[] being counted from 1.
Top == NumCells - mem.avail + 1

Listed == Range(mem.list)

\* mmem_alloc, by a client that has no memory yet and fills what it gets.
Alloc(h, n) ==
  /\ h \notin Listed
  /\ IF mem.avail < n
     THEN denied' = <<h, n>> /\ UNCHANGED <<mem, ptr, size>>
     ELSE /\ mem' = [list |-> Append(mem.list, h), avail |-> mem.avail - n,
                     data |-> [c \in 1 .. NumCells |->
                                 IF c \in Top .. Top + n - 1 THEN <<h, c - Top + 1>>
                                 ELSE mem.data[c]]]
          /\ ptr' = [ptr EXCEPT ![h] = Top] /\ size' = [size EXCEPT ![h] = n]
          /\ denied' = <<>>

\* memmove of what is from f on, up to the top, to t; what is left above is free.
Moved(f, t) ==
  [c \in 1 .. NumCells |-> IF c < t THEN mem.data[c]
                           ELSE IF c < t + Top - f THEN mem.data[f + (c - t)]
                           ELSE Nobody]

\* mmem_free, of the i-th block.
Free(h) ==
  \E i \in DOMAIN mem.list :
    LET behind == SubSeq(mem.list, i + 1, Len(mem.list))
    IN  /\ h = mem.list[i]
        /\ mem' = [list |-> SubSeq(mem.list, 1, i - 1) \o behind, avail |-> mem.avail + size[h],
                   data |-> Moved(IF behind = <<>> THEN Top ELSE ptr[Head(behind)], ptr[h])]
        /\ ptr' = [g \in Handle |-> IF g = h THEN 1
                                   ELSE IF g \in Range(behind) THEN ptr[g] - size[h] ELSE ptr[g]]
        /\ size' = [size EXCEPT ![h] = 0]
        /\ denied' = <<>>

Next == \E h \in Handle : Free(h) \/ \E n \in Sizes : Alloc(h, n)

Spec == Init /\ [][Next]_vars
-----------------------------------------------------------------------------
TypeOK ==
  /\ mem.list \in Seq(Handle) /\ mem.avail \in 0 .. NumCells
  /\ mem.data \in [1 .. NumCells -> {Nobody} \union (Handle \X Nat)]
  /\ ptr \in [Handle -> 1 .. NumCells + 1] /\ size \in [Handle -> Nat]
  /\ denied \in {<<>>} \union (Handle \X Nat)

\* The blocks follow one another from the first byte on, in the order of the
\* list, and avail_memory is what is behind them (mmem.c:96-102, 123-136).
Integrity ==
  LET end(i) == IF i = 0 THEN 1 ELSE ptr[mem.list[i]] + size[mem.list[i]]
  IN  /\ IsInjective(mem.list)
      /\ \A i \in DOMAIN mem.list : ptr[mem.list[i]] = end(i - 1)
      /\ Top = end(Len(mem.list))

\* The clients see a heap, whose blocks move when others are freed
\* (mmem.c:82-140).
Has(h) == h \in Listed /\ size[h] > 0
Clients == INSTANCE Heap WITH
  Cell <- 1 .. NumCells, CellBytes <- 1, HeaderBytes <- 0, Spare <- 0,
  Joins <- TRUE, Moves <- TRUE, Sizes <- Sizes \ {0},
  at <- [h \in Handle |-> IF Has(h) THEN ptr[h] ELSE 0],
  content <- [h \in Handle |->
                IF Has(h) THEN SubSeq([c \in 1 .. NumCells |-> mem.data[c]], ptr[h], ptr[h] + size[h] - 1)
                ELSE <<>>]
ImplementsHeap == Clients!Spec
=============================================================================
