-------------------------------- MODULE Heaps --------------------------------
(***************************************************************************)
(* Five allocators of the repository, one of which is in use: each owes    *)
(* its clients what Heap says, and each keeps its own memory in order.     *)
(***************************************************************************)
CONSTANTS
  Handle, Nobody,
  NumBlocks, UmmSizes, Nums,       \* for umm_malloc
  PoolCells, PoolSizes,            \* for qmemmang
  LvCells, LvSizes, MaxLost,       \* for lv_mem
  SlLog2, FlCount, Split, TlsfCells, TlsfSizes, Aligns,      \* for tlsf
  MmemSize, MmemSizes              \* for mmem

VARIABLES
  which,                               \* the allocator in use
  ummUp, ummMem, ummAt, ummDenied,
  poolUp, poolMem, poolAt, poolDenied,
  lvMem, lvAt, lvDenied, lvTidy,
  tlsfMem, tlsfAt, tlsfWant, tlsfDenied,
  mmemMem, mmemPtr, mmemSize, mmemDenied

umm  == <<ummUp, ummMem, ummAt, ummDenied>>
pool == <<poolUp, poolMem, poolAt, poolDenied>>
lv   == <<lvMem, lvAt, lvDenied, lvTidy>>
tlsf == <<tlsfMem, tlsfAt, tlsfWant, tlsfDenied>>
mmem == <<mmemMem, mmemPtr, mmemSize, mmemDenied>>

Umm == INSTANCE UmmMalloc WITH
  Sizes <- UmmSizes,
  up <- ummUp, mem <- ummMem, at <- ummAt, denied <- ummDenied

Pool == INSTANCE QMemMang WITH
  NumCells <- PoolCells, Sizes <- PoolSizes,
  up <- poolUp, mem <- poolMem, at <- poolAt, denied <- poolDenied

Lv == INSTANCE LvMem WITH
  NumCells <- LvCells, Sizes <- LvSizes,
  mem <- lvMem, at <- lvAt, denied <- lvDenied, tidy <- lvTidy

TwoLevel == INSTANCE Tlsf WITH
  NumCells <- TlsfCells, Sizes <- TlsfSizes,
  mem <- tlsfMem, at <- tlsfAt, want <- tlsfWant, denied <- tlsfDenied

Managed == INSTANCE Mmem WITH
  NumCells <- MmemSize, Sizes <- MmemSizes,
  mem <- mmemMem, ptr <- mmemPtr, size <- mmemSize, denied <- mmemDenied

ASSUME HeapsAssumption ==
  /\ Umm!BlocksAssumption /\ Pool!PoolAssumption
  /\ Lv!LvMemAssumption /\ TwoLevel!TlsfAssumption /\ Managed!MmemAssumption

Init ==
  /\ which \in {"umm", "pool", "lv", "tlsf", "mmem"}
  /\ Umm!Init /\ Pool!Init /\ Lv!Init /\ TwoLevel!Init /\ Managed!Init

Next ==
  /\ UNCHANGED which
  /\ \/ which = "umm" /\ Umm!Next /\ UNCHANGED <<pool, lv, tlsf, mmem>>
     \/ which = "pool" /\ Pool!Next /\ UNCHANGED <<umm, lv, tlsf, mmem>>
     \/ which = "lv" /\ Lv!Next /\ UNCHANGED <<umm, pool, tlsf, mmem>>
     \/ which = "tlsf" /\ TwoLevel!Next /\ UNCHANGED <<umm, pool, lv, mmem>>
     \/ which = "mmem" /\ Managed!Next /\ UNCHANGED <<umm, pool, lv, tlsf>>

Spec == Init /\ [][Next]_<<which, umm, pool, lv, tlsf, mmem>>

-----------------------------------------------------------------------------
TypeOK == Umm!TypeOK /\ Pool!TypeOK /\ Lv!TypeOK /\ TwoLevel!TypeOK /\ Managed!TypeOK

\* The structures that an allocator keeps in the memory itself describe it, each
\* byte once, whatever was split, joined, moved and given back.
Integrity ==
  /\ Umm!Integrity /\ Pool!Integrity /\ Lv!Integrity
  /\ TwoLevel!Integrity /\ Managed!Integrity

\* What is free and lies together is one block: always in umm_malloc,
\* qmemmang and tlsf, behind lv_mem_defrag in lv_mem.
Coalesced == Umm!Coalesced /\ Pool!Coalesced /\ Lv!Coalesced /\ TwoLevel!Coalesced

\* The clients see a heap: blocks that do not overlap and are large enough,
\* contents that stay and go along with realloc, and a refusal that changes
\* nothing and, in umm_malloc, qmemmang and mmem, comes only for want of room.
ImplementsHeap ==
  /\ Umm!ImplementsHeap /\ Pool!ImplementsHeap /\ Lv!ImplementsHeap
  /\ TwoLevel!ImplementsHeap /\ Managed!ImplementsHeap
=============================================================================
