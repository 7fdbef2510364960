--------------------------------- MODULE Tlsf ---------------------------------
(***************************************************************************)
(* tlsf/tlsf.c: free blocks are on lists by the class of their size, two   *)
(* levels of bitmaps say which lists are not empty, and an allocation      *)
(* takes the head of the first list whose blocks are all large enough.     *)
(* Memory is counted in units of ALIGN_SIZE bytes; a block is named by the *)
(* unit of its size field.  prev_phys_block lies in the last unit of the   *)
(* block before, and is there only while that block is free.               *)
(***************************************************************************)
EXTENDS Integers, FiniteSets, Sequences, Functions

CONSTANTS
  SlLog2,     \* SL_INDEX_COUNT_LOG2
  FlCount,    \* FL_INDEX_COUNT
  Split,      \* units of the first pool
  NumCells,   \* units of both pools, of which the second lies behind the first
  Handle,     \* the pointers of the clients
  Nobody,     \* content of memory no client owns
  Sizes,      \* bound: the sizes asked for, in bytes
  Aligns      \* bound: the alignments asked for, in units

VARIABLES
  mem,     \* the bitmaps and lists of the control structure, the headers'
           \* fields, the clients' data, and the pools there are
  at,      \* the block each client's pointer points into, None for NULL
  want,    \* history: the alignment of each client's last allocation
  denied   \* history: who was last given NULL, and how many units it asked for

vars == <<mem, at, want, denied>>

Cell == 0 .. NumCells - 1
Pool == {0, Split}                    \* each by the unit of its first header
Sentinel(p) == IF p = 0 THEN Split - 1 ELSE NumCells - 1
None == -1
HeaderUnits  == 4                     \* sizeof(block_header_t)
block_size_min == 3

\* 1 << k.
Bit[k \in Nat] == IF k = 0 THEN 1 ELSE 2 * Bit[k - 1]

block_size_max == Bit[FlCount - 1 + SlLog2]

AlignUp(n, a) == ((n + a - 1) \div a) * a

\* adjust_request_size, in units.
Adjusted(size, a) ==
  LET n == AlignUp((size + 3) \div 4, a)
  IN  IF size = 0 \/ n >= block_size_max THEN 0
      ELSE IF n < block_size_min THEN block_size_min ELSE n

\* Pools as tlsf_add_pool takes them, but smaller than the largest, whose free
\* block it would put on a list behind the last row of the table; alignments as
\* align_up asserts them; and nobody asks for what is too large altogether.
TlsfAssumption ==
  /\ SlLog2 \in Nat /\ FlCount \in Nat \ {0} /\ Sizes \subseteq Nat
  /\ NumCells \in Nat /\ Split \in 5 .. NumCells - 5
  /\ Split - 2 < block_size_max /\ NumCells - Split - 2 < block_size_max
  /\ Aligns \subseteq Nat \ {0} /\ \A a \in Aligns : \E k \in 1 .. a : a = Bit[k]
  /\ \A size \in Sizes \ {0} : Adjusted(size, 1) > 0

-----------------------------------------------------------------------------
(* The classes of sizes.                                                   *)

Log2(n) == CHOOSE k \in 0 .. n : Bit[k] <= n /\ n < Bit[k + 1]

\* mapping_insert.
Class(n) ==
  IF n < Bit[SlLog2] THEN <<0, n>>
  ELSE <<Log2(n) - SlLog2 + 1, n \div Bit[Log2(n) - SlLog2] - Bit[SlLog2]>>

\* A faulty SearchClass: the size is not rounded up.
SearchClassOfSize(n) == Class(n)

\* mapping_search: the first class of which every block has n units.
SearchClass(n) ==
  Class(IF n < Bit[SlLog2] THEN n ELSE n + Bit[Log2(n) - SlLog2] - 1)

ClassIndex == (0 .. FlCount - 1) \X (0 .. Bit[SlLog2] - 1)

\* search_suitable_block: the class it finds for n units, if there is one.
Suitable(m, n) ==
  LET c     == SearchClass(n)
      same  == {d \in m.sl : d[1] = c[1] /\ d[2] >= c[2]}
      above == {f \in m.fl : f > c[1]}
      row   == IF same # {} THEN same ELSE {d \in m.sl : d[1] \in above /\ \A f \in above : d[1] <= f}
  IN  IF n = 0 \/ c[1] >= FlCount \/ (same = {} /\ above = {}) THEN {}
      ELSE {d \in row : \A e \in row : d[2] <= e[2]}

\* remove_free_block.
RemoveFrom(m, b, c) ==
  LET list == m.lists[c]
      k    == CHOOSE i \in DOMAIN list : list[i] = b
      rest == SubSeq(list, 1, k - 1) \o SubSeq(list, k + 1, Len(list))
      sl   == IF rest = <<>> THEN m.sl \ {c} ELSE m.sl
  IN  [m EXCEPT !.lists[c] = rest, !.sl = sl,
                !.fl = IF \E d \in sl : d[1] = c[1] THEN @ ELSE @ \ {c[1]}]

\* block_remove.
Unlist(m, b) == RemoveFrom(m, b, Class(m.size[b]))

\* block_insert: at the head, the links lying in the block's first two units.
Enlist(m, b) ==
  LET c == Class(m.size[b])
  IN  [m EXCEPT !.lists[c] = <<b>> \o @, !.sl = @ \union {c}, !.fl = @ \union {c[1]},
                !.data = [@ EXCEPT ![b + 1] = Nobody, ![b + 2] = Nobody]]

-----------------------------------------------------------------------------
(* Blocks next to one another.                                             *)

NextOf(m, b) == b + 1 + m.size[b]

\* block_link_next.
Link(m, b) ==
  [m EXCEPT !.prev[NextOf(m, b)] = b, !.data[NextOf(m, b) - 1] = Nobody]

MarkAsFree(m, b) ==
  [Link(m, b) EXCEPT !.free = @ \union {b}, !.prevFree = @ \union {NextOf(m, b)}]

MarkAsUsed(m, b) ==
  [m EXCEPT !.free = @ \ {b}, !.prevFree = @ \ {NextOf(m, b)}]

CanSplit(m, b, n) == m.size[b] >= HeaderUnits + n

\* block_split; the second block is b + 1 + n, and free.
SplitOff(m, b, n) ==
  MarkAsFree([m EXCEPT !.size = [@ EXCEPT ![b] = n, ![b + 1 + n] = m.size[b] - n - 1]],
             b + 1 + n)

\* block_absorb, behind which b is no block.
Absorb(m, p, b) ==
  Link([m EXCEPT !.size = [@ EXCEPT ![p] = m.size[p] + m.size[b] + 1, ![b] = None],
                 !.prev[b] = None, !.free = @ \ {b}, !.prevFree = @ \ {b}], p)

\* block_merge_next.
MergeNext(m, b) ==
  LET n == NextOf(m, b) IN IF n \in m.free THEN Absorb(Unlist(m, n), b, n) ELSE m

\* block_trim_free, and block_trim_free_leading, which is about the first part.
TrimFree(m, b, n, part) ==
  IF ~CanSplit(m, b, n) THEN m
  ELSE LET s == Link(SplitOff(m, b, part), b)
           r == b + 1 + part
       IN  Enlist([s EXCEPT !.prevFree = @ \union {r}], IF part = n THEN r ELSE b)

\* block_trim_used.
TrimUsed(m, b, n) ==
  IF ~CanSplit(m, b, n) THEN m
  ELSE LET r == b + 1 + n
       IN  Enlist(MergeNext([SplitOff(m, b, n) EXCEPT !.prevFree = @ \ {r}], r), r)

\* tlsf_free: block_merge_prev, then block_merge_next.
Freed(m, b) ==
  LET f == MarkAsFree(m, b)
      p == IF b \in f.prevFree THEN f.prev[b] ELSE b
      j == IF p = b THEN f ELSE Absorb(Unlist(f, p), p, b)
  IN  Enlist(MergeNext(j, p), p)

-----------------------------------------------------------------------------
(* The clients.  Who has a block writes all of it, prev_phys_block of the  *)
(* next one included.                                                      *)

\* The memory as it is when the clients have the blocks a and h has written its
\* own, of which it had written the first kept units before.
Settled(m, a, h, kept) ==
  LET body(g) == IF a[g] = None THEN {} ELSE a[g] + 1 .. a[g] + m.size[a[g]]
      all     == UNION {body(g) : g \in Handle}
      new     == {c \in body(h) : c > a[h] + kept}
  IN  /\ at' = a /\ denied' = <<>>
      /\ mem' = [m EXCEPT
           !.prev = [c \in Cell |-> IF c - 1 \in all THEN None ELSE @[c]],
           !.data = [c \in Cell |-> IF c \in new THEN <<h, c - a[h] + 1>>
                                   ELSE IF c \in all THEN @[c] ELSE Nobody]]

Wants(h, a) == want' = [want EXCEPT ![h] = a]

Denied(h, size) == denied' = <<h, (size + 3) \div 4 + 1>> /\ UNCHANGED <<mem, at, want>>

\* control_construct, in tlsf_create.
Constructed ==
  [fl |-> {}, sl |-> {}, lists |-> [c \in ClassIndex |-> <<>>], pools |-> {},
   size |-> [c \in Cell |-> None], prev |-> [c \in Cell |-> None],
   free |-> {}, prevFree |-> {}, data |-> [c \in Cell |-> Nobody]]

Init ==
  /\ mem = Constructed /\ at = [h \in Handle |-> None]
  /\ want = [h \in Handle |-> 1] /\ denied = <<>>

-----------------------------------------------------------------------------
\* tlsf_create, whoever still has memory.
Create ==
  /\ mem' = Constructed /\ at' = [h \in Handle |-> None]
  /\ want' = [h \in Handle |-> 1] /\ denied' = <<>>

\* tlsf_add_pool, by itself and in tlsf_create_with_pool.
AddPool(p) ==
  LET z == Sentinel(p)
      m == [mem EXCEPT !.pools = @ \union {p}, !.free = @ \union {p},
                       !.size = [@ EXCEPT ![p] = z - p - 1, ![z] = 0],
                       !.prevFree = @ \union {z}]
  IN  /\ p \notin mem.pools
      /\ mem' = Enlist(Link(m, p), p)
      /\ UNCHANGED <<at, want, denied>>

\* tlsf_remove_pool, of a pool that is free as a whole, as it asserts.
RemovePool(p) ==
  /\ p \in mem.pools /\ p \in mem.free /\ NextOf(mem, p) = Sentinel(p)
  /\ LET gone == {p, Sentinel(p)}
     IN  mem' = [Unlist(mem, p) EXCEPT
                   !.pools = @ \ {p}, !.free = @ \ gone, !.prevFree = @ \ gone,
                   !.size = [c \in Cell |-> IF c \in gone THEN None ELSE @[c]],
                   !.prev = [c \in Cell |-> IF c \in gone THEN None ELSE @[c]]]
  /\ UNCHANGED <<at, want, denied>>

\* block_prepare_used of block b for n units.
Prepared(m, b, n) == MarkAsUsed(TrimFree(m, b, n, n), b)

\* tlsf_malloc, also for a realloc of NULL; of nothing it gives NULL, that is all.
Malloc(h, size) ==
  LET n == Adjusted(size, 1)
  IN  /\ at[h] = None /\ size > 0
      /\ \/ \E c \in Suitable(mem, n) :
              LET b == Head(mem.lists[c])
              IN  /\ Settled(Prepared(RemoveFrom(mem, b, c), b, n),
                             [at EXCEPT ![h] = b], h, 0)
                  /\ Wants(h, 1)
         \/ Suitable(mem, n) = {} /\ Denied(h, size)

\* How far behind block b's own one the first address is that is a multiple of
\* a and leaves room for a block in front of it.
Gap(b, a) ==
  LET near == AlignUp(b + 1, a)
      gap  == near - (b + 1)
      step == IF HeaderUnits - gap > a THEN HeaderUnits - gap ELSE a
  IN  IF gap = 0 \/ gap >= HeaderUnits THEN gap ELSE AlignUp(near + step, a) - (b + 1)

\* tlsf_memalign, for more than ALIGN_SIZE.
Memalign(h, a, size) ==
  LET n == Adjusted(size, 1)
      g == IF n = 0 THEN 0 ELSE Adjusted(4 * (n + a + HeaderUnits), a)
  IN  /\ at[h] = None /\ size > 0
      /\ \/ \E c \in Suitable(mem, g) :
              LET b   == Head(mem.lists[c])
                  gap == Gap(b, a)
                  m   == RemoveFrom(mem, b, c)
                  led == IF gap > 0 THEN TrimFree(m, b, gap, gap - 1) ELSE m
                  b2  == IF gap > 0 /\ CanSplit(m, b, gap) THEN b + gap ELSE b
              IN  /\ Settled(Prepared(led, b2, n), [at EXCEPT ![h] = b2], h, 0)
                  /\ Wants(h, a)
         \/ Suitable(mem, g) = {} /\ Denied(h, size)

\* tlsf_free, and tlsf_realloc to nothing.
Free(h) ==
  /\ at[h] # None
  /\ Settled(Freed(mem, at[h]), [at EXCEPT ![h] = None], h, 0)
  /\ Wants(h, 1)

\* What tlsf_realloc has with the next block.
Combined(m, b) ==
  IF NextOf(m, b) \in m.free THEN m.size[b] + m.size[NextOf(m, b)] + 1 ELSE m.size[b]

\* tlsf_realloc where the block is, perhaps with the next one's help.
Resize(h, size) ==
  LET b == at[h]
      n == Adjusted(size, 1)
      m == IF n > mem.size[b] THEN MarkAsUsed(MergeNext(mem, b), b) ELSE mem
  IN  /\ b # None /\ size > 0 /\ n <= Combined(mem, b)
      /\ Settled(TrimUsed(m, b, n), at, h, mem.size[b])
      /\ UNCHANGED want

\* memcpy of the n units of block b to block c.
Copied(m, b, c, n) ==
  [m EXCEPT !.data = [i \in Cell |-> IF i \in c + 1 .. c + n THEN m.data[b + (i - c)] ELSE @[i]]]

\* tlsf_realloc into a new block.
Move(h, size) ==
  LET b   == at[h]
      n   == Adjusted(size, 1)
      old == mem.size[b]
  IN  /\ b # None /\ size > 0 /\ n > Combined(mem, b)
      /\ \/ \E c \in Suitable(mem, n) :
              LET d == Head(mem.lists[c])
                  m == Copied(Prepared(RemoveFrom(mem, d, c), d, n), b, d, old)
              IN  Settled(Freed(m, b), [at EXCEPT ![h] = d], h, old) /\ Wants(h, 1)
         \/ Suitable(mem, n) = {} /\ Denied(h, size)

Next ==
  \/ Create
  \/ \E p \in Pool : AddPool(p) \/ RemovePool(p)
  \/ \E h \in Handle :
       \/ Free(h)
       \/ \E size \in Sizes :
            \/ Malloc(h, size) \/ Resize(h, size) \/ Move(h, size)
            \/ \E a \in Aligns : Memalign(h, a, size)

Spec == Init /\ [][Next]_vars
-----------------------------------------------------------------------------
TypeOK ==
  /\ mem.fl \subseteq 0 .. FlCount - 1 /\ mem.sl \subseteq ClassIndex /\ mem.pools \subseteq Pool
  /\ mem.lists \in [ClassIndex -> Seq(Cell)]
  /\ mem.size \in [Cell -> Cell \union {None}] /\ mem.prev \in [Cell -> Cell \union {None}]
  /\ mem.free \subseteq Cell /\ mem.prevFree \subseteq Cell
  /\ mem.data \in [Cell -> {Nobody} \union (Handle \X Nat)]
  /\ at \in [Handle -> Cell \union {None}] /\ want \in [Handle -> {1} \union Aligns]
  /\ denied \in {<<>>} \union (Handle \X Nat)

\* tlsf_walk_pool, and the sentinel.
Blocks(m, p) ==
  LET walk[i \in 1 .. NumCells] ==
        IF i = 1 THEN p
        ELSE LET b == walk[i - 1] IN IF m.size[b] \in {0, None} THEN b ELSE NextOf(m, b)
  IN  {walk[i] : i \in 1 .. NumCells}

\* What tlsf_check and tlsf_check_pool look at: the bitmaps and the lists agree,
\* every free block, and nothing else, is on the list of its class, and every
\* block knows of the one before it whether, and if so where, it is free.  The
\* rest is the clients', aligned as they wished (tlsf.c:659-729, 916-971).
Integrity ==
  LET heads == UNION {Blocks(mem, p) : p \in mem.pools}
  IN  /\ heads = {c \in Cell : mem.size[c] # None}
      /\ \A c \in ClassIndex :
           /\ c \in mem.sl <=> mem.lists[c] # <<>>
           /\ IsInjective(mem.lists[c])
           /\ Range(mem.lists[c]) = {b \in mem.free : Class(mem.size[b]) = c}
      /\ mem.fl = {c[1] : c \in mem.sl}
      /\ \A p \in mem.pools : \A b \in Blocks(mem, p) :
           /\ b < Sentinel(p) => /\ mem.size[b] >= block_size_min
                                 /\ b \in mem.free <=> NextOf(mem, b) \in mem.prevFree
                                 /\ b \in mem.free => mem.prev[NextOf(mem, b)] = b
           /\ p \notin mem.prevFree
      /\ {at[h] : h \in Handle} \ {None} = heads \ (mem.free \union {Sentinel(p) : p \in Pool})
      /\ \A h \in Handle : at[h] # None => (at[h] + 1) % want[h] = 0

\* No two free blocks lie side by side (tlsf.c:711-714).
Coalesced == \A b \in mem.free : b \notin mem.prevFree

\* The clients see a heap, which gives up to three units more than it was asked
\* for, or more than a block must have, and which, looking only at classes, may
\* refuse what would fit (tlsf.c:355-386, 908-1048).
Clients == INSTANCE Heap WITH
  Cell <- (1 .. NumCells) \ {Split, NumCells}, CellBytes <- 4, HeaderBytes <- 4,
  Spare <- 5, Joins <- FALSE, Moves <- FALSE, Sizes <- Sizes \ {0},
  at <- [h \in Handle |-> at[h] + 1],
  content <- [h \in Handle |-> IF at[h] = None THEN <<>>
                               ELSE [i \in 1 .. mem.size[at[h]] + 1 |->
                                       IF i = 1 THEN <<h, 1>> ELSE mem.data[at[h] + i - 1]]]
ImplementsHeap == Clients!Spec
=============================================================================
