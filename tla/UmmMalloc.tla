------------------------------ MODULE UmmMalloc ------------------------------
(***************************************************************************)
(* umm_malloc/umm_malloc.c: a heap of numbered umm_blocks of eight bytes.  *)
(* Each block begins with the numbers of the next and the previous one;    *)
(* free blocks are also linked in a list, through the bytes that are data  *)
(* while the block is used, and bear a mark on their next number.  Built   *)
(* as the repository builds it: best fit, no critical sections, so that a  *)
(* call is one action.                                                     *)
(***************************************************************************)
EXTENDS Integers

CONSTANTS
  NumBlocks,  \* umm_numblocks
  Handle,     \* the pointers of the clients
  Nobody,     \* content of memory no client owns
  Sizes,      \* bound: the sizes asked for, in bytes
  Nums        \* bound: the numbers of items calloc is asked for

\* umm_blocks: sizeof(umm_block) is 8, four of them the header; uint16_t.
Blocks(size) == (IF size <= 4 THEN 1 ELSE 2 + (size - 5) \div 8) % 65536

\* The heap is not kept by a request whose number of blocks is cut to 0.
BlocksAssumption ==
  /\ NumBlocks \in Nat /\ 3 <= NumBlocks /\ NumBlocks < 32768 /\ Sizes \subseteq Nat /\ Nums \subseteq Nat
  /\ \A size \in Sizes : Blocks(size) > 0 /\ \A num \in Nums : Blocks(num * size) > 0

VARIABLES
  up,    \* umm_heap # NULL
  mem,   \* the blocks: header.used.next and prev, body.free.next and prev
         \* and, as the client who wrote it sees it, the data
  at,    \* the block each client's pointer points into, 0 for NULL
  denied \* history: who was last given NULL, and how many blocks it asked for

vars == <<up, mem, at, denied>>

Block == 0 .. NumBlocks - 1
Last  == NumBlocks - 1          \* UMM_BLOCK_LAST
Mask  == 32768                  \* UMM_FREELIST_MASK
Junk  == Mask - 1               \* a header field overwritten with data

IsFree(m, b) == m.next[b] >= Mask
NoMask(x)    == x % Mask        \* x & UMM_BLOCKNO_MASK
SizeOf(m, b) == NoMask(m.next[b]) - b

-----------------------------------------------------------------------------
(* The functions of umm_malloc.c, from memory to memory. *)

\* umm_init, after which block 1 is one large free block.
Fresh ==
  LET zero == [b \in Block |-> 0]
  IN  [next  |-> [zero EXCEPT ![0] = 1, ![1] = Last + Mask],
       prev  |-> [zero EXCEPT ![Last] = 1],
       nfree |-> [zero EXCEPT ![0] = 1],
       pfree |-> [zero EXCEPT ![0] = 1],
       data  |-> [b \in Block |-> Nobody]]

\* UMM_NFREE(p) = n and UMM_PFREE(n) = p.
Link(m, p, n) ==
  [m EXCEPT !.nfree[p] = n, !.pfree[n] = p, !.data[p] = Nobody, !.data[n] = Nobody]

\* umm_split_block: c keeps n blocks.
SplitBlock(m, c, n, mask) ==
  LET after == NoMask(m.next[c])
  IN  [m EXCEPT !.next[c + n] = after + mask, !.prev[c + n] = c,
                !.prev[after] = c + n, !.next[c] = c + n, !.data[c + n] = Nobody]

\* A faulty Disconnect: the block stays marked as free.
DisconnectMarked(m, c) == Link(m, m.pfree[c], m.nfree[c])

\* umm_disconnect_from_free_list.
Disconnect(m, c) ==
  [Link(m, m.pfree[c], m.nfree[c]) EXCEPT !.next[c] = NoMask(@)]

\* umm_assimilate_up.
AssimilateUp(m, c) ==
  LET n == m.next[c]
      d == Disconnect(m, n)
      after == NoMask(d.next[n])
  IN  IF IsFree(m, n) THEN [d EXCEPT !.prev[after] = c, !.next[c] = after] ELSE m

\* umm_assimilate_down.
AssimilateDown(m, c, mask) ==
  [m EXCEPT !.next[m.prev[c]] = m.next[c] + mask, !.prev[m.next[c]] = m.prev[c]]

\* umm_free_core.
FreeCore(m, c) ==
  LET u == AssimilateUp(m, c)
      l == Link(Link(u, c, u.nfree[0]), 0, c)
  IN  IF IsFree(u, u.prev[c])
      THEN AssimilateDown(u, c, Mask)
      ELSE [l EXCEPT !.next[c] = @ + Mask]

\* The blocks on the free list, each with its place in it.
FreeList(m) ==
  LET walk[i \in 1 .. NumBlocks] ==
        IF i = 1 THEN m.nfree[0]
        ELSE LET b == walk[i - 1] IN IF b = 0 THEN 0 ELSE m.nfree[b]
  IN  {e \in {<<walk[i], i>> : i \in 1 .. NumBlocks} : e[1] # 0}

\* The size of the block that the walk along the free list looked at last.
LastSize(m) ==
  IF FreeList(m) = {} THEN 0
  ELSE LET last == CHOOSE e \in FreeList(m) : \A f \in FreeList(m) : f[2] <= e[2]
       IN  SizeOf(m, last[1])

\* umm_malloc_core's choice: of the smallest blocks that fit, the first one.  Where
\* none does, the walk ends on block 0, and what is then compared is the header of
\* that one and the size of another.
BestFits(m, n) ==
  LET fits == {e \in FreeList(m) : SizeOf(m, e[1]) >= n}
  IN  IF fits = {}
      THEN {b \in {0} : NoMask(m.next[b]) # 0 /\ LastSize(m) >= n}
      ELSE {e[1] : e \in {e \in fits : \A f \in fits :
                            \/ SizeOf(m, e[1]) < SizeOf(m, f[1])
                            \/ SizeOf(m, e[1]) = SizeOf(m, f[1]) /\ e[2] <= f[2]}}

\* umm_malloc_core with the free block c it chose.
Take(m, c, n) ==
  LET s == SplitBlock(m, c, n, Mask)
  IN  IF SizeOf(m, c) = n
      THEN Disconnect(m, c)
      ELSE Link(Link(s, s.pfree[c], c + n), c + n, s.nfree[c])

\* memmove and memcpy of the data of n blocks.
Copy(m, from, to, n) ==
  [m EXCEPT !.data = [b \in Block |-> IF b \in to .. to + n - 1
                                      THEN m.data[from + (b - to)] ELSE m.data[b]]]

-----------------------------------------------------------------------------
(* The clients.  Who has a block writes all of it, over whatever the       *)
(* allocator left there; memory that nobody owns keeps nobody's data, and  *)
(* no field outlives the block it belonged to.                             *)

\* The blocks one passes when one goes from 0 to the last one.
Walked(m) ==
  LET walk[i \in 1 .. NumBlocks] ==
        IF i = 1 THEN 0 ELSE NoMask(m.next[walk[i - 1]])
  IN  {walk[i] : i \in 1 .. NumBlocks}

Extent(m, a, h) == IF a[h] = 0 THEN {} ELSE a[h] .. NoMask(m.next[a[h]]) - 1

\* h gets block c, of which the first kept blocks hold what it wrote before.
Owned(m, h, c, kept) ==
  LET a     == [at EXCEPT ![h] = c]
      all   == UNION {Extent(m, a, g) : g \in Handle}
      heads == Walked(m)
      free  == {b \in heads : IsFree(m, b)} \union {0}
  IN  /\ at' = a /\ denied' = <<>>
      /\ mem' = [next  |-> [b \in Block |-> IF b \in heads THEN m.next[b] ELSE Junk],
                 prev  |-> [b \in Block |-> IF b \in heads THEN m.prev[b] ELSE Junk],
                 nfree |-> [b \in Block |-> IF b \in free THEN m.nfree[b] ELSE Junk],
                 pfree |-> [b \in Block |-> IF b \in free THEN m.pfree[b] ELSE Junk],
                 data  |-> [b \in Block |->
                              IF b \in Extent(m, a, h) /\ b - c >= kept THEN <<h, b - c + 1>>
                              ELSE IF b \in all THEN m.data[b] ELSE Nobody]]

\* Every function sets the heap up when it is called first.
Now == IF up THEN mem ELSE Fresh

Init ==
  /\ up = FALSE
  /\ mem = [Fresh EXCEPT !.next = [b \in Block |-> 0], !.prev = [b \in Block |-> 0],
                         !.nfree = [b \in Block |-> 0], !.pfree = [b \in Block |-> 0]]
  /\ at = [h \in Handle |-> 0] /\ denied = <<>>

-----------------------------------------------------------------------------
\* umm_malloc of no bytes and umm_free of NULL: nothing but the set up.
Nothing == up' = TRUE /\ mem' = Now /\ denied' = <<>> /\ UNCHANGED at

\* umm_malloc, also for a realloc of NULL.
Malloc(h, size) ==
  /\ at[h] = 0 /\ size # 0 /\ up' = TRUE
  /\ IF BestFits(Now, Blocks(size)) = {}
     THEN mem' = Now /\ denied' = <<h, Blocks(size)>> /\ UNCHANGED at
     ELSE \E c \in BestFits(Now, Blocks(size)) :
            Owned(Take(Now, c, Blocks(size)), h, c, 0)

\* umm_calloc, whose client writes over the zeros.
Calloc(h, num, size) == Malloc(h, num * size)

\* umm_free, also for a realloc to no bytes.
Free(h) ==
  /\ at[h] # 0
  /\ Owned(FreeCore(mem, at[h]), h, 0, 0)
  /\ UNCHANGED up

\* The sizes umm_realloc looks at: the block's own, and that of its two
\* neighbours as far as they are free.
Own(h) == mem.next[at[h]] - at[h]
NextSize(h) ==
  LET n == mem.next[at[h]] IN IF IsFree(mem, n) THEN SizeOf(mem, n) ELSE 0
PrevSize(h) ==
  LET p == mem.prev[at[h]] IN IF IsFree(mem, p) THEN at[h] - p ELSE 0

\* What is beyond the n blocks asked for is split off and given back.
Trim(m, c, size, n) ==
  IF size > n THEN FreeCore(SplitBlock(m, c, n, 0), c + n) ELSE m

\* The block moved down into the free block before it, m being the memory
\* with the block behind it joined or not; size is what there is of it then.
Down(m, h, size, n) ==
  LET c == m.prev[at[h]]
      d == AssimilateDown(Disconnect(m, c), at[h], 0)
  IN  Owned(Trim(Copy(d, at[h], c, Own(h)), c, size, n), h, c, Own(h))

\* Case 1: the block is large enough.
ReallocInPlace(h, n) ==
  /\ Own(h) >= n
  /\ Owned(Trim(mem, at[h], Own(h), n), h, at[h], n)

\* Cases 2 and 3: the next block makes up for what is missing, exactly, or
\* with something to spare when the previous one is not free.
GrowsUp(h, n) ==
  \/ Own(h) + NextSize(h) = n
  \/ PrevSize(h) = 0 /\ Own(h) + NextSize(h) >= n

ReallocUp(h, n) ==
  /\ Own(h) < n /\ GrowsUp(h, n)
  /\ Owned(Trim(AssimilateUp(mem, at[h]), at[h], Own(h) + NextSize(h), n),
           h, at[h], Own(h))

\* Case 4: the previous block does.
ReallocDown(h, n) ==
  /\ Own(h) < n /\ ~GrowsUp(h, n) /\ PrevSize(h) + Own(h) >= n
  /\ Down(mem, h, PrevSize(h) + Own(h), n)

\* Case 5: both together do.
ReallocBoth(h, n) ==
  /\ Own(h) < n /\ ~GrowsUp(h, n) /\ PrevSize(h) + Own(h) < n
  /\ PrevSize(h) + Own(h) + NextSize(h) >= n
  /\ Down(AssimilateUp(mem, at[h]), h, PrevSize(h) + Own(h) + NextSize(h), n)

\* Case 6: a new block, and the old one is freed; or NULL.
ReallocMove(h, n) ==
  /\ ~GrowsUp(h, n) /\ PrevSize(h) + Own(h) + NextSize(h) < n
  /\ IF BestFits(mem, n) = {}
     THEN denied' = <<h, n>> /\ UNCHANGED <<mem, at>>
     ELSE \E c \in BestFits(mem, n) :
            Owned(FreeCore(Copy(Take(mem, c, n), at[h], c, Own(h)), at[h]), h, c, Own(h))

Realloc(h, size) ==
  /\ at[h] # 0 /\ size # 0
  /\ LET n == Blocks(size)
     IN  \/ ReallocInPlace(h, n) \/ ReallocUp(h, n) \/ ReallocDown(h, n)
         \/ ReallocBoth(h, n) \/ ReallocMove(h, n)
  /\ UNCHANGED up

Next ==
  \/ Nothing
  \/ \E h \in Handle :
       \/ Free(h)
       \/ \E size \in Sizes :
            \/ Malloc(h, size) \/ Realloc(h, size)
            \/ \E num \in Nums : Calloc(h, num, size)

Spec == Init /\ [][Next]_vars

-----------------------------------------------------------------------------
TypeOK ==
  /\ up \in BOOLEAN /\ denied \in {<<>>} \union (Handle \X Nat)
  /\ at \in [Handle -> Block \ {Last}]
  /\ \A h \in Handle : at[h] # 0 => mem.next[at[h]] \in at[h] + 1 .. Last
  /\ mem.next \in [Block -> Block \union {Junk} \union {b + Mask : b \in Block}]
  /\ {mem.prev, mem.nfree, mem.pfree} \subseteq [Block -> Block \union {Junk}]

\* What umm_integrity_check asserts (umm_integrity.c:26-130): the free list is
\* linked both ways and holds the marked blocks and no other; the blocks follow
\* one another up to the last one and are linked both ways.
Integrity ==
  up => LET free == {e[1] : e \in FreeList(mem)}
        IN  /\ \A b \in free \union {0} : mem.nfree[b] \in Block /\ mem.pfree[mem.nfree[b]] = b
            /\ \A b \in Walked(mem) : IsFree(mem, b) <=> b \in free
            /\ free \subseteq Walked(mem) /\ Last \in Walked(mem)
            /\ \A b \in Walked(mem) \ {Last} : LET n == NoMask(mem.next[b])
                                          IN  n \in Block /\ n > b /\ mem.prev[n] = b

\* No two free blocks lie side by side, whatever the order in which blocks were
\* freed, split and joined (umm_malloc.c:173-224, 301-325).
Coalesced ==
  up => \A b \in Walked(mem) : IsFree(mem, b) => ~IsFree(mem, NoMask(mem.next[b]))

\* The clients see a heap: blocks large enough that do not overlap, contents
\* that survive whatever the others do and are moved along by realloc, and NULL
\* only when there is no room, and then nothing is changed (umm_malloc.c:358-690).
Clients == INSTANCE Heap WITH
  Cell <- 1 .. Last - 1, CellBytes <- 8, HeaderBytes <- 4, Spare <- 0, Joins <- TRUE,
  Moves <- FALSE,
  Sizes <- (Sizes \union {n * s : n \in Nums, s \in Sizes}) \ {0},
  content <- [h \in Handle |-> IF at[h] = 0 THEN <<>>
                               ELSE [i \in 1 .. Own(h) |-> mem.data[at[h] + i - 1]]]
ImplementsHeap == Clients!Spec
=============================================================================
