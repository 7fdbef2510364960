------------------------------- MODULE QMemMang -------------------------------
(***************************************************************************)
(* qmemmang/qmemmang.c: a pool of memory whose free blocks are on a list   *)
(* in the order of their addresses, the first that fits being taken.  The  *)
(* memory is counted in units of Q_BYTE_ALIGNMENT bytes from the first     *)
(* aligned address; the structure at the beginning of a block takes one.   *)
(* The functions are not safe in interrupts: a call is one action.         *)
(***************************************************************************)
EXTENDS Integers, FiniteSets

CONSTANTS
  NumCells,   \* the units of the pool, the last of which is the end marker
  Handle,     \* the pointers of the clients
  Nobody,     \* content of memory no client owns
  Sizes       \* bound: the sizes asked for, in bytes

PoolAssumption == NumCells \in Nat \ {0, 1} /\ Sizes \subseteq Nat

VARIABLES
  up,     \* End # NULL
  mem,    \* Next and BlockSize of the structures, who is marked as allocated,
          \* FreeBytesRemaining in units, and the clients' data
  at,     \* the block each client's pointer points into, None for NULL
  denied  \* history: who was last given NULL, and how many units it asked for

vars == <<up, mem, at, denied>>

Cell  == 0 .. NumCells - 1
End   == NumCells - 1
Start == -2                \* mPool->qPrivate.Start, adjacent to no block
None  == -1                \* NULL, and what is left where there is no structure
MinBlockSize == 2

\* The units a request takes: the structure, and the size rounded up.
Units(size) == 1 + (size + 7) \div 8

-----------------------------------------------------------------------------
\* qMemMang_HeapInit: one free block up to the end marker.
Fresh ==
  LET none == [c \in Cell |-> None]
  IN  [next |-> [c \in Cell \union {Start} |->
                   IF c = Start THEN 0 ELSE IF c = 0 THEN End ELSE None],
       size |-> [c \in Cell \union {Start} |->
                   IF c = 0 THEN End ELSE IF c \in {Start, End} THEN 0 ELSE None],
       used |-> {}, free |-> End, data |-> [c \in Cell |-> Nobody]]

\* The free list from Start on: the i-th element, and End behind the end.
Listed(m) ==
  LET walk[i \in 0 .. NumCells] ==
        IF i = 0 THEN Start
        ELSE LET b == walk[i - 1] IN IF b \in {End, None} THEN End ELSE m.next[b]
  IN  walk

\* The last element before b, where qMemMang_InsertBlockIntoFreeList stops.
Before(m, b) ==
  LET l == Listed(m)
      i == CHOOSE i \in 0 .. NumCells - 1 : l[i + 1] >= b /\ \A j \in 0 .. i - 1 : l[j + 1] < b
  IN  l[i]

\* b, of s units, is entered behind i, and n, which follows i, joined to it.
Entered(m, b, s, i, n) ==
  LET join == b + s = n /\ n # End
      size == IF join THEN s + m.size[n] ELSE s
      next == IF join THEN m.next[n] ELSE n
  IN  [m EXCEPT !.size[b] = size,
                !.next = [@ EXCEPT ![i] = b, ![b] = next]]

\* A faulty Insert: the block is not joined to the one in front of it.
InsertApart(m, b) ==
  LET i == Before(m, b) IN Entered(m, b, m.size[b], i, m.next[i])

\* qMemMang_InsertBlockIntoFreeList.
Insert(m, b) ==
  LET i == Before(m, b)
      n == m.next[i]
      s == m.size[i] + m.size[b]
  IN  IF i + m.size[i] # b
      THEN Entered(m, b, m.size[b], i, n)
      ELSE IF i + s = n /\ n # End
      THEN [m EXCEPT !.size[i] = s + m.size[n], !.next[i] = m.next[n]]
      ELSE [m EXCEPT !.size[i] = s]

\* The first block on the list that has room for n units, or the end marker.
FirstFit(m, n) ==
  LET l == Listed(m)
      i == CHOOSE i \in 1 .. NumCells :
             /\ m.size[l[i]] >= n \/ l[i] = End
             /\ \A j \in 1 .. i - 1 : m.size[l[j]] < n
  IN  <<l[i - 1], l[i]>>

\* Block b, behind p on the list, is taken off it, and what is beyond n units
\* becomes a block of its own if it is large enough.
Take(m, p, b, n) ==
  LET off  == [m EXCEPT !.next[p] = m.next[b]]
      cut  == Insert([off EXCEPT !.size[b] = n, !.size[b + n] = m.size[b] - n], b + n)
      left == IF m.size[b] - n > MinBlockSize THEN cut ELSE off
  IN  [left EXCEPT !.free = @ - left.size[b], !.used = @ \union {b}, !.next[b] = None]

-----------------------------------------------------------------------------
(* The clients.  Who has a block writes all of it but the structure; no    *)
(* structure outlives the block it belonged to.                            *)

\* The blocks, from the first one, free or not, to the end marker.
Walked(m) ==
  LET walk[i \in 1 .. NumCells] ==
        IF i = 1 THEN 0
        ELSE LET b == walk[i - 1] IN IF b \in Cell \ {End} THEN b + m.size[b] ELSE b
  IN  {walk[i] : i \in 1 .. NumCells}

\* The memory as the clients leave it, h with block b, new or not there.
Owned(m, h, b) ==
  LET a     == [at EXCEPT ![h] = b]
      heads == Walked(m) \union {Start}
      body(g) == IF a[g] = None THEN {} ELSE a[g] + 1 .. a[g] + m.size[a[g]] - 1
      all   == UNION {body(g) : g \in Handle}
  IN  /\ at' = a /\ denied' = <<>>
      /\ mem' = [m EXCEPT
           !.next = [c \in DOMAIN @ |-> IF c \in heads THEN @[c] ELSE None],
           !.size = [c \in DOMAIN @ |-> IF c \in heads THEN @[c] ELSE None],
           !.data = [c \in Cell |->
                       IF c \in body(h) THEN <<h, c - b + 1>>
                       ELSE IF c \in all \ heads THEN @[c] ELSE Nobody]]

\* The first qMemMang_Allocate sets the pool up.
Now == IF up THEN mem ELSE Fresh

Init == up = FALSE /\ mem = Fresh /\ at = [h \in Handle |-> None] /\ denied = <<>>

-----------------------------------------------------------------------------
\* qMemMang_Pool_Setup of a pool that nobody uses any more.
PoolSetup ==
  /\ up' = FALSE /\ mem' = Fresh
  /\ at' = [h \in Handle |-> None] /\ denied' = <<>>

\* qMemMang_Allocate of no bytes, and qMemMang_Free of NULL.
AllocateNothing == up' = TRUE /\ mem' = Now /\ denied' = <<>> /\ UNCHANGED at

\* qMemMang_Allocate.
Allocate(h, size) ==
  LET n   == Units(size)
      fit == FirstFit(Now, n)
  IN  /\ at[h] = None /\ size > 0 /\ up' = TRUE
      /\ IF n <= Now.free /\ fit[2] # End
         THEN Owned(Take(Now, fit[1], fit[2], n), h, fit[2])
         ELSE mem' = Now /\ denied' = <<h, n>> /\ UNCHANGED at

\* qMemMang_Free.
Free(h) ==
  /\ at[h] # None /\ at[h] \in mem.used
  /\ LET m == [mem EXCEPT !.used = @ \ {at[h]}, !.free = @ + mem.size[at[h]]]
     IN  Owned(Insert(m, at[h]), h, None)
  /\ UNCHANGED up

Next ==
  \/ PoolSetup \/ AllocateNothing
  \/ \E h \in Handle : Free(h) \/ \E size \in Sizes : Allocate(h, size)

Spec == Init /\ [][Next]_vars

-----------------------------------------------------------------------------
TypeOK ==
  /\ up \in BOOLEAN /\ denied \in {<<>>} \union (Handle \X Nat)
  /\ at \in [Handle -> Cell \union {None}]
  /\ mem.next \in [Cell \union {Start} -> Cell \union {None}]
  /\ mem.size \in [Cell \union {Start} -> Cell \union {None}]
  /\ mem.used \subseteq Cell /\ mem.free \in Nat
  /\ mem.data \in [Cell -> {Nobody} \union (Handle \X Nat)]

\* The blocks fill the pool up to the end marker; those that are not given out
\* are on the list, in the order of their addresses; and FreeBytesRemaining,
\* by which a request is refused before the list is looked at, is what they
\* have (qmemmang.c:122, 171-199, 263-283).
Integrity ==
  LET l    == Listed(mem)
      free == {l[i] : i \in 1 .. NumCells} \ {End}
      sum[i \in 0 .. NumCells] == IF i = 0 THEN 0 ELSE sum[i - 1] + mem.size[l[i]]
  IN  /\ Walked(mem) \subseteq Cell /\ End \in Walked(mem)
      /\ free = Walked(mem) \ (mem.used \union {End})
      /\ \A i \in 0 .. NumCells - 1 : l[i] < l[i + 1] \/ l[i] = End
      /\ mem.free = sum[NumCells]

\* No two free blocks lie side by side (qmemmang.c:178-191).
Coalesced ==
  \A b \in Walked(mem) \ (mem.used \union {End}) :
    b + mem.size[b] \in mem.used \union {End}

\* The clients see a heap, which gives up to two units too many and refuses
\* only for want of room (qmemmang.c:246-289).
Clients == INSTANCE Heap WITH
  Cell <- 1 .. NumCells - 1, CellBytes <- 8, HeaderBytes <- 8, Spare <- MinBlockSize,
  Joins <- TRUE, Moves <- FALSE, Sizes <- Sizes \ {0},
  at <- [h \in Handle |-> at[h] + 1],
  content <- [h \in Handle |-> IF at[h] = None THEN <<>>
                               ELSE [i \in 1 .. mem.size[at[h]] |->
                                       IF i = 1 THEN <<h, 1>> ELSE mem.data[at[h] + i - 1]]]
ImplementsHeap == Clients!Spec
=============================================================================
