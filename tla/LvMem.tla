-------------------------------- MODULE LvMem --------------------------------
(***************************************************************************)
(* lv_mem/lv_mem.c: a heap whose entries follow one another and have no    *)
(* list.  The memory is counted in units of four bytes, the size of an     *)
(* entry's header; the first free entry that fits is taken, and an entry   *)
(* that is freed takes up the free ones behind it, not those before it.    *)
(* Built with LV_MEM_CUSTOM = 0, LV_MEM_AUTO_DEFRAG = 1, 32 bits.          *)
(***************************************************************************)
EXTENDS Integers, FiniteSets

CONSTANTS
  NumCells,   \* LV_MEM_SIZE in units
  Handle,     \* the pointers of the clients
  Nobody,     \* content of memory no client owns
  Sizes,      \* bound: the sizes asked for, in bytes
  MaxLost     \* bound: entries without data that realloc loses

LvMemAssumption ==
  NumCells \in Nat \ {0, 1} /\ Sizes \subseteq Nat /\ MaxLost \in Nat

VARIABLES
  mem,    \* d_size in units and used of the headers, and the clients' data
  at,     \* the entry each client's pointer points into; None for NULL and
          \* for &zero_mem, which is no memory of the heap
  denied, \* history: who was last given NULL, and how many units it asked for
  tidy    \* history: nothing was given back since the last defragmentation

vars == <<mem, at, denied, tidy>>

Cell == 0 .. NumCells - 1
None == -1

\* Sizes are rounded up to units.
Units(size) == (size + 3) \div 4

\* ent_get_next: the end is where a header would leave no room for data.
NextOf(m, e) == LET n == e + 1 + m.size[e] IN IF n + 1 >= NumCells THEN None ELSE n

\* lv_mem_init, and lv_mem_deinit.
Fresh ==
  [size |-> [c \in Cell |-> IF c = 0 THEN NumCells - 1 ELSE None],
   used |-> {}, data |-> [c \in Cell |-> Nobody]]

\* The entries, in their order: the i-th one, and None behind the last.
Entries(m) ==
  LET walk[i \in 1 .. NumCells] ==
        IF i = 1 THEN 0
        ELSE LET e == walk[i - 1] IN IF e = None THEN None ELSE NextOf(m, e)
  IN  walk

EntrySet(m) == LET w == Entries(m) IN {w[i] : i \in 1 .. NumCells} \ {None}

-----------------------------------------------------------------------------
\* ent_trunc: what is beyond n units becomes an entry, if that can hold data.
Trunc(m, e, n) ==
  IF m.size[e] \in {n, n + 1} THEN m
  ELSE [m EXCEPT !.size[e + 1 + n] = m.size[e] - n - 1, !.size[e] = n,
                 !.used = @ \ {e + 1 + n}]

\* How long e is when it takes up the free entries behind it, as far as they
\* follow one another.
JoinedSize(m, e) ==
  LET entries == EntrySet(m)
      run  == {n \in entries : n >= e /\ \A k \in entries : e < k /\ k <= n => k \notin m.used}
      last == CHOOSE n \in run : \A k \in run : k <= n
  IN  last + m.size[last] - e

\* The entry lv_mem_alloc chooses for n units.
FirstFits(m, n) ==
  LET fits == {e \in EntrySet(m) \ m.used : m.size[e] >= n}
  IN  {e \in fits : \A f \in fits : e <= f}

Alloc(m, e, n) == [Trunc(m, e, n) EXCEPT !.used = @ \union {e}]

\* lv_mem_free.
Release(m, e) == [m EXCEPT !.used = @ \ {e}, !.size[e] = JoinedSize(m, e)]

\* lv_mem_defrag: free entries take up those behind them, which are then none.
Defragged(m) ==
  LET free == EntrySet(m) \ m.used
  IN  [m EXCEPT !.size = [c \in Cell |-> IF c \in free THEN JoinedSize(m, c) ELSE @[c]]]

-----------------------------------------------------------------------------
(* The clients.  Who has an entry writes all of its data; no header        *)
(* outlives the entry it belonged to.                                      *)

\* What h writes into entry e behind the kept units it wrote before.
Wrote(m, h, e, kept) == [c \in e + 1 + kept .. e + m.size[e] |-> <<h, c - e + 1>>]

\* The memory as it is when the clients have the entries a and one of them has
\* written wrote.
Settled(m, a, wrote) ==
  LET heads   == EntrySet(m)
      body(g) == IF a[g] = None THEN {} ELSE a[g] + 1 .. a[g] + m.size[a[g]]
      kept    == (UNION {body(g) : g \in Handle}) \ heads
  IN  /\ at' = a /\ denied' = <<>>
      /\ mem' = [size |-> [c \in Cell |-> IF c \in heads THEN m.size[c] ELSE None],
                 used |-> m.used \intersect heads,
                 data |-> [c \in Cell |-> IF c \in DOMAIN wrote THEN wrote[c]
                                         ELSE IF c \in kept THEN m.data[c] ELSE Nobody]]

Given(m, h, e, kept) == Settled(m, [at EXCEPT ![h] = e], Wrote(m, h, e, kept))

Denied(h, n) == denied' = <<h, n + 1>> /\ UNCHANGED <<mem, at, tidy>>

\* A faulty Copy: it stops a unit early.
CopyShort(m, e, f, n) ==
  [m EXCEPT !.data = [c \in Cell |-> IF c \in f + 1 .. f + n - 1 THEN m.data[e + (c - f)] ELSE @[c]]]

\* memcpy of n units from entry e to entry f.
Copy(m, e, f, n) ==
  [m EXCEPT !.data = [c \in Cell |-> IF c \in f + 1 .. f + n THEN m.data[e + (c - f)] ELSE @[c]]]

Init ==
  /\ mem = Fresh /\ at = [h \in Handle |-> None]
  /\ denied = <<>> /\ tidy = TRUE

\* lv_mem_deinit, whoever still has memory.
Deinit ==
  /\ mem' = Fresh /\ at' = [h \in Handle |-> None]
  /\ denied' = <<>> /\ tidy' = TRUE

\* lv_mem_alloc, also for a realloc of NULL.
Malloc(h, size) ==
  LET n == Units(size)
  IN  /\ at[h] = None /\ size # 0
      /\ \/ \E e \in FirstFits(mem, n) : Given(Alloc(mem, e, n), h, e, 0) /\ UNCHANGED tidy
         \/ FirstFits(mem, n) = {} /\ Denied(h, n)

Free(h) ==
  /\ at[h] # None
  /\ Settled(Release(mem, at[h]), [at EXCEPT ![h] = None], <<>>)
  /\ tidy' = FALSE

\* lv_mem_realloc to less: also to nothing, which leaves an entry without data.
Shrink(h, size) ==
  /\ at[h] # None /\ size < 4 * mem.size[at[h]]
  /\ Settled(Trunc(mem, at[h], Units(size)), at, <<>>)
  /\ tidy' = FALSE

\* Entries in use that no client has.
Lost(m, a) == m.used \ {a[h] : h \in Handle}

\* lv_mem_realloc to more: always a new entry.  An old one without data is not
\* given back.
Grow(h, size) ==
  LET n   == Units(size)
      old == mem.size[at[h]]
  IN  /\ at[h] # None /\ size > 4 * old
      /\ old = 0 => Cardinality(Lost(mem, at)) < MaxLost
      /\ \/ \E e \in FirstFits(mem, n) :
              LET m == Copy(Alloc(mem, e, n), at[h], e, old)
              IN  /\ Given(IF old = 0 THEN m ELSE Release(m, at[h]), h, e, old)
                  /\ tidy' = FALSE
         \/ FirstFits(mem, n) = {} /\ Denied(h, n)

\* lv_mem_defrag.
Defrag == Settled(Defragged(mem), at, <<>>) /\ tidy' = TRUE

Next ==
  \/ Deinit \/ Defrag
  \/ \E h \in Handle :
       Free(h) \/ \E size \in Sizes : Malloc(h, size) \/ Shrink(h, size) \/ Grow(h, size)

Spec == Init /\ [][Next]_vars
-----------------------------------------------------------------------------
TypeOK ==
  /\ mem.size \in [Cell -> Cell \union {None}] /\ mem.used \subseteq Cell
  /\ mem.data \in [Cell -> {Nobody} \union (Handle \X Nat)]
  /\ at \in [Handle -> Cell \union {None}]
  /\ denied \in {<<>>} \union (Handle \X Nat) /\ tidy \in BOOLEAN

\* The entries fill the memory to its end, whatever was cut and joined, and
\* those in use are the clients', but for ones without data, which a realloc
\* loses (lv_mem.c:209-222, 267-273, 405-419, 450-481).
Integrity ==
  LET mine == {at[h] : h \in Handle} \ {None}
  IN  /\ mine \subseteq mem.used
      /\ \A e \in Lost(mem, at) : mem.size[e] = 0
      /\ \E e \in EntrySet(mem) : e + 1 + mem.size[e] = NumCells

\* lv_mem_defrag leaves no two free entries side by side, and none come to lie
\* so before memory is given back (lv_mem.c:294-331).
Coalesced ==
  tidy => \A e \in EntrySet(mem) \ mem.used :
            NextOf(mem, e) # None => NextOf(mem, e) \in mem.used

\* The clients see a heap, which gives up to one unit too many and in which
\* free memory may lie in pieces (lv_mem.c:127-278).
Clients == INSTANCE Heap WITH
  Cell <- 1 .. NumCells, CellBytes <- 4, HeaderBytes <- 4, Spare <- 1, Joins <- FALSE,
  Moves <- FALSE,
  at <- [h \in Handle |-> at[h] + 1],
  content <- [h \in Handle |-> IF at[h] = None THEN <<>>
                               ELSE [i \in 1 .. mem.size[at[h]] + 1 |->
                                       IF i = 1 THEN <<h, 1>> ELSE mem.data[at[h] + i - 1]]]
ImplementsHeap == Clients!Spec
=============================================================================
