-------------------------------- MODULE Heap --------------------------------
(***************************************************************************)
(* What a heap owes its clients, whichever allocator is behind it.  The    *)
(* memory is made of cells; a block is a run of them, of which             *)
(* HeaderBytes are the allocator's.  Each client has one pointer, and has  *)
(* written every cell of its block: cell k of h's block holds <<h, k>>.    *)
(***************************************************************************)
EXTENDS Integers, Sequences

CONSTANTS
  Handle,                   \* the pointers of the clients
  Cell,                     \* the cells that can be given out, naturals
  CellBytes, HeaderBytes,
  Spare,                    \* cells a client may get beyond what it needs
  Joins,                    \* is free memory that lies together always one piece
  Moves,                    \* do blocks move when others are freed
  Sizes                     \* bound: the sizes asked for, in bytes

VARIABLES
  at,        \* first cell of each client's block, 0 for NULL
  content,   \* what the cells of that block hold
  denied     \* who was last given NULL, and how many cells it had asked for

heap == <<at, content, denied>>

Init ==
  /\ at = [h \in Handle |-> 0]
  /\ content = [h \in Handle |-> <<>>]
  /\ denied = <<>>

\* The fewest cells that hold so many bytes beside the header.
Need(size) ==
  CHOOSE n \in 1 .. size + 1 :
    /\ n * CellBytes - HeaderBytes >= size
    /\ \A m \in 1 .. n - 1 : m * CellBytes - HeaderBytes < size

Needs == {Need(size) : size \in Sizes}

Extent(h) == at[h] .. at[h] + Len(content[h]) - 1

\* Where a block of n cells for h could begin, not counting what h has now.
Rooms(h, n) ==
  LET open == Cell \ UNION {Extent(g) : g \in Handle \ {h}}
  IN  {b \in open : b .. b + n - 1 \subseteq open}

\* malloc, calloc and realloc that give n cells: any place there is, and what h
\* had comes along.
Grant(h, n) ==
  LET k == Len(content[h])
  IN  /\ content' = [content EXCEPT ![h] =
                       [i \in 1 .. n |-> IF i <= k THEN content[h][i] ELSE <<h, i>>]]
      /\ \E b \in Rooms(h, n) : at' = [at EXCEPT ![h] = b]
      /\ denied' = <<>>

\* The same calls return NULL, and change nothing, only if there is no room or
\* it is in pieces.
Deny(h, n) ==
  /\ denied' = <<h, n>>
  /\ UNCHANGED <<at, content>>
  /\ Joins => Rooms(h, n) = {}

\* Where the blocks are, none upon another, after h's was freed and they moved.
Moved(h) ==
  {a \in [Handle -> Cell \union {0}] :
     LET extent(g) == a[g] .. a[g] + Len(content[g]) - 1
     IN  /\ a[h] = 0
         /\ \A g \in Handle \ {h} :
              IF at[g] = 0 THEN a[g] = 0
              ELSE /\ extent(g) \subseteq Cell
                   /\ \A f \in Handle \ {g} : a[f] = 0 \/ extent(f) \intersect extent(g) = {}}

Free(h) ==
  /\ IF Moves THEN at' \in Moved(h) ELSE at' = [at EXCEPT ![h] = 0]
  /\ content' = [content EXCEPT ![h] = <<>>]
  /\ denied' = <<>>

\* The heap is set up anew, and no pointer is good any longer.
Forget ==
  /\ at' = [h \in Handle |-> 0]
  /\ content' = [h \in Handle |-> <<>>]
  /\ denied' = <<>>

Next ==
  \/ Forget
  \/ \E h \in Handle :
       \/ Free(h)
       \/ \E n \in Needs : Deny(h, n) \/ \E m \in n .. n + Spare : Grant(h, m)

Spec == Init /\ [][Next]_heap
=============================================================================
