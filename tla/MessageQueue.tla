----------------------------- MODULE MessageQueue -----------------------------
(***************************************************************************)
(* message_queue/message_queue.c: a pool of equal message blocks and a     *)
(* queue of pointers to them.  Two arrays of max_depth pointers are each   *)
(* walked by two counters that only grow, modulo the width of unsigned     *)
(* int; blocked_readers, which nothing ever raises, is left out.           *)
(* A call is one action: in this port nothing inside a call waits.         *)
(***************************************************************************)
EXTENDS Integers, FiniteSets, Sequences

CONSTANTS
  Depth,       \* max_depth after round_to_pow2
  Wrap,        \* 2^32, the modulus of the four positions
  Null,        \* NULL
  Eager,       \* do clients read without knowing that a message is there
  MaxEntries   \* bound: entries up to which an empty queue is read

ASSUME DepthAssumption == Depth \in Nat \ {0}
ASSUME WrapAssumption  == Wrap \in Nat \ {0} /\ Wrap % Depth = 0
ASSUME NullAssumption  == Null \notin 0 .. Depth - 1
ASSUME EagerAssumption == Eager \in BOOLEAN /\ MaxEntries \in Nat

VARIABLES
  up,         \* message_queue_init succeeded, message_queue_destroy not called
  heap,       \* blocks the queue has from umm_malloc
  freelist, freeBlocks, allocpos, freepos,      \* queue->allocator
  queueData, entries, readpos, writepos,        \* queue->queue_data, queue->queue
  held,       \* history: messages the clients hold
  ret         \* what the last call returned

allocator == <<freelist, freeBlocks, allocpos, freepos>>
queue     == <<queueData, entries, readpos, writepos>>
vars      == <<up, heap, allocator, queue, held, ret>>

Msg  == 0 .. Depth - 1        \* block i of queue->memory
Slot == 0 .. Depth - 1

\* A position moves on, as an unsigned int does.
Succ(pos) == (pos + 1) % Wrap

\* The slots n steps behind a position.
From(pos, n) == {(pos + i) % Depth : i \in 0 .. n - 1}

Pool   == {freelist[s] : s \in From(allocpos, freeBlocks)}
Queued == {queueData[s] : s \in Slot} \ {Null}
Fifo   == [i \in 1 .. entries |-> queueData[(readpos + i - 1) % Depth]]

-----------------------------------------------------------------------------
\* The state message_queue_init leaves when its allocations succeed.
Fresh(fl, fb, ap, fp, qd, en, rp, wp) ==
  /\ fl = [s \in Slot |-> s] /\ fb = Depth /\ ap = 0 /\ fp = 0
  /\ qd = [s \in Slot |-> Null] /\ en = 0 /\ rp = 0 /\ wp = 0

Init ==
  /\ up = FALSE /\ heap = {} /\ held = {} /\ ret = Null
  /\ Fresh(freelist, freeBlocks, allocpos, freepos, queueData, entries, readpos, writepos)

\* The blocks in the order in which message_queue_init asks for them.
Request == <<"memory", "freelist", "queue_data">>

\* A faulty error path: a failed queue_data leaves by the label of freelist.
FreedWrongLabel(n) ==
  CASE n = 0 -> {} [] n = 1 -> {"memory"} [] n = 2 -> {"memory"}

\* What the label the error path enters gives back when n requests succeeded.
Freed(n) ==
  CASE n = 0 -> {} [] n = 1 -> {"memory"} [] n = 2 -> {"freelist", "memory"}

\* message_queue_init, of which n allocations succeed.
QueueInit(n) ==
  /\ ~up
  /\ IF n = Len(Request)
     THEN /\ up' = TRUE
          /\ heap' = {Request[i] : i \in 1 .. n}
          /\ Fresh(freelist', freeBlocks', allocpos', freepos',
                   queueData', entries', readpos', writepos')
     ELSE /\ heap' = {Request[i] : i \in 1 .. n} \ Freed(n)
          /\ UNCHANGED <<up, allocator, queue>>
  /\ ret' = Null
  /\ UNCHANGED held

\* message_queue_destroy: what was queued or held goes with the memory.
QueueDestroy ==
  /\ up
  /\ up' = FALSE
  /\ heap' = heap \ {"queue_data", "freelist", "memory"}
  /\ Fresh(freelist', freeBlocks', allocpos', freepos',
           queueData', entries', readpos', writepos')
  /\ held' = {} /\ ret' = Null

\* A faulty Alloc: an empty pool is not noticed.
AllocUnchecked ==
  /\ up
  /\ ret' = freelist[allocpos % Depth]
  /\ freeBlocks' = freeBlocks - 1
  /\ allocpos' = Succ(allocpos)
  /\ held' = held \union {ret'}
  /\ UNCHANGED <<up, heap, freelist, freepos, queue>>

\* message_queue_message_alloc, and _alloc_blocking, which does not "block until
\* memory is available" (message_queue.h:113) but returns NULL like the other.
Alloc ==
  /\ up
  /\ IF freeBlocks > 0
     THEN /\ ret' = freelist[allocpos % Depth]
          /\ freeBlocks' = freeBlocks - 1
          /\ allocpos' = Succ(allocpos)
          /\ held' = held \union {ret'}
     ELSE /\ ret' = Null
          /\ UNCHANGED <<freeBlocks, allocpos, held>>
  /\ UNCHANGED <<up, heap, freelist, freepos, queue>>

\* A faulty Free: the block is put where the next one is taken.
FreeAtAlloc(m) ==
  /\ up /\ m \in held
  /\ freelist' = [freelist EXCEPT ![allocpos % Depth] = m]
  /\ freepos' = Succ(freepos)
  /\ freeBlocks' = freeBlocks + 1
  /\ held' = held \ {m} /\ ret' = Null
  /\ UNCHANGED <<up, heap, allocpos, queue>>

\* message_queue_message_free, of a message its caller holds.
Free(m) ==
  /\ up /\ m \in held
  /\ freelist' = [freelist EXCEPT ![freepos % Depth] = m]
  /\ freepos' = Succ(freepos)
  /\ freeBlocks' = freeBlocks + 1
  /\ held' = held \ {m} /\ ret' = Null
  /\ UNCHANGED <<up, heap, allocpos, queue>>

\* A faulty Write: the message is put where the next one is read.
WriteAtRead(m) ==
  /\ up /\ m \in held
  /\ queueData' = [queueData EXCEPT ![readpos % Depth] = m]
  /\ writepos' = Succ(writepos)
  /\ entries' = entries + 1
  /\ held' = held \ {m} /\ ret' = Null
  /\ UNCHANGED <<up, heap, allocator, readpos>>

\* message_queue_write, of a message its caller holds.
Write(m) ==
  /\ up /\ m \in held
  /\ queueData' = [queueData EXCEPT ![writepos % Depth] = m]
  /\ writepos' = Succ(writepos)
  /\ entries' = entries + 1
  /\ held' = held \ {m} /\ ret' = Null
  /\ UNCHANGED <<up, heap, allocator, readpos>>

\* message_queue_tryread, and _read, which does not block either (:158).  A read
\* of an empty queue counts an entry that is not there.  The header offers that
\* read (:147-151) and www_server.c:272 and apptest_ummollc.c:125 make it, but
\* here only clients that are Eager do: to the others the queue keeps its promises.
Tryread ==
  /\ up
  /\ entries > 0 \/ (Eager /\ entries < MaxEntries)
  /\ IF entries > 0
     THEN /\ ret' = queueData[readpos % Depth]
          /\ entries' = entries - 1
          /\ readpos' = Succ(readpos)
          /\ queueData' = [queueData EXCEPT ![readpos % Depth] = Null]
          /\ held' = held \union ({ret'} \ {Null})
     ELSE /\ ret' = Null
          /\ entries' = entries + 1
          /\ UNCHANGED <<readpos, queueData, held>>
  /\ UNCHANGED <<up, heap, allocator, writepos>>

Next ==
  \/ \E n \in 0 .. Len(Request) : QueueInit(n)
  \/ QueueDestroy \/ Alloc \/ Tryread
  \/ \E m \in Msg : Free(m) \/ Write(m)

Spec == Init /\ [][Next]_vars

-----------------------------------------------------------------------------
TypeOK ==
  /\ up \in BOOLEAN /\ heap \subseteq {Request[i] : i \in 1 .. Len(Request)}
  /\ freelist \in [Slot -> Msg] /\ queueData \in [Slot -> Msg \union {Null}]
  /\ freeBlocks \in 0 .. Depth /\ entries \in 0 .. Depth + MaxEntries
  /\ {allocpos, freepos, readpos, writepos} \subseteq 0 .. Wrap - 1
  /\ held \subseteq Msg /\ ret \in Msg \union {Null}

\* No block has two owners and none is lost: it is free, held by one client or
\* queued once, also when the positions wrap (message_queue.c:122-255), as long
\* as nobody reads an empty queue: after such reads, written messages overwrite
\* one another (MessageQueueEager.cfg).
EachBlockOwnedOnce ==
  /\ Cardinality(Pool) = freeBlocks
  /\ Pool \intersect held = {} /\ Pool \intersect Queued = {} /\ held \intersect Queued = {}
  /\ Pool \union held \union Queued = Msg

\* A queue that is not set up, because an allocation failed on the way or it
\* was destroyed, owes the heap nothing (message_queue.c:78-119, 264-270).
NoLeak == ~up => heap = {}

\* The queue is the channel of message_queue.h: messages are read in the order
\* in which they were written, and nothing is given out twice, as long as nobody
\* reads an empty queue, and with NULL where the header says that a call waits.
Channel == INSTANCE MessageChannel WITH pool <- Pool, fifo <- Fifo
ImplementsChannel == Channel!Spec

\* "pointer to the next message on the queue, or NULL if no messages are
\* available" (message_queue.h:150): a read returns NULL only when no message is
\* queued.  It does not hold behind a read of an empty queue, which counts an
\* entry: the next read goes past the next message (MessageQueueEager.cfg).
ReadFindsMessage == [][Tryread /\ ret' = Null => Queued = {}]_vars
=============================================================================
