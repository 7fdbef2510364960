------------------------- MODULE MessageQueueProofs -------------------------
(* Theorems of MessageQueue for every depth and every width of the four      *)
(* positions, of clients that do not read what is not there.                 *)
EXTENDS MessageQueue, FiniteSetTheorems, SequenceTheorems, TLAPS

Position == 0 .. Wrap - 1

-----------------------------------------------------------------------------
(* Positions: all that is ever used of one is its value modulo the depth.    *)

LEMMA Division ==
  ASSUME NEW d \in Nat \ {0}, NEW x \in Int
  PROVE  x % d \in 0 .. d - 1 /\ x \div d \in Int /\ x = d * (x \div d) + (x % d)
OBVIOUS

LEMMA Remainder ==
  ASSUME NEW d \in Nat \ {0}, NEW q \in Int, NEW k \in 0 .. d - 1
  PROVE  (d * q + k) % d = k
OBVIOUS

\* The slot n steps behind slot a.
Turn(a, n) == IF a + n < Depth THEN a + n ELSE a + n - Depth

LEMMA TurnInjective ==
  ASSUME NEW a \in Slot, NEW m \in 0 .. Depth - 1, NEW n \in 0 .. Depth - 1,
         Turn(a, m) = Turn(a, n)
  PROVE  m = n
BY DepthAssumption DEF Turn, Slot

\* The slot n steps behind a position is that n steps behind the position's slot.
LEMMA Ahead ==
  ASSUME NEW pos \in Int, NEW n \in 0 .. Depth
  PROVE  /\ pos % Depth \in Slot /\ (pos + n) % Depth \in Slot
         /\ (pos + n) % Depth = Turn(pos % Depth, n)
<1> DEFINE q == pos \div Depth
           a == pos % Depth
           c == (pos + n) % Depth
<1>1. q \in Int /\ a \in 0 .. Depth - 1 /\ pos = Depth * q + a
  BY Division, DepthAssumption
<1> HIDE DEF q, a
<1>2. ASSUME a + n < Depth PROVE c = a + n
  <2>1. pos + n = Depth * q + (a + n) /\ a + n \in 0 .. Depth - 1
    BY <1>1, <1>2, DepthAssumption
  <2>2. (Depth * q + (a + n)) % Depth = a + n
    BY <2>1, <1>1, Remainder, DepthAssumption
  <2> QED BY <2>1, <2>2
<1>3. ASSUME a + n >= Depth PROVE c = a + n - Depth
  <2>1. /\ pos + n = Depth * (q + 1) + (a + n - Depth)
        /\ a + n - Depth \in 0 .. Depth - 1 /\ q + 1 \in Int
    BY <1>1, <1>3, DepthAssumption
  <2>2. (Depth * (q + 1) + (a + n - Depth)) % Depth = a + n - Depth
    BY <2>1, Remainder, DepthAssumption
  <2> QED BY <2>1, <2>2
<1>4. a \in Slot /\ c \in Slot /\ c = Turn(a, n)
  <2> HIDE DEF c
  <2> QED BY <1>1, <1>2, <1>3, DepthAssumption DEF Turn, Slot
<1> QED BY <1>4 DEF a

\* The wrap of a position does not move its slot: Wrap is a multiple of Depth.
LEMMA SuccSlot ==
  ASSUME NEW pos \in Position
  PROVE  Succ(pos) \in Position /\ Succ(pos) % Depth = (pos + 1) % Depth
<1>1. CASE pos + 1 < Wrap
  <2>1. Succ(pos) = pos + 1
    BY <1>1, WrapAssumption DEF Succ, Position
  <2> QED BY <2>1, <1>1, WrapAssumption DEF Position
<1>2. CASE pos + 1 = Wrap
  <2>1. Succ(pos) = 0
    BY <1>2, WrapAssumption DEF Succ, Position
  <2>2. 0 % Depth = 0
    BY DepthAssumption
  <2> QED BY <2>1, <2>2, <1>2, WrapAssumption DEF Position
<1> QED BY <1>1, <1>2, WrapAssumption DEF Position

LEMMA SuccAhead ==
  ASSUME NEW pos \in Position, NEW n \in 0 .. Depth - 1
  PROVE  (Succ(pos) + n) % Depth = (pos + (n + 1)) % Depth
<1>1. /\ Succ(pos) \in Int /\ pos \in Int
      /\ Succ(pos) % Depth = (pos + 1) % Depth
  BY SuccSlot, WrapAssumption DEF Position
<1>2. n \in 0 .. Depth /\ n + 1 \in 0 .. Depth /\ 1 \in 0 .. Depth
  BY DepthAssumption
<1> DEFINE a == pos % Depth
<1>3. /\ a \in Slot
      /\ (Succ(pos) + n) % Depth = Turn(Turn(a, 1), n)
      /\ (pos + (n + 1)) % Depth = Turn(a, n + 1)
  BY <1>1, <1>2, Ahead
<1>4. Turn(Turn(a, 1), n) = Turn(a, n + 1)
  <2> HIDE DEF a
  <2> QED BY <1>3, <1>2, DepthAssumption DEF Turn, Slot
<1> QED BY <1>3, <1>4

\* Distinct distances below the depth are distinct slots.
LEMMA AheadInjective ==
  ASSUME NEW pos \in Int, NEW m \in 0 .. Depth - 1, NEW n \in 0 .. Depth - 1,
         (pos + m) % Depth = (pos + n) % Depth
  PROVE  m = n
<1>1. m \in 0 .. Depth /\ n \in 0 .. Depth
  BY DepthAssumption
<1>2. pos % Depth \in Slot /\ Turn(pos % Depth, m) = Turn(pos % Depth, n)
  BY <1>1, Ahead
<1> QED BY <1>2, TurnInjective

\* A position that is n slots behind another one moves on to n + 1.
LEMMA Together ==
  ASSUME NEW pos \in Position, NEW end \in Position, NEW n \in 0 .. Depth - 1,
         end % Depth = (pos + n) % Depth
  PROVE  Succ(end) % Depth = (pos + (n + 1)) % Depth
<1>1. /\ pos \in Int /\ end \in Int /\ 1 \in 0 .. Depth
      /\ n \in 0 .. Depth /\ n + 1 \in 0 .. Depth
  BY DepthAssumption, WrapAssumption DEF Position
<1>2. /\ pos % Depth \in Slot
      /\ Succ(end) % Depth = Turn(Turn(pos % Depth, n), 1)
      /\ (pos + (n + 1)) % Depth = Turn(pos % Depth, n + 1)
  BY <1>1, SuccSlot, Ahead
<1>3. ASSUME NEW a \in Slot PROVE Turn(Turn(a, n), 1) = Turn(a, n + 1)
  BY <1>1, DepthAssumption DEF Turn, Slot
<1> QED BY <1>2, <1>3

\* A run of slots without its first one, and with one more at its end.
LEMMA FromFirst ==
  ASSUME NEW pos \in Position, NEW n \in 1 .. Depth
  PROVE  /\ pos % Depth \in Slot
         /\ From(pos, n) \subseteq Slot
         /\ From(Succ(pos), n - 1) = From(pos, n) \ {pos % Depth}
         /\ pos % Depth \in From(pos, n)
<1>0. pos \in Int /\ (pos + 0) % Depth = pos % Depth
  BY WrapAssumption DEF Position
<1>1. From(pos, n) \subseteq Slot /\ pos % Depth \in Slot
  <2>1. n \in 0 .. Depth /\ 0 .. n - 1 \subseteq 0 .. Depth
    BY DepthAssumption
  <2> QED BY <2>1, <1>0, Ahead DEF From
<1>2. pos % Depth \in From(pos, n)
  BY <1>0, DepthAssumption DEF From
<1>3. ASSUME NEW s \in From(Succ(pos), n - 1)
      PROVE  s \in From(pos, n) \ {pos % Depth}
  <2>1. PICK i \in 0 .. n - 2 : s = (Succ(pos) + i) % Depth
    BY <1>3, DepthAssumption DEF From
  <2>2. s = (pos + (i + 1)) % Depth
    BY <2>1, SuccAhead, DepthAssumption
  <2>3. s \in From(pos, n)
    BY <2>2, DepthAssumption DEF From
  <2>4. s # pos % Depth
    <3>1. i + 1 \in 0 .. Depth - 1 /\ 0 \in 0 .. Depth - 1 /\ i + 1 # 0
      BY <2>1, DepthAssumption
    <3> QED BY <2>2, <3>1, <1>0, AheadInjective
  <2> QED BY <2>3, <2>4
<1>4. ASSUME NEW s \in From(pos, n), s # pos % Depth
      PROVE  s \in From(Succ(pos), n - 1)
  <2>1. PICK i \in 0 .. n - 1 : s = (pos + i) % Depth
    BY <1>4 DEF From
  <2>2. i # 0
    BY <2>1, <1>4, <1>0
  <2>3. s = (Succ(pos) + (i - 1)) % Depth
    BY <2>1, <2>2, SuccAhead, DepthAssumption
  <2> QED BY <2>2, <2>3, DepthAssumption DEF From
<1> QED BY <1>1, <1>2, <1>3, <1>4

LEMMA FromLast ==
  ASSUME NEW pos \in Position, NEW n \in 0 .. Depth - 1
  PROVE  /\ (pos + n) % Depth \in Slot
         /\ From(pos, n + 1) = From(pos, n) \union {(pos + n) % Depth}
         /\ (pos + n) % Depth \notin From(pos, n)
<1>0. pos \in Int
  BY WrapAssumption DEF Position
<1>1. (pos + n) % Depth \in Slot
  <2>1. n \in 0 .. Depth
    BY DepthAssumption
  <2> QED BY <2>1, <1>0, Ahead
<1>2. From(pos, n) \union {(pos + n) % Depth} \subseteq From(pos, n + 1)
  BY DepthAssumption DEF From
<1>3. ASSUME NEW s \in From(pos, n + 1)
      PROVE  s \in From(pos, n) \union {(pos + n) % Depth}
  <2>1. PICK i \in 0 .. n : s = (pos + i) % Depth
    BY <1>3, DepthAssumption DEF From
  <2>2. CASE i = n
    BY <2>1, <2>2
  <2>3. CASE i # n
    <3>1. i \in 0 .. n - 1
      BY <2>1, <2>3, DepthAssumption
    <3> QED BY <3>1, <2>1 DEF From
  <2> QED BY <2>2, <2>3
<1>4. ASSUME (pos + n) % Depth \in From(pos, n) PROVE FALSE
  <2>1. PICK i \in 0 .. n - 1 : (pos + n) % Depth = (pos + i) % Depth
    BY <1>4 DEF From
  <2>2. i = n
    BY <2>1, <1>0, AheadInjective, DepthAssumption
  <2> QED BY <2>1, <2>2, DepthAssumption
<1> QED BY <1>1, <1>2, <1>3, <1>4

-----------------------------------------------------------------------------
(* The pool: the free blocks are those in the slots between its positions.   *)

Within(fl, pos, n) == {fl[s] : s \in From(pos, n)}

Distinct(fl, S) == \A s, t \in S : fl[s] = fl[t] => s = t

LEMMA TakeFirst ==
  ASSUME NEW fl \in [Slot -> Msg], NEW pos \in Position, NEW n \in 1 .. Depth,
         Distinct(fl, From(pos, n))
  PROVE  /\ fl[pos % Depth] \in Within(fl, pos, n)
         /\ Within(fl, Succ(pos), n - 1) = Within(fl, pos, n) \ {fl[pos % Depth]}
         /\ Distinct(fl, From(Succ(pos), n - 1))
BY FromFirst DEF Within, Distinct

LEMMA FromSlots ==
  ASSUME NEW pos \in Position, NEW n \in 0 .. Depth
  PROVE  From(pos, n) \subseteq Slot
<1>1. pos \in Int /\ 0 .. n - 1 \subseteq 0 .. Depth
  BY WrapAssumption, DepthAssumption DEF Position
<1> QED BY <1>1, Ahead DEF From

\* A set of messages that is as large as the depth is all of them.
LEMMA Full ==
  ASSUME NEW S \in SUBSET Msg, Cardinality(S) = Depth
  PROVE  S = Msg
<1>1. IsFiniteSet(Msg) /\ Cardinality(Msg) = Depth
  BY FS_Interval, DepthAssumption DEF Msg
<1> QED BY <1>1, FS_Subset

LEMMA SizeOf ==
  ASSUME NEW S \in SUBSET Msg, NEW m \in Msg
  PROVE  /\ Cardinality(S) \in Nat
         /\ m \notin S => Cardinality(S \union {m}) = Cardinality(S) + 1
         /\ m \in S => Cardinality(S \ {m}) = Cardinality(S) - 1
<1>1. IsFiniteSet(S)
  <2>1. IsFiniteSet(Msg)
    BY FS_Interval, DepthAssumption DEF Msg
  <2> QED BY <2>1, FS_Subset
<1> QED BY <1>1, FS_AddElement, FS_RemoveElement, FS_CardinalityType

-----------------------------------------------------------------------------
(* The inductive invariant.  That each block has one owner says nothing of   *)
(* where the next one is taken from or put to: it needs that the positions   *)
(* are as far apart as the counters say, and that the slots between them,    *)
(* and in the queue only they, hold blocks, each of them once.               *)

PoolSound ==
  /\ freeBlocks \in 0 .. Depth
  /\ freepos % Depth = (allocpos + freeBlocks) % Depth
  /\ Distinct(freelist, From(allocpos, freeBlocks))
  /\ Cardinality(Pool) = freeBlocks

QueueSound ==
  /\ entries \in 0 .. Depth
  /\ writepos % Depth = (readpos + entries) % Depth
  /\ \A s \in Slot : queueData[s] # Null <=> s \in From(readpos, entries)
  /\ \A s, t \in Slot : queueData[s] = queueData[t] /\ queueData[s] # Null => s = t
  /\ Cardinality(Queued) = entries

OneOwner ==
  /\ Pool \intersect held = {} /\ Pool \intersect Queued = {} /\ held \intersect Queued = {}
  /\ Pool \union held \union Queued = Msg

DownIsFresh == ~up => heap = {} /\ held = {} /\ freeBlocks = Depth /\ entries = 0

IInv == TypeOK /\ PoolSound /\ QueueSound /\ OneOwner /\ DownIsFresh

LEMMA PoolIsWithin == Pool = Within(freelist, allocpos, freeBlocks)
BY DEF Pool, Within

\* The state message_queue_init leaves.
IsFresh ==
  /\ Fresh(freelist, freeBlocks, allocpos, freepos, queueData, entries, readpos, writepos)
  /\ held = {}

AsFresh ==
  /\ PoolSound /\ QueueSound /\ OneOwner
  /\ freelist \in [Slot -> Msg] /\ queueData \in [Slot -> Msg \union {Null}]
  /\ freeBlocks = Depth /\ entries = 0 /\ Pool = Msg
  /\ {allocpos, freepos, readpos, writepos} \subseteq Position

LEMMA FreshSound == IsFresh => AsFresh
<1> SUFFICES ASSUME IsFresh PROVE AsFresh
  OBVIOUS
<1>1. /\ freelist = [s \in Slot |-> s] /\ freeBlocks = Depth /\ allocpos = 0 /\ freepos = 0
      /\ queueData = [s \in Slot |-> Null] /\ entries = 0 /\ readpos = 0 /\ writepos = 0
      /\ held = {}
  BY DEF Fresh, IsFresh
<1>2. 0 \in Position /\ 0 \in Int /\ 0 % Depth = 0 /\ (0 + Depth) % Depth = 0
  <2>1. 0 % Depth = 0
    BY DepthAssumption
  <2>2. (0 + Depth) % Depth = Turn(0 % Depth, Depth) /\ 0 \in Int
    BY Ahead, DepthAssumption
  <2> QED BY <2>1, <2>2, DepthAssumption, WrapAssumption DEF Turn, Position
<1>3. From(0, Depth) = Slot /\ From(0, 0) = {}
  <2>1. ASSUME NEW s \in Slot PROVE s \in From(0, Depth)
    <3>1. (0 + s) % Depth = s /\ s \in 0 .. Depth - 1
      BY DepthAssumption DEF Slot
    <3> QED BY <3>1 DEF From
  <2>2. From(0, Depth) \subseteq Slot
    BY <1>2, FromSlots, DepthAssumption
  <2>3. From(0, 0) = {}
    BY DEF From
  <2> QED BY <2>1, <2>2, <2>3
<1>4. Pool = Msg /\ Queued = {}
  BY <1>1, <1>3 DEF Pool, Queued, Msg, Slot
<1>5. Cardinality(Pool) = Depth /\ Cardinality(Queued) = 0
  BY <1>4, FS_Interval, FS_EmptySet, DepthAssumption DEF Msg
<1>6. PoolSound
  BY <1>1, <1>2, <1>3, <1>5, DepthAssumption DEF PoolSound, Distinct
<1>7. QueueSound
  BY <1>1, <1>2, <1>3, <1>5, DepthAssumption DEF QueueSound
<1>8. OneOwner
  BY <1>1, <1>4 DEF OneOwner
<1> QED BY <1>1, <1>2, <1>4, <1>6, <1>7, <1>8 DEF AsFresh, Slot, Msg

-----------------------------------------------------------------------------
(* What each call does to the pool and to the queue, as sets.                *)

LEMMA AllocTakes ==
  ASSUME IInv, Alloc, freeBlocks > 0
  PROVE  /\ ret' \in Pool /\ Pool' = Pool \ {ret'} /\ Queued' = Queued
         /\ PoolSound'
<1>1. /\ freelist \in [Slot -> Msg] /\ allocpos \in Position /\ freeBlocks \in 1 .. Depth
      /\ Distinct(freelist, From(allocpos, freeBlocks)) /\ Pool \subseteq Msg
      /\ freepos % Depth = (allocpos + freeBlocks) % Depth /\ Cardinality(Pool) = freeBlocks
  BY DepthAssumption DEF IInv, TypeOK, PoolSound, OneOwner, Position
<1>2. /\ ret' = freelist[allocpos % Depth] /\ freeBlocks' = freeBlocks - 1
      /\ allocpos' = Succ(allocpos) /\ freelist' = freelist /\ freepos' = freepos
      /\ queueData' = queueData
  BY DEF Alloc, queue
<1>3. /\ ret' \in Pool /\ Pool' = Pool \ {ret'}
      /\ Distinct(freelist', From(allocpos', freeBlocks'))
  <2>1. /\ freelist[allocpos % Depth] \in Within(freelist, allocpos, freeBlocks)
        /\ Within(freelist, Succ(allocpos), freeBlocks - 1) =
             Within(freelist, allocpos, freeBlocks) \ {freelist[allocpos % Depth]}
        /\ Distinct(freelist, From(Succ(allocpos), freeBlocks - 1))
    BY <1>1, TakeFirst
  <2>2. Pool' = Within(freelist', allocpos', freeBlocks')
    BY DEF Pool, Within, From
  <2> QED BY <1>2, <2>1, <2>2, PoolIsWithin
<1>4. freepos' % Depth = (allocpos' + freeBlocks') % Depth
  <2>1. (Succ(allocpos) + (freeBlocks - 1)) % Depth = (allocpos + ((freeBlocks - 1) + 1)) % Depth
    BY <1>1, SuccAhead, DepthAssumption
  <2>2. (freeBlocks - 1) + 1 = freeBlocks
    BY <1>1
  <2> QED BY <1>1, <1>2, <2>1, <2>2
<1>5. Cardinality(Pool') = freeBlocks'
  BY <1>1, <1>2, <1>3, SizeOf
<1>6. PoolSound'
  <2>1. freeBlocks' \in 0 .. Depth
    BY <1>1, <1>2, DepthAssumption
  <2> QED BY <2>1, <1>3, <1>4, <1>5 DEF PoolSound
<1> QED BY <1>2, <1>3, <1>6 DEF Queued

LEMMA FreeGives ==
  ASSUME IInv, NEW m \in Msg, Free(m)
  PROVE  /\ Pool' = Pool \union {m} /\ Queued' = Queued
         /\ PoolSound' /\ freelist' \in [Slot -> Msg]
<1> DEFINE e == freepos % Depth
<1>1. /\ freelist \in [Slot -> Msg] /\ allocpos \in Position /\ freepos \in Position
      /\ freeBlocks \in 0 .. Depth /\ Cardinality(Pool) = freeBlocks
      /\ Distinct(freelist, From(allocpos, freeBlocks)) /\ Pool \subseteq Msg
      /\ e = (allocpos + freeBlocks) % Depth
      /\ m \notin Pool
  BY DEF IInv, TypeOK, PoolSound, OneOwner, Position, Free
<1>2. /\ freelist' = [freelist EXCEPT ![e] = m] /\ freeBlocks' = freeBlocks + 1
      /\ freepos' = Succ(freepos) /\ allocpos' = allocpos /\ queueData' = queueData
  BY DEF Free, queue
<1>3. freeBlocks \in 0 .. Depth - 1
  BY <1>1, Full, DepthAssumption
<1>4. /\ e \in Slot /\ e \notin From(allocpos, freeBlocks)
      /\ From(allocpos, freeBlocks + 1) = From(allocpos, freeBlocks) \union {e}
  BY <1>1, <1>3, FromLast
<1>5. freepos' % Depth = (allocpos' + freeBlocks') % Depth
  BY <1>1, <1>2, <1>3, Together
<1> HIDE DEF e
<1>6. /\ freelist' \in [Slot -> Msg] /\ Pool' = Pool \union {m}
      /\ Distinct(freelist', From(allocpos', freeBlocks'))
  <2>1. From(allocpos, freeBlocks) \subseteq Slot
    BY <1>1, FromSlots
  <2>2. From(allocpos', freeBlocks') = From(allocpos, freeBlocks) \union {e}
    BY <1>2, <1>4
  <2>3. /\ freelist' \in [Slot -> Msg] /\ freelist'[e] = m
        /\ \A s \in From(allocpos, freeBlocks) : freelist'[s] = freelist[s]
    BY <1>1, <1>2, <1>4, <2>1
  <2>4. Pool' = {freelist'[s] : s \in From(allocpos', freeBlocks')}
    BY DEF Pool, From
  <2>5. Pool' = Pool \union {m}
    BY <2>2, <2>3, <2>4 DEF Pool
  <2>6. Distinct(freelist', From(allocpos', freeBlocks'))
    BY <1>1, <2>2, <2>3 DEF Pool, Distinct
  <2> QED BY <2>3, <2>5, <2>6
<1>7. Cardinality(Pool') = freeBlocks'
  BY <1>1, <1>2, <1>6, SizeOf
<1>8. PoolSound'
  <2>1. freeBlocks' \in 0 .. Depth
    BY <1>2, <1>3, DepthAssumption
  <2> QED BY <2>1, <1>5, <1>6, <1>7 DEF PoolSound
<1> QED BY <1>2, <1>6, <1>8 DEF Queued

LEMMA WriteQueues ==
  ASSUME IInv, NEW m \in Msg, Write(m)
  PROVE  /\ Queued' = Queued \union {m} /\ Pool' = Pool
         /\ QueueSound' /\ queueData' \in [Slot -> Msg \union {Null}]
         /\ entries < Depth
         /\ writepos % Depth \in Slot \ From(readpos, entries)
<1> DEFINE e == writepos % Depth
<1>1. /\ queueData \in [Slot -> Msg \union {Null}] /\ readpos \in Position /\ writepos \in Position
      /\ entries \in 0 .. Depth /\ Cardinality(Queued) = entries /\ Queued \subseteq Msg
      /\ e = (readpos + entries) % Depth
      /\ \A s \in Slot : queueData[s] # Null <=> s \in From(readpos, entries)
      /\ \A s, t \in Slot : queueData[s] = queueData[t] /\ queueData[s] # Null => s = t
      /\ m \notin Queued /\ Null \notin Msg
  BY NullAssumption DEF IInv, TypeOK, QueueSound, OneOwner, Position, Write, Msg
<1>2. /\ queueData' = [queueData EXCEPT ![e] = m] /\ entries' = entries + 1
      /\ writepos' = Succ(writepos) /\ readpos' = readpos
      /\ freelist' = freelist /\ allocpos' = allocpos /\ freeBlocks' = freeBlocks
  BY DEF Write, allocator
<1>3. entries \in 0 .. Depth - 1
  BY <1>1, Full, DepthAssumption
<1>4. /\ e \in Slot /\ e \notin From(readpos, entries)
      /\ From(readpos, entries + 1) = From(readpos, entries) \union {e}
  BY <1>1, <1>3, FromLast
<1>5. From(readpos', entries') = From(readpos, entries) \union {e}
  BY <1>2, <1>4
<1>6. writepos' % Depth = (readpos' + entries') % Depth
  BY <1>1, <1>2, <1>3, Together
<1> HIDE DEF e
<1>7. /\ queueData' \in [Slot -> Msg \union {Null}] /\ queueData'[e] = m
      /\ \A s \in Slot \ {e} : queueData'[s] = queueData[s]
      /\ queueData[e] = Null
  BY <1>1, <1>2, <1>4
<1>8. Queued' = Queued \union {m}
  BY <1>1, <1>4, <1>7 DEF Queued
<1>9. \A s \in Slot : queueData'[s] # Null <=> s \in From(readpos', entries')
  BY <1>1, <1>4, <1>5, <1>7
<1>10. \A s, t \in Slot : queueData'[s] = queueData'[t] /\ queueData'[s] # Null => s = t
  <2>1. \A s \in Slot : queueData[s] # m
    BY <1>1 DEF Queued
  <2> QED BY <1>1, <1>7, <2>1
<1>11. Cardinality(Queued') = entries'
  BY <1>1, <1>2, <1>8, SizeOf
<1>12. QueueSound'
  <2>1. entries' \in 0 .. Depth
    BY <1>2, <1>3, DepthAssumption
  <2> QED BY <2>1, <1>6, <1>9, <1>10, <1>11 DEF QueueSound
<1>13. Pool' = Pool /\ entries < Depth
  <2>1. Pool' = Pool
    BY <1>2 DEF Pool, From
  <2> QED BY <2>1, <1>3, DepthAssumption
<1> QED BY <1>4, <1>7, <1>8, <1>12, <1>13 DEF e

LEMMA ReadUnqueues ==
  ASSUME IInv, Tryread, entries > 0
  PROVE  /\ ret' \in Queued /\ Queued' = Queued \ {ret'} /\ Pool' = Pool
         /\ QueueSound' /\ queueData' \in [Slot -> Msg \union {Null}]
         /\ ret' = queueData[readpos % Depth]
<1> DEFINE e == readpos % Depth
<1>1. /\ queueData \in [Slot -> Msg \union {Null}] /\ readpos \in Position
      /\ entries \in 1 .. Depth /\ Cardinality(Queued) = entries /\ Queued \subseteq Msg
      /\ writepos % Depth = (readpos + entries) % Depth
      /\ \A s \in Slot : queueData[s] # Null <=> s \in From(readpos, entries)
      /\ \A s, t \in Slot : queueData[s] = queueData[t] /\ queueData[s] # Null => s = t
      /\ Null \notin Msg
  BY NullAssumption, DepthAssumption DEF IInv, TypeOK, QueueSound, OneOwner, Position, Msg
<1>2. /\ queueData' = [queueData EXCEPT ![e] = Null] /\ entries' = entries - 1
      /\ readpos' = Succ(readpos) /\ writepos' = writepos /\ ret' = queueData[e]
      /\ freelist' = freelist /\ allocpos' = allocpos /\ freeBlocks' = freeBlocks
  BY DEF Tryread, allocator
<1>3. /\ e \in Slot /\ e \in From(readpos, entries)
      /\ From(Succ(readpos), entries - 1) = From(readpos, entries) \ {e}
  BY <1>1, FromFirst
<1>4. From(readpos', entries') = From(readpos, entries) \ {e}
  BY <1>2, <1>3
<1>5. writepos' % Depth = (readpos' + entries') % Depth
  <2>1. (Succ(readpos) + (entries - 1)) % Depth = (readpos + ((entries - 1) + 1)) % Depth
    BY <1>1, SuccAhead, DepthAssumption
  <2>2. (entries - 1) + 1 = entries
    BY <1>1
  <2> QED BY <1>1, <1>2, <2>1, <2>2
<1> HIDE DEF e
<1>6. /\ queueData' \in [Slot -> Msg \union {Null}] /\ queueData'[e] = Null
      /\ \A s \in Slot \ {e} : queueData'[s] = queueData[s]
      /\ queueData[e] # Null
  BY <1>1, <1>2, <1>3
<1>7. ret' \in Queued /\ Queued' = Queued \ {ret'}
  BY <1>1, <1>2, <1>3, <1>6 DEF Queued
<1>8. \A s \in Slot : queueData'[s] # Null <=> s \in From(readpos', entries')
  BY <1>1, <1>3, <1>4, <1>6
<1>9. \A s, t \in Slot : queueData'[s] = queueData'[t] /\ queueData'[s] # Null => s = t
  BY <1>1, <1>6
<1>10. Cardinality(Queued') = entries'
  BY <1>1, <1>2, <1>7, SizeOf
<1>11. QueueSound'
  <2>1. entries' \in 0 .. Depth
    BY <1>1, <1>2, DepthAssumption
  <2> QED BY <2>1, <1>5, <1>8, <1>9, <1>10 DEF QueueSound
<1>12. Pool' = Pool
  BY <1>2 DEF Pool, From
<1> QED BY <1>2, <1>6, <1>7, <1>11, <1>12 DEF e

-----------------------------------------------------------------------------
(* Each call keeps the invariant.                                            *)

\* Clients that never read an empty queue, though the header lets them.
Calm == ~Eager

LEMMA HeapIsRequest == {Request[i] : i \in 1 .. Len(Request)} = {"memory", "freelist", "queue_data"}
<1>1. Len(Request) = 3 /\ 1 .. 3 = {1, 2, 3}
  BY DEF Request
<1> QED BY <1>1 DEF Request

LEMMA InitInv == Init => IInv
<1> SUFFICES ASSUME Init PROVE IInv
  OBVIOUS
<1>1. AsFresh
  BY FreshSound DEF Init, IsFresh
<1>2. TypeOK
  <2>1. entries \in 0 .. Depth + MaxEntries /\ freeBlocks \in 0 .. Depth
    BY <1>1, DepthAssumption, EagerAssumption DEF AsFresh
  <2> QED BY <1>1, <2>1 DEF Init, TypeOK, Position, AsFresh
<1>3. DownIsFresh
  BY <1>1 DEF Init, DownIsFresh, AsFresh
<1> QED BY <1>1, <1>2, <1>3 DEF IInv, AsFresh

\* What message_queue_init and message_queue_destroy leave behind them.
LEMMA FreshSoundNext ==
  Fresh(freelist', freeBlocks', allocpos', freepos', queueData', entries', readpos', writepos')
  /\ held' = {} => AsFresh'
<1>1. Fresh(freelist', freeBlocks', allocpos', freepos', queueData', entries', readpos', writepos')
      /\ held' = {} => IsFresh'
  BY DEF IsFresh
<1>2. IsFresh' => AsFresh'
  BY FreshSound, PTL
<1> QED BY <1>1, <1>2

LEMMA Same ==
  ASSUME IInv, UNCHANGED <<allocator, queue, held>>
  PROVE  /\ PoolSound' /\ QueueSound' /\ OneOwner'
         /\ Pool' = Pool /\ Queued' = Queued
<1>1. /\ freelist' = freelist /\ freeBlocks' = freeBlocks /\ allocpos' = allocpos /\ freepos' = freepos
      /\ queueData' = queueData /\ entries' = entries /\ readpos' = readpos /\ writepos' = writepos
      /\ held' = held
  BY DEF allocator, queue
<1>2. Pool' = Pool /\ Queued' = Queued
  BY <1>1 DEF Pool, Queued, From
<1>3. PoolSound' /\ QueueSound' /\ OneOwner'
  BY <1>1, <1>2 DEF IInv, PoolSound, QueueSound, OneOwner, Distinct, From
<1> QED BY <1>2, <1>3

LEMMA QueueInitInv ==
  ASSUME IInv, NEW n \in 0 .. Len(Request), QueueInit(n)
  PROVE  IInv'
<1>1. held = {} /\ heap = {} /\ freeBlocks = Depth /\ entries = 0 /\ held' = {} /\ ret' = Null
  BY DEF IInv, DownIsFresh, QueueInit
<1>2. CASE n = Len(Request)
  <2>1. /\ AsFresh' /\ up' = TRUE
        /\ heap' = {Request[i] : i \in 1 .. n}
    BY <1>1, <1>2, FreshSoundNext DEF QueueInit
  <2>2. TypeOK'
    <3>1. entries' \in 0 .. Depth + MaxEntries /\ freeBlocks' \in 0 .. Depth
      BY <2>1, DepthAssumption, EagerAssumption DEF AsFresh
    <3> QED BY <1>1, <1>2, <2>1, <3>1 DEF TypeOK, Position, AsFresh
  <2> QED BY <2>1, <2>2 DEF IInv, AsFresh, DownIsFresh
<1>3. CASE n # Len(Request)
  <2>1. /\ UNCHANGED <<up, allocator, queue, held>>
        /\ heap' = {Request[i] : i \in 1 .. n} \ Freed(n)
    BY <1>3 DEF QueueInit
  <2>2. heap' = {}
    <3>1. n = 0 \/ n = 1 \/ n = 2
      BY <1>3 DEF Request
    <3>2. CASE n = 0
      BY <2>1, <3>2
    <3>3. CASE n = 1
      <4>1. 1 .. 1 = {1}
        OBVIOUS
      <4> QED BY <2>1, <3>3, <4>1 DEF Request, Freed
    <3>4. CASE n = 2
      <4>1. 1 .. 2 = {1, 2}
        OBVIOUS
      <4> QED BY <2>1, <3>4, <4>1 DEF Request, Freed
    <3> QED BY <3>1, <3>2, <3>3, <3>4
  <2>3. PoolSound' /\ QueueSound' /\ OneOwner'
    BY <2>1, Same
  <2>4. TypeOK' /\ DownIsFresh'
    BY <1>1, <2>1, <2>2 DEF IInv, TypeOK, DownIsFresh, allocator, queue
  <2> QED BY <2>3, <2>4 DEF IInv
<1> QED BY <1>2, <1>3

LEMMA QueueDestroyInv ==
  ASSUME IInv, QueueDestroy
  PROVE  IInv'
<1>1. /\ AsFresh' /\ held' = {} /\ ret' = Null /\ up' = FALSE
      /\ heap' = heap \ {"queue_data", "freelist", "memory"}
  BY FreshSoundNext DEF QueueDestroy
<1>2. heap' = {}
  BY <1>1, HeapIsRequest DEF IInv, TypeOK
<1>3. TypeOK'
  <2>1. entries' \in 0 .. Depth + MaxEntries /\ freeBlocks' \in 0 .. Depth
    BY <1>1, DepthAssumption, EagerAssumption DEF AsFresh
  <2> QED BY <1>1, <1>2, <2>1 DEF TypeOK, Position, AsFresh
<1> QED BY <1>1, <1>2, <1>3 DEF IInv, AsFresh, DownIsFresh

LEMMA AllocInv ==
  ASSUME IInv, Alloc
  PROVE  IInv'
<1>1. CASE freeBlocks > 0
  <2>1. /\ ret' \in Pool /\ Pool' = Pool \ {ret'} /\ Queued' = Queued /\ PoolSound'
    BY <1>1, AllocTakes
  <2>2. /\ up /\ up' = up /\ heap' = heap /\ freelist' = freelist /\ freepos' = freepos
        /\ UNCHANGED queue /\ freeBlocks' = freeBlocks - 1 /\ allocpos' = Succ(allocpos)
        /\ held' = held \union {ret'}
    BY <1>1 DEF Alloc
  <2>3. OneOwner' /\ held' \subseteq Msg /\ ret' \in Msg
    BY <2>1, <2>2 DEF IInv, OneOwner
  <2>4. QueueSound'
    BY <2>1, <2>2 DEF IInv, QueueSound, queue, From
  <2>5. TypeOK'
    <3>1. Succ(allocpos) \in Position
      BY SuccSlot DEF IInv, TypeOK, Position
    <3>2. freeBlocks' \in 0 .. Depth
      BY <2>1 DEF PoolSound
    <3> QED BY <2>2, <2>3, <3>1, <3>2 DEF IInv, TypeOK, queue, Position
  <2> QED BY <2>1, <2>2, <2>3, <2>4, <2>5 DEF IInv, DownIsFresh
<1>2. CASE ~(freeBlocks > 0)
  <2>1. UNCHANGED <<up, heap, allocator, queue, held>> /\ ret' = Null
    BY <1>2 DEF Alloc, allocator
  <2>2. PoolSound' /\ QueueSound' /\ OneOwner'
    BY <2>1, Same
  <2>3. TypeOK' /\ DownIsFresh'
    BY <2>1 DEF IInv, TypeOK, DownIsFresh, allocator, queue
  <2> QED BY <2>2, <2>3 DEF IInv
<1> QED BY <1>1, <1>2

LEMMA FreeInv ==
  ASSUME IInv, NEW m \in Msg, Free(m)
  PROVE  IInv'
<1>1. /\ Pool' = Pool \union {m} /\ Queued' = Queued /\ PoolSound' /\ freelist' \in [Slot -> Msg]
  BY FreeGives
<1>2. /\ up /\ up' = up /\ heap' = heap /\ allocpos' = allocpos /\ freepos' = Succ(freepos)
      /\ UNCHANGED queue /\ held' = held \ {m} /\ m \in held /\ ret' = Null
  BY DEF Free
<1>3. OneOwner'
  BY <1>1, <1>2 DEF IInv, OneOwner
<1>4. QueueSound'
  BY <1>1, <1>2 DEF IInv, QueueSound, queue, From
<1>5. TypeOK'
  <2>1. Succ(freepos) \in Position
    BY SuccSlot DEF IInv, TypeOK, Position
  <2>2. freeBlocks' \in 0 .. Depth
    BY <1>1 DEF PoolSound
  <2> QED BY <1>1, <1>2, <2>1, <2>2 DEF IInv, TypeOK, queue, Position
<1> QED BY <1>1, <1>2, <1>3, <1>4, <1>5 DEF IInv, DownIsFresh

LEMMA WriteInv ==
  ASSUME IInv, NEW m \in Msg, Write(m)
  PROVE  IInv'
<1>1. /\ Queued' = Queued \union {m} /\ Pool' = Pool
      /\ QueueSound' /\ queueData' \in [Slot -> Msg \union {Null}]
  BY WriteQueues
<1>2. /\ up /\ up' = up /\ heap' = heap /\ readpos' = readpos /\ writepos' = Succ(writepos)
      /\ UNCHANGED allocator /\ held' = held \ {m} /\ m \in held /\ ret' = Null
  BY DEF Write
<1>3. OneOwner'
  BY <1>1, <1>2 DEF IInv, OneOwner
<1>4. PoolSound'
  BY <1>1, <1>2 DEF IInv, PoolSound, allocator, From, Distinct
<1>5. TypeOK'
  <2>1. Succ(writepos) \in Position
    BY SuccSlot DEF IInv, TypeOK, Position
  <2>2. entries' \in 0 .. Depth + MaxEntries
    BY <1>1, DepthAssumption, EagerAssumption DEF QueueSound
  <2> QED BY <1>1, <1>2, <2>1, <2>2 DEF IInv, TypeOK, allocator, Position
<1> QED BY <1>1, <1>2, <1>3, <1>4, <1>5 DEF IInv, DownIsFresh

LEMMA TryreadInv ==
  ASSUME Calm, IInv, Tryread
  PROVE  IInv'
<1>0. entries > 0
  BY DEF Calm, Tryread
<1>1. /\ ret' \in Queued /\ Queued' = Queued \ {ret'} /\ Pool' = Pool
      /\ QueueSound' /\ queueData' \in [Slot -> Msg \union {Null}]
  BY <1>0, ReadUnqueues
<1>2. /\ up /\ up' = up /\ heap' = heap /\ readpos' = Succ(readpos) /\ writepos' = writepos
      /\ UNCHANGED allocator /\ held' = held \union ({ret'} \ {Null})
  BY <1>0 DEF Tryread
<1>3. OneOwner' /\ held' \subseteq Msg /\ ret' \in Msg
  BY <1>1, <1>2 DEF IInv, OneOwner, Queued
<1>4. PoolSound'
  BY <1>1, <1>2 DEF IInv, PoolSound, allocator, From, Distinct
<1>5. TypeOK'
  <2>1. Succ(readpos) \in Position
    BY SuccSlot DEF IInv, TypeOK, Position
  <2>2. entries' \in 0 .. Depth + MaxEntries
    BY <1>1, DepthAssumption, EagerAssumption DEF QueueSound
  <2> QED BY <1>1, <1>2, <1>3, <2>1, <2>2 DEF IInv, TypeOK, allocator, Position
<1> QED BY <1>1, <1>2, <1>3, <1>4, <1>5 DEF IInv, DownIsFresh

LEMMA StepInv == Calm /\ IInv /\ [Next]_vars => IInv'
<1> SUFFICES ASSUME Calm, IInv, [Next]_vars PROVE IInv'
  OBVIOUS
<1>1. CASE UNCHANGED vars
  <2>1. UNCHANGED <<up, heap, allocator, queue, held, ret>>
    BY <1>1 DEF vars
  <2>2. PoolSound' /\ QueueSound' /\ OneOwner'
    BY <2>1, Same
  <2> QED BY <2>1, <2>2 DEF IInv, TypeOK, DownIsFresh, allocator, queue
<1>2. CASE Next
  BY <1>2, QueueInitInv, QueueDestroyInv, AllocInv, TryreadInv, FreeInv, WriteInv DEF Next
<1> QED BY <1>1, <1>2

LEMMA Invariance == Calm /\ Spec => []IInv
<1>1. CASE Calm
  <2>1. IInv /\ [Next]_vars => IInv'
    BY <1>1, StepInv
  <2> QED BY <2>1, InitInv, PTL DEF Spec
<1>2. CASE ~Calm
  BY <1>2
<1> QED BY <1>1, <1>2

\* The positions stay unsigned ints and every slot names a block or nothing,
\* in every order of message_queue.c's calls, if nobody reads an empty queue.
THEOREM TypeCorrect == Calm /\ Spec => []TypeOK
<1>1. IInv => TypeOK
  BY DEF IInv
<1> QED BY <1>1, Invariance, PTL

\* Whatever the clients allocate, free, write and read, and wherever the four
\* positions wrap, a block is free, held or queued, and one of these
\* (message_queue.c:122-255), if nobody reads an empty queue.
THEOREM BlocksOwnedOnce == Calm /\ Spec => []EachBlockOwnedOnce
<1>1. IInv => EachBlockOwnedOnce
  BY DEF IInv, PoolSound, OneOwner, EachBlockOwnedOnce
<1> QED BY <1>1, Invariance, PTL

\* Every way out of message_queue_init that is not success, and
\* message_queue_destroy, returns all that was taken (message_queue.c:78-119).
THEOREM NothingLeaks == Spec => []NoLeak
<1> DEFINE Blocks == {"memory", "freelist", "queue_data"}
           Owed == heap \subseteq Blocks /\ NoLeak
<1>1. Init => Owed
  BY DEF Init, NoLeak
<1>2. Owed /\ [Next]_vars => Owed'
  <2> SUFFICES ASSUME Owed, [Next]_vars PROVE Owed'
    OBVIOUS
  <2>1. /\ {Request[k] : k \in 1 .. 0} = {}
        /\ {Request[k] : k \in 1 .. 1} = {"memory"}
        /\ {Request[k] : k \in 1 .. 2} = {"memory", "freelist"}
        /\ {Request[k] : k \in 1 .. 3} = Blocks
    BY DEF Request
  <2>2. ASSUME NEW n \in 0 .. Len(Request), QueueInit(n) PROVE Owed'
    <3>1. n \in 0 .. 3 /\ Len(Request) = 3
      BY DEF Request
    <3>2. CASE n = 3
      BY <3>1, <3>2, <2>1, <2>2 DEF QueueInit, NoLeak
    <3>3. CASE n \in 0 .. 2
      <4>1. {Request[k] : k \in 1 .. n} \ Freed(n) = {}
        BY <3>3, <2>1 DEF Freed
      <4> QED BY <4>1, <3>1, <3>3, <2>2 DEF QueueInit, NoLeak
    <3> QED BY <3>1, <3>2, <3>3
  <2>3. CASE QueueDestroy
    BY <2>3 DEF QueueDestroy, NoLeak
  <2>4. CASE \/ Alloc \/ Tryread \/ UNCHANGED vars
             \/ \E m \in Msg : Free(m) \/ Write(m)
    BY <2>4 DEF Alloc, Tryread, Free, Write, vars, NoLeak
  <2> QED BY <2>2, <2>3, <2>4 DEF Next
<1>3. Owed => NoLeak
  OBVIOUS
<1> QED BY <1>1, <1>2, <1>3, PTL DEF Spec

-----------------------------------------------------------------------------
(* Each call is a step of the channel.                                       *)

LEMMA FifoEmpty ==
  ASSUME entries = 0
  PROVE  Fifo = <<>>
<1>1. 1 .. entries = {}
  OBVIOUS
<1> QED BY <1>1 DEF Fifo

LEMMA AsFreshIsNew == AsFresh => Pool = Msg /\ Fifo = <<>>
BY FifoEmpty DEF AsFresh

LEMMA FifoType ==
  ASSUME IInv
  PROVE  Fifo \in Seq(Msg) /\ Len(Fifo) = entries
<1>1. ASSUME NEW i \in 1 .. entries
      PROVE  queueData[(readpos + i - 1) % Depth] \in Msg
  <2>1. readpos + i - 1 = readpos + (i - 1) /\ i - 1 \in 0 .. entries - 1
        /\ i - 1 \in 0 .. Depth /\ readpos \in Int
    BY WrapAssumption, DepthAssumption DEF IInv, QueueSound, TypeOK
  <2>2. (readpos + (i - 1)) % Depth \in Slot
    BY <2>1, Ahead
  <2>3. (readpos + (i - 1)) % Depth \in From(readpos, entries)
    BY <2>1 DEF From
  <2> QED BY <2>1, <2>2, <2>3 DEF IInv, QueueSound, TypeOK
<1>2. entries \in Nat
  BY DepthAssumption DEF IInv, QueueSound
<1> QED BY <1>1, <1>2 DEF Fifo

LEMMA FifoSame ==
  ASSUME UNCHANGED <<queueData, entries, readpos>>
  PROVE  Fifo' = Fifo
BY DEF Fifo

LEMMA WriteAppends ==
  ASSUME IInv, NEW m \in Msg, Write(m)
  PROVE  Fifo' = Append(Fifo, m)
<1> DEFINE e == writepos % Depth
           slot(i) == (readpos + i - 1) % Depth
<1>1. /\ queueData' = [queueData EXCEPT ![e] = m] /\ entries' = entries + 1 /\ readpos' = readpos
      /\ entries \in 0 .. Depth /\ readpos \in Int
      /\ queueData \in [Slot -> Msg \union {Null}]
      /\ e = (readpos + entries) % Depth
  BY WrapAssumption DEF IInv, TypeOK, QueueSound, Write
<1>2. slot(entries + 1) = e /\ e \in Slot \ From(readpos, entries)
  <2>1. readpos + (entries + 1) - 1 = readpos + entries
    BY <1>1
  <2> QED BY <1>1, <2>1, WriteQueues
<1>3. ASSUME NEW i \in 1 .. entries
      PROVE  slot(i) \in Slot /\ slot(i) # e
  <2>1. readpos + i - 1 = readpos + (i - 1) /\ i - 1 \in 0 .. entries - 1 /\ i - 1 \in 0 .. Depth
    <3>1. entries \in 0 .. Depth /\ readpos \in Int
      BY <1>1
    <3> QED BY <3>1, DepthAssumption
  <2>2. slot(i) \in From(readpos, entries)
    BY <2>1 DEF From
  <2>3. slot(i) \in Slot
    BY <2>1, <1>1, Ahead
  <2> QED BY <1>2, <2>2, <2>3
<1>4. Fifo' = [i \in 1 .. entries + 1 |-> queueData'[slot(i)]]
  BY <1>1 DEF Fifo
<1>5. Fifo = [i \in 1 .. entries |-> queueData[slot(i)]]
  BY DEF Fifo
<1> HIDE DEF e, slot
<1>6. \A i \in 1 .. entries : queueData'[slot(i)] = queueData[slot(i)]
  BY <1>1, <1>3
<1>7. queueData'[slot(entries + 1)] = m
  BY <1>1, <1>2
<1>8. Fifo \in Seq(Msg) /\ Len(Fifo) = entries
  BY FifoType
<1> QED BY <1>1, <1>4, <1>5, <1>6, <1>7, <1>8

LEMMA TailIs ==
  ASSUME NEW M, NEW s \in Seq(M), s # <<>>
  PROVE  Tail(s) = [i \in 1 .. Len(s) - 1 |-> s[i + 1]]
<1> DEFINE t == [i \in 1 .. Len(s) - 1 |-> s[i + 1]]
<1>1. t \in Seq(M) /\ Len(t) = Len(s) - 1 /\ \A i \in 1 .. Len(t) : t[i] = s[i + 1]
  OBVIOUS
<1>2. /\ Tail(s) \in Seq(M) /\ Len(Tail(s)) = Len(s) - 1
      /\ \A i \in 1 .. Len(Tail(s)) : Tail(s)[i] = s[i + 1]
  OBVIOUS
<1> HIDE DEF t
<1>3. Tail(s) = t
  BY <1>1, <1>2, SeqEqual
<1> QED BY <1>3 DEF t

LEMMA ReadTakesHead ==
  ASSUME IInv, Tryread, entries > 0
  PROVE  Fifo # <<>> /\ ret' = Head(Fifo) /\ Fifo' = Tail(Fifo)
<1> DEFINE e == readpos % Depth
           slot(i) == (readpos + i - 1) % Depth
<1>1. /\ queueData' = [queueData EXCEPT ![e] = Null] /\ entries' = entries - 1
      /\ readpos' = Succ(readpos) /\ ret' = queueData[e]
      /\ entries \in 1 .. Depth /\ readpos \in Position /\ readpos \in Int
      /\ queueData \in [Slot -> Msg \union {Null}]
  BY DepthAssumption, WrapAssumption DEF IInv, TypeOK, QueueSound, Tryread, Position
<1>2. slot(1) = e /\ e \in Slot
  <2>1. readpos + 1 - 1 = readpos /\ 0 \in 0 .. Depth
    BY <1>1, DepthAssumption
  <2> QED BY <1>1, <2>1, Ahead
<1>3. ASSUME NEW i \in 1 .. entries - 1
      PROVE  /\ (Succ(readpos) + i - 1) % Depth = slot(i + 1)
             /\ slot(i + 1) \in Slot /\ slot(i + 1) # e
  <2>1. /\ Succ(readpos) + i - 1 = Succ(readpos) + (i - 1)
        /\ readpos + (i + 1) - 1 = readpos + ((i - 1) + 1)
        /\ readpos + (i + 1) - 1 = readpos + i
        /\ i - 1 \in 0 .. Depth - 1 /\ i \in 0 .. Depth /\ i \in 0 .. Depth - 1 /\ i # 0
        /\ 0 \in 0 .. Depth - 1 /\ readpos + 0 = readpos
    BY <1>1, SuccSlot, DepthAssumption, WrapAssumption DEF Position
  <2>2. (Succ(readpos) + (i - 1)) % Depth = (readpos + ((i - 1) + 1)) % Depth
    BY <1>1, <2>1, SuccAhead
  <2>3. (readpos + i) % Depth \in Slot
    BY <1>1, <2>1, Ahead
  <2>4. (readpos + i) % Depth # (readpos + 0) % Depth
    BY <1>1, <2>1, AheadInjective
  <2> QED BY <2>1, <2>2, <2>3, <2>4
<1>4. Fifo' = [i \in 1 .. entries - 1 |-> queueData'[(Succ(readpos) + i - 1) % Depth]]
  BY <1>1 DEF Fifo
<1>5. Fifo = [i \in 1 .. entries |-> queueData[slot(i)]]
  BY DEF Fifo
<1>6. Fifo' = [i \in 1 .. entries - 1 |-> queueData'[slot(i + 1)]]
  BY <1>3, <1>4
<1> HIDE DEF e, slot
<1>7. \A i \in 1 .. entries - 1 : queueData'[slot(i + 1)] = queueData[slot(i + 1)]
  BY <1>1, <1>3
<1>8. Fifo \in Seq(Msg) /\ Len(Fifo) = entries
  BY FifoType
<1>9. Fifo # <<>> /\ Head(Fifo) = ret'
  BY <1>1, <1>2, <1>5, <1>8
<1>10. Tail(Fifo) = [i \in 1 .. entries - 1 |-> Fifo[i + 1]]
  BY <1>8, <1>9, TailIs
<1> QED BY <1>1, <1>5, <1>6, <1>7, <1>9, <1>10

LEMMA ChannelInit == Init => Channel!Init
<1> SUFFICES ASSUME Init PROVE Channel!Init
  OBVIOUS
<1>1. AsFresh /\ held = {} /\ ret = Null
  BY FreshSound DEF Init, IsFresh
<1> QED BY <1>1, AsFreshIsNew DEF Channel!Init

LEMMA ChannelStep == Calm /\ IInv /\ [Next]_vars => [Channel!Next]_(Channel!chan)
<1> SUFFICES ASSUME Calm, IInv, [Next]_vars PROVE [Channel!Next]_(Channel!chan)
  OBVIOUS
<1> USE DEF Channel!Next
<1>1. ASSUME NEW n \in 0 .. Len(Request), QueueInit(n) PROVE Channel!Renew
  <2>1. held' = {} /\ ret' = Null
    BY <1>1 DEF IInv, DownIsFresh, QueueInit
  <2>2. CASE n = Len(Request)
    <3>1. AsFresh'
      BY <1>1, <2>1, <2>2, FreshSoundNext DEF QueueInit
    <3>2. AsFresh' => (Pool = Msg /\ Fifo = <<>>)'
      BY AsFreshIsNew, PTL
    <3> QED BY <2>1, <3>1, <3>2 DEF Channel!Renew
  <2>3. CASE n # Len(Request)
    <3>1. UNCHANGED <<allocator, queue, held>> /\ held = {} /\ freeBlocks = Depth /\ entries = 0
      BY <1>1, <2>3 DEF QueueInit, IInv, DownIsFresh
    <3>2. Pool' = Pool /\ Queued' = Queued /\ Fifo' = Fifo
      BY <3>1, Same, FifoSame DEF queue
    <3>3. Fifo = <<>>
      BY <3>1, FifoEmpty
    <3>4. Pool = Msg
      BY <3>1, Full DEF IInv, PoolSound, OneOwner
    <3> QED BY <2>1, <3>2, <3>3, <3>4 DEF Channel!Renew
  <2> QED BY <2>2, <2>3
<1>2. ASSUME QueueDestroy PROVE Channel!Renew
  <2>1. AsFresh' /\ held' = {} /\ ret' = Null
    BY <1>2, FreshSoundNext DEF QueueDestroy
  <2>2. AsFresh' => (Pool = Msg /\ Fifo = <<>>)'
    BY AsFreshIsNew, PTL
  <2> QED BY <2>1, <2>2 DEF Channel!Renew
<1>3. ASSUME Alloc PROVE Channel!Alloc
  <2>1. Fifo' = Fifo
    BY <1>3, FifoSame DEF Alloc, queue
  <2>2. CASE freeBlocks > 0
    <3>1. ret' \in Pool /\ Pool' = Pool \ {ret'} /\ held' = held \union {ret'}
      BY <1>3, <2>2, AllocTakes DEF Alloc
    <3> QED BY <2>1, <3>1 DEF Channel!Alloc
  <2>3. CASE ~(freeBlocks > 0)
    <3>1. UNCHANGED <<allocator, queue, held>> /\ ret' = Null
      BY <1>3, <2>3 DEF Alloc, allocator
    <3>2. Pool' = Pool
      BY <3>1, Same
    <3>3. Pool = {}
      <4>1. freeBlocks = 0
        BY <2>3 DEF IInv, PoolSound
      <4>2. From(allocpos, freeBlocks) = {}
        BY <4>1 DEF From
      <4> QED BY <4>2 DEF Pool
    <3> QED BY <2>1, <3>1, <3>2, <3>3 DEF Channel!Alloc
  <2> QED BY <2>2, <2>3
<1>4. ASSUME NEW m \in Msg, Free(m) PROVE Channel!Free
  <2>1. Pool' = Pool \union {m}
    BY <1>4, FreeGives
  <2>2. Fifo' = Fifo /\ m \in held /\ held' = held \ {m} /\ ret' = Null
    BY <1>4, FifoSame DEF Free, queue
  <2> QED BY <2>1, <2>2 DEF Channel!Free
<1>5. ASSUME NEW m \in Msg, Write(m) PROVE Channel!Write
  <2>1. Pool' = Pool
    BY <1>5, WriteQueues
  <2>2. Fifo' = Append(Fifo, m)
    BY <1>5, WriteAppends
  <2>3. m \in held /\ held' = held \ {m} /\ ret' = Null
    BY <1>5 DEF Write
  <2> QED BY <2>1, <2>2, <2>3 DEF Channel!Write
<1>6. ASSUME Tryread PROVE Channel!Read
  <2>0. entries > 0
    BY <1>6 DEF Calm, Tryread
  <2>1. Pool' = Pool /\ ret' \in Queued
    BY <1>6, <2>0, ReadUnqueues
  <2>2. Fifo # <<>> /\ ret' = Head(Fifo) /\ Fifo' = Tail(Fifo)
    BY <1>6, <2>0, ReadTakesHead
  <2>3. held' = held \union ({ret'} \ {Null}) /\ ret' # Null
    BY <1>6, <2>0, <2>1 DEF Tryread, Queued
  <2> QED BY <2>1, <2>2, <2>3 DEF Channel!Read
<1>7. ASSUME UNCHANGED vars PROVE UNCHANGED Channel!chan
  <2>1. UNCHANGED <<allocator, queue, held, ret>>
    BY <1>7 DEF vars
  <2>2. Pool' = Pool /\ Fifo' = Fifo
    BY <2>1, Same, FifoSame DEF queue
  <2> QED BY <2>1, <2>2 DEF Channel!chan
<1> QED BY <1>1, <1>2, <1>3, <1>4, <1>5, <1>6, <1>7 DEF Next

\* The two arrays and the four positions together behave as the channel of
\* message_queue.h: what was written first is read first, and what is given
\* out, is given out from the pool or the front of the queue.  Nobody reads an
\* empty queue, and the calls that by the header wait for memory or for a message
\* return NULL instead, in the channel as in the code.
THEOREM Refinement == Calm /\ Spec => ImplementsChannel
<1>1. CASE Calm
  <2>1. IInv /\ [Next]_vars => [Channel!Next]_(Channel!chan)
    BY <1>1, ChannelStep
  <2> QED BY <1>1, <2>1, ChannelInit, Invariance, PTL DEF Spec, ImplementsChannel, Channel!Spec
<1>2. CASE ~Calm
  BY <1>2
<1> QED BY <1>1, <1>2

=============================================================================
