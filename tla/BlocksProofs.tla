----------------------------- MODULE BlocksProofs -----------------------------
(***************************************************************************)
(* What is used of blocks that fill a memory one behind the other, whoever *)
(* allocates them; and that what qmemmang and umm_malloc, which link their *)
(* blocks, keep in their memory describes it, for every size of it, all    *)
(* clients and all sequences of what they ask for.  The names of what is   *)
(* proved of one allocator begin with its own.                             *)
(***************************************************************************)
EXTENDS Heaps, SequenceTheorems, FiniteSetTheorems, WellFoundedInduction, TLAPS
-----------------------------------------------------------------------------
(***************************************************************************)
(* What the clients see.  Each has written every cell of its block, so     *)
(* what Heap says is about where the blocks are and how long.              *)
(***************************************************************************)
\* What h has written in a block of n cells.
HeapWords(h, n) == [i \in 1 .. n |-> <<h, i>>]
HeapContent(len) == [g \in Handle |-> HeapWords(g, len[g])]

HeapExtent(a, c, g) == a[g] .. a[g] + Len(c[g]) - 1

\* Heap's Rooms, with the blocks at a and c in them, in the memory P.
HeapRooms(a, c, P, h, n) ==
  LET open == P \ UNION {HeapExtent(a, c, g) : g \in Handle \ {h}}
  IN  {b \in open : b .. b + n - 1 \subseteq open}

\* The cells from a on are P's, and nobody's but h's in blocks at at of len cells.
HeapFits(at, len, P, h, b, n) ==
  /\ b .. b + n - 1 \subseteq P
  /\ \A g \in Handle \ {h} : (b .. b + n - 1) \intersect (at[g] .. at[g] + len[g] - 1) = {}

\* Heap's Moved.
HeapMoved(at, c, P, h) ==
  {a \in [Handle -> P \union {0}] :
     /\ a[h] = 0
     /\ \A g \in Handle \ {h} :
          IF at[g] = 0 THEN a[g] = 0
          ELSE /\ HeapExtent(a, c, g) \subseteq P
               /\ \A f \in Handle \ {g} : a[f] = 0 \/ HeapExtent(a, c, f) \intersect HeapExtent(a, c, g) = {}}

LEMMA HeapWordsAre ==
  ASSUME NEW h, NEW n \in Nat
  PROVE  /\ Len(HeapWords(h, n)) = n /\ DOMAIN HeapWords(h, n) = 1 .. n
         /\ \A i \in 1 .. n : HeapWords(h, n)[i] = <<h, i>>
         /\ n = 0 => HeapWords(h, n) = <<>>
<1>1. HeapWords(h, n) \in Seq({<<h, i>> : i \in 1 .. n})
  BY DEF HeapWords
<1>2. DOMAIN HeapWords(h, n) = 1 .. n /\ \A i \in 1 .. n : HeapWords(h, n)[i] = <<h, i>>
  BY DEF HeapWords
<1>3. Len(HeapWords(h, n)) = n
  BY <1>1, <1>2
<1> QED BY <1>1, <1>2, <1>3

\* What is in h's block of n cells if the contents were w.
HeapLonger(w, h, n) == [i \in 1 .. n |-> IF i <= Len(w) THEN w[i] ELSE <<h, i>>]

LEMMA HeapGrown ==
  ASSUME NEW h, NEW k \in Nat, NEW n \in Nat
  PROVE  HeapLonger(HeapWords(h, k), h, n) = HeapWords(h, n)
<1>1. ASSUME NEW i \in 1 .. n
      PROVE  (IF i <= Len(HeapWords(h, k)) THEN HeapWords(h, k)[i] ELSE <<h, i>>) = <<h, i>>
  <2>1. CASE i <= k
    <3>1. i \in 1 .. k
      BY <2>1
    <3> QED BY <3>1, HeapWordsAre
  <2>2. CASE ~(i <= k)
    BY <2>2, HeapWordsAre
  <2> QED BY <2>1, <2>2
<1> QED BY <1>1 DEF HeapWords, HeapLonger

LEMMA HeapContentIs ==
  ASSUME NEW len, len \in [Handle -> Nat], NEW at, NEW g \in Handle
  PROVE  /\ HeapContent(len)[g] = HeapWords(g, len[g]) /\ Len(HeapContent(len)[g]) = len[g]
         /\ HeapExtent(at, HeapContent(len), g) = at[g] .. at[g] + len[g] - 1
<1>1. HeapContent(len)[g] = HeapWords(g, len[g])
  BY DEF HeapContent
<1>2. Len(HeapContent(len)[g]) = len[g]
  BY <1>1, HeapWordsAre
<1> QED BY <1>1, <1>2 DEF HeapExtent

HeapPut(c, h, w) == [c EXCEPT ![h] = w]

\* The contents once h has a block of n cells.
LEMMA HeapGrants ==
  ASSUME NEW len, len \in [Handle -> Nat], NEW h \in Handle, NEW n \in Nat, NEW now, now = [len EXCEPT ![h] = n]
  PROVE  HeapContent(now) = HeapPut(HeapContent(len), h, HeapLonger(HeapContent(len)[h], h, n))
<1>1. HeapContent(len)[h] = HeapWords(h, len[h]) /\ len[h] \in Nat
  BY HeapContentIs
<1>2. HeapLonger(HeapContent(len)[h], h, n) = HeapWords(h, n)
  BY <1>1, HeapGrown
<1>3. HeapContent(now) = HeapPut(HeapContent(len), h, HeapWords(h, n))
  BY DEF HeapContent, HeapPut
<1> QED BY <1>2, <1>3

\* Where there is room for n cells.
LEMMA HeapRoomIs ==
  ASSUME NEW at, at \in [Handle -> Nat], NEW len, len \in [Handle -> Nat], NEW P,
         NEW h \in Handle, NEW n \in Nat, n > 0, NEW b \in Nat
  PROVE  b \in HeapRooms(at, HeapContent(len), P, h, n) <=> HeapFits(at, len, P, h, b, n)
<1> DEFINE taken == UNION {HeapExtent(at, HeapContent(len), g) : g \in Handle \ {h}}
<1>1. ASSUME NEW x
      PROVE  x \in taken <=> \E g \in Handle \ {h} : x \in at[g] .. at[g] + len[g] - 1
  <2>1. x \in taken <=> \E g \in Handle \ {h} : x \in HeapExtent(at, HeapContent(len), g)
    OBVIOUS
  <2> HIDE DEF taken
  <2>2. \A g \in Handle \ {h} : HeapExtent(at, HeapContent(len), g) = at[g] .. at[g] + len[g] - 1
    BY HeapContentIs
  <2> QED BY <2>1, <2>2
<1>2. b \in b .. b + n - 1
  OBVIOUS
<1>3. b \in HeapRooms(at, HeapContent(len), P, h, n) <=> b \in P \ taken /\ b .. b + n - 1 \subseteq P \ taken
  BY DEF HeapRooms
<1> HIDE DEF taken
<1>4. b .. b + n - 1 \subseteq P \ taken <=> HeapFits(at, len, P, h, b, n)
  BY <1>1 DEF HeapFits
<1> QED BY <1>2, <1>3, <1>4

\* A block is given back.
LEMMA HeapFreed ==
  ASSUME NEW len, len \in [Handle -> Nat], NEW h \in Handle, NEW now, now = [len EXCEPT ![h] = 0]
  PROVE  HeapContent(now) = [HeapContent(len) EXCEPT ![h] = <<>>]
<1>1. HeapWords(h, 0) = <<>>
  BY HeapWordsAre
<1> QED BY <1>1 DEF HeapContent

\* The blocks lie in the memory P, none upon another.
HeapLies(at, len, P) ==
  /\ \A g \in Handle : at[g] .. at[g] + len[g] - 1 \subseteq P
  /\ \A f, g \in Handle : f # g => (at[f] .. at[f] + len[f] - 1) \intersect (at[g] .. at[g] + len[g] - 1) = {}

\* Only h's block is another.
HeapSame(at, len, a, l, h) == \A g \in Handle \ {h} : a[g] = at[g] /\ l[g] = len[g]

\* If the blocks lie apart again, it is one that Heap grants.
LEMMA HeapGranted ==
  ASSUME NEW at \in [Handle -> Nat], NEW len \in [Handle -> Nat], NEW a \in [Handle -> Nat], NEW l \in [Handle -> Nat],
         NEW P, HeapLies(a, l, P), NEW h \in Handle, l[h] > 0, HeapSame(at, len, a, l, h)
  PROVE  /\ a = HeapPut(at, h, a[h])
         /\ HeapContent(l) = HeapPut(HeapContent(len), h, HeapLonger(HeapContent(len)[h], h, l[h]))
         /\ a[h] \in HeapRooms(at, HeapContent(len), P, h, l[h])
<1>1. a = HeapPut(at, h, a[h]) /\ l = [len EXCEPT ![h] = l[h]]
  BY DEF HeapSame, HeapPut
<1>2. HeapContent(l) = HeapPut(HeapContent(len), h, HeapLonger(HeapContent(len)[h], h, l[h]))
  BY <1>1, HeapGrants
<1>3. HeapFits(at, len, P, h, a[h], l[h])
  BY DEF HeapLies, HeapSame, HeapFits
<1>4. a[h] \in HeapRooms(at, HeapContent(len), P, h, l[h])
  BY <1>3, HeapRoomIs
<1> QED BY <1>1, <1>2, <1>4

\* h's block is gone, and nothing else is another.
HeapGone(at, len, a, l, h) ==
  /\ h \in Handle /\ at \in [Handle -> Nat] /\ len \in [Handle -> Nat]
  /\ a \in [Handle -> Nat] /\ l \in [Handle -> Nat]
  /\ l[h] = 0 /\ HeapSame(at, len, a, l, h)

LEMMA HeapTaken ==
  ASSUME NEW at, NEW len, NEW a, NEW l, NEW h, HeapGone(at, len, a, l, h)
  PROVE  /\ a = HeapPut(at, h, a[h])
         /\ HeapContent(l) = HeapPut(HeapContent(len), h, <<>>)
<1>1. a = HeapPut(at, h, a[h]) /\ l = [len EXCEPT ![h] = 0]
  BY DEF HeapGone, HeapSame, HeapPut
<1>2. len \in [Handle -> Nat] /\ h \in Handle
  BY DEF HeapGone
<1> QED BY <1>1, <1>2, HeapFreed DEF HeapPut

\* The fewest cells that will do.
LEMMA HeapNeed ==
  ASSUME NEW s \in Nat, NEW b \in Nat, NEW k \in Nat, NEW n \in 1 .. s + 1, n * b - k >= s, (n - 1) * b - k < s, b > 0
  PROVE  (CHOOSE m \in 1 .. s + 1 : m * b - k >= s /\ \A j \in 1 .. m - 1 : j * b - k < s) = n
OBVIOUS

-----------------------------------------------------------------------------
\* Every set of numbers that is not empty has a least one.
LEMMA Least ==
  ASSUME NEW S \in SUBSET Nat, S # {}
  PROVE  \E n \in S : \A m \in S : n <= m
<1> DEFINE T == {0 .. n : n \in S}
<1>1. T \subseteq FiniteSubsetsOf(Nat)
  <2> SUFFICES ASSUME NEW n \in S PROVE 0 .. n \in FiniteSubsetsOf(Nat)
    OBVIOUS
  <2>1. IsFiniteSet(0 .. n) /\ 0 .. n \subseteq Nat
    BY FS_Interval
  <2> QED BY <2>1 DEF FiniteSubsetsOf
<1>2. T # {}
  OBVIOUS
<1>3. \E x \in T : \A y \in T : ~(<<y, x>> \in StrictSubsetOrdering(Nat))
  <2> HIDE DEF T
  <2> QED BY <1>1, <1>2, WFMin, FS_StrictSubsetOrderingWellFounded
<1>4. PICK n \in S : \A m \in S : ~(<<0 .. m, 0 .. n>> \in StrictSubsetOrdering(Nat))
  BY <1>3
<1>5. ASSUME NEW m \in S, m < n PROVE FALSE
  <2>1. 0 .. m \subseteq 0 .. n /\ n \in 0 .. n /\ n \notin 0 .. m
    BY <1>5
  <2>2. <<0 .. m, 0 .. n>> \in StrictSubsetOrdering(Nat)
    BY <2>1 DEF StrictSubsetOrdering
  <2> QED BY <2>2, <1>4
<1> QED BY <1>5

LEMMA SetInduction ==
  ASSUME NEW S \in SUBSET Nat, 0 \in S, \A n \in S : n + 1 \in S
  PROVE  S = Nat
<1> SUFFICES ASSUME Nat \ S # {} PROVE FALSE
  OBVIOUS
<1>1. PICK n \in Nat \ S : \A m \in Nat \ S : n <= m
  BY Least
<1>2. n # 0 /\ n - 1 \in Nat
  BY <1>1
<1>3. n - 1 \in S
  BY <1>1, <1>2
<1> QED BY <1>3, <1>1, <1>2

\* A set of numbers below a bound that is not empty has a greatest one.
LEMMA Greatest ==
  ASSUME NEW b \in Nat, NEW S \in SUBSET (0 .. b), S # {}
  PROVE  \E n \in S : \A m \in S : m <= n
<1> DEFINE T == {b - x : x \in S}
<1>1. T \subseteq Nat /\ T # {}
  <2>1. ASSUME NEW x \in S PROVE b - x \in Nat
    <3>1. x \in 0 .. b
      OBVIOUS
    <3> QED BY <3>1
  <2>2. PICK x \in S : TRUE
    OBVIOUS
  <2>3. b - x \in T
    OBVIOUS
  <2> QED BY <2>1, <2>3
<1>2. PICK k \in T : \A m \in T : k <= m
  BY <1>1, Least
<1>3. PICK n \in S : k = b - n
  BY <1>2
<1>4. ASSUME NEW m \in S PROVE m <= n
  <2>1. b - m \in T /\ m \in Nat /\ n \in Nat
    OBVIOUS
  <2>2. b - n <= b - m
    BY <1>2, <1>3, <2>1
  <2> QED BY <2>1, <2>2
<1> QED BY <1>4

-----------------------------------------------------------------------------
(* Heads that tile the memory from lo to hi, g saying where the next one is. *)

Tiles(H, g, lo, hi) ==
  /\ H \subseteq lo .. hi /\ lo \in H /\ hi \in H
  /\ \A e \in H \ {hi} : g[e] \in H /\ e < g[e] /\ \A f \in H : e < f => g[e] <= f

\* Every head but the first follows one.
LEMMA Predecessor ==
  ASSUME NEW lo \in Nat, NEW hi \in Nat, NEW H, NEW g, Tiles(H, g, lo, hi),
         NEW e \in H, e # lo
  PROVE  \E p \in H \ {hi} : p < e /\ g[p] = e
<1> DEFINE S == {x \in H : x < e}
<1>1. H \subseteq lo .. hi /\ lo \in H
  BY DEF Tiles
<1>2. S \in SUBSET (0 .. hi) /\ S # {}
  <2>1. lo < e
    BY <1>1
  <2>2. lo \in S
    BY <1>1, <2>1
  <2>3. \A x \in lo .. hi : x \in 0 .. hi
    OBVIOUS
  <2> QED BY <1>1, <2>2, <2>3
<1>3. PICK p \in S : \A m \in S : m <= p
  BY <1>2, Greatest
<1>4. p \in H \ {hi} /\ p < e /\ p \in Nat /\ e \in Nat
  BY <1>1
<1>5. g[p] \in H /\ p < g[p] /\ g[p] <= e /\ g[p] \in Nat
  <2>1. g[p] \in H /\ p < g[p] /\ g[p] <= e
    BY <1>4 DEF Tiles
  <2>2. g[p] \in lo .. hi
    BY <1>1, <2>1
  <2> QED BY <2>1, <2>2
<1>6. ~(g[p] < e)
  BY <1>3, <1>4, <1>5
<1> QED BY <1>4, <1>5, <1>6

\* w goes where g says, as long as that is in G.
Follows(w, g, H, G, hi, N) ==
  \A i \in 1 .. N - 1 : w[i] \in H \ {hi} /\ g[w[i]] \in G => w[i + 1] = g[w[i]]
Within(G, lo, N) == \A e \in G : e - lo < N
Reaches(w, G, N) == \A e \in G : \E i \in 1 .. N : w[i] = e

\* Who goes from head to head comes to all of them, but for the last one, where
\* the walk may leave.
LEMMA WalkReaches ==
  ASSUME NEW lo \in Nat, NEW hi \in Nat, NEW H, NEW g, Tiles(H, g, lo, hi),
         NEW G, H \ {hi} \subseteq G, G \subseteq H, lo \in G,
         NEW N \in Nat, Within(G, lo, N),
         NEW w, w[1] = lo, Follows(w, g, H, G, hi, N)
  PROVE  Reaches(w, G, N)
<1> DEFINE Bad == {e \in G : ~(\E i \in 1 .. e - lo + 1 : w[i] = e)}
<1>1. H \subseteq lo .. hi
  BY DEF Tiles
<1>p. \A e \in H : e # lo => \E p \in H \ {hi} : p < e /\ g[p] = e
  <2> SUFFICES ASSUME NEW e \in H, e # lo PROVE \E p \in H \ {hi} : p < e /\ g[p] = e
    OBVIOUS
  <2>1. Tiles(H, g, lo, hi) /\ lo \in Nat /\ hi \in Nat
    OBVIOUS
  <2> QED BY ONLY <2>1, Predecessor, e \in H, e # lo
<1>2. Bad = {}
  <2> SUFFICES ASSUME Bad # {} PROVE FALSE
    OBVIOUS
  <2>1. PICK e \in Bad : \A f \in Bad : e <= f
    <3>1. Bad \in SUBSET Nat
      <4>1. ASSUME NEW x \in G PROVE x \in Nat
        <5>1. x \in lo .. hi
          BY <1>1
        <5> QED BY <5>1
      <4> QED BY <4>1
    <3> HIDE DEF Bad
    <3> QED BY <3>1, Least
  <2>2. e \in G /\ e \in lo .. hi
    BY <1>1
  <2>3. CASE e = lo
    <3>1. 1 \in 1 .. e - lo + 1
      BY <2>3
    <3> QED BY <2>3, <3>1
  <2>4. CASE e # lo
    <3>1. PICK p \in H \ {hi} : p < e /\ g[p] = e
      <4>1. e \in H
        BY <2>2
      <4> HIDE DEF Bad
      <4> QED BY <4>1, <2>4, <1>p
    <3>2. p \in lo .. hi /\ p \in G
      BY <1>1
    <3>3. p \notin Bad
      BY <2>1, <2>2, <3>1, <3>2
    <3>4. PICK i \in 1 .. p - lo + 1 : w[i] = p
      BY <3>2, <3>3
    <3>5. i \in 1 .. N - 1 /\ i + 1 \in 1 .. e - lo + 1
      BY <2>2, <3>1, <3>2 DEF Within
    <3>6. w[i + 1] = e
      BY <2>2, <3>1, <3>4, <3>5 DEF Follows
    <3> QED BY <3>5, <3>6
  <2> QED BY <2>3, <2>4
<1>3. ASSUME NEW e \in G PROVE \E i \in 1 .. N : w[i] = e
  <2>1. PICK i \in 1 .. e - lo + 1 : w[i] = e
    BY <1>2
  <2>2. i \in 1 .. N
    BY <1>1 DEF Within
  <2> QED BY <2>1, <2>2
<1> QED BY <1>3 DEF Reaches

\* A walk does not leave a set that no step leaves.
LEMMA WalkStays ==
  ASSUME NEW N \in Nat, NEW S, NEW w, w[1] \in S,
         \A i \in 1 .. N - 1 : w[i] \in S => w[i + 1] \in S
  PROVE  \A i \in 1 .. N : w[i] \in S
<1> DEFINE T == {k \in Nat : k + 1 \in 1 .. N => w[k + 1] \in S}
<1>1. 0 \in T
  OBVIOUS
<1>2. ASSUME NEW k \in T PROVE k + 1 \in T
  <2>1. CASE (k + 1) + 1 \in 1 .. N
    <3>1. k + 1 \in 1 .. N /\ k + 1 \in 1 .. N - 1
      BY <2>1
    <3>2. w[k + 1] \in S
      BY <3>1
    <3> QED BY <3>1, <3>2
  <2>2. CASE (k + 1) + 1 \notin 1 .. N
    BY <2>2
  <2> QED BY <2>1, <2>2
<1>3. T = Nat
  <2>1. T \in SUBSET Nat
    OBVIOUS
  <2> HIDE DEF T
  <2> QED BY <1>1, <1>2, <2>1, SetInduction
<1>4. ASSUME NEW i \in 1 .. N PROVE w[i] \in S
  <2>1. i - 1 \in Nat /\ (i - 1) + 1 = i
    OBVIOUS
  <2>2. i - 1 \in T
    BY <1>3, <2>1
  <2> QED BY <2>1, <2>2
<1> QED BY <1>4

\* There is a walk of any length along f.
IsWalk(w, a, f, N) == w = [i \in 1 .. N |-> IF i = 1 THEN a ELSE f[w[i - 1]]]
LEMMA WalkExists ==
  ASSUME NEW S, NEW a \in S, NEW f \in [S -> S], NEW N \in Nat
  PROVE  \E w \in [1 .. N -> S] : IsWalk(w, a, f, N)
<1> DEFINE Of(w, n) == w \in [1 .. n -> S] /\ w = [i \in 1 .. n |-> IF i = 1 THEN a ELSE f[w[i - 1]]]
           T == {n \in Nat : \E w : Of(w, n)}
<1>1. 0 \in T
  <2>1. Of([i \in 1 .. 0 |-> a], 0)
    OBVIOUS
  <2> QED BY <2>1
<1>2. ASSUME NEW n \in T PROVE n + 1 \in T
  <2>1. PICK w : Of(w, n)
    OBVIOUS
  <2> DEFINE v == [i \in 1 .. n + 1 |-> IF i = 1 THEN a ELSE f[w[i - 1]]]
  <2>2. ASSUME NEW i \in 1 .. n PROVE v[i] = w[i]
    <3>1. i \in 1 .. n + 1
      OBVIOUS
    <3>2. v[i] = IF i = 1 THEN a ELSE f[w[i - 1]]
      BY <3>1
    <3>3. w[i] = IF i = 1 THEN a ELSE f[w[i - 1]]
      BY <2>1
    <3> QED BY <3>2, <3>3
  <2>3. ASSUME NEW i \in 1 .. n + 1, i # 1 PROVE v[i - 1] = w[i - 1] /\ w[i - 1] \in S
    <3>1. i - 1 \in 1 .. n
      BY <2>3
    <3> QED BY <2>1, <2>2, <3>1
  <2>4. v = [i \in 1 .. n + 1 |-> IF i = 1 THEN a ELSE f[v[i - 1]]]
    <3>1. ASSUME NEW i \in 1 .. n + 1
          PROVE  (IF i = 1 THEN a ELSE f[w[i - 1]]) = (IF i = 1 THEN a ELSE f[v[i - 1]])
      BY <2>3
    <3> QED BY <3>1
  <2>5. v \in [1 .. n + 1 -> S]
    <3>1. ASSUME NEW i \in 1 .. n + 1 PROVE (IF i = 1 THEN a ELSE f[w[i - 1]]) \in S
      BY <2>3
    <3> QED BY <3>1
  <2>6. Of(v, n + 1)
    <3> HIDE DEF v
    <3> QED BY <2>4, <2>5
  <2> HIDE DEF Of, v
  <2> QED BY <2>6
<1>3. T = Nat
  <2>1. T \in SUBSET Nat
    OBVIOUS
  <2> HIDE DEF T
  <2> QED BY <1>1, <1>2, <2>1, SetInduction
<1>4. PICK w : Of(w, N)
  BY <1>3
<1> QED BY <1>4 DEF IsWalk

-----------------------------------------------------------------------------
(***************************************************************************)
(* qmemmang.  What is in the headers are blocks that fill the pool; those  *)
(* not given out are the list, which goes through them in the order of     *)
(* their addresses.                                                        *)
(***************************************************************************)
LEMMA QMemBounds == PoolCells \in Nat \ {0, 1} /\ PoolSizes \subseteq Nat
BY HeapsAssumption DEF Pool!PoolAssumption

QMemPlace == Pool!Cell \union {Pool!Start}

\* The type of the memory inside of an operation.
QMemMemory == [next : [QMemPlace -> Pool!Cell \union {Pool!None}], size : [QMemPlace -> Pool!Cell \union {Pool!None}],
           used : SUBSET Pool!Cell, free : Nat, data : [Pool!Cell -> {Nobody} \union (Handle \X Nat)]]

\* The structures of m are those of the blocks H, which fill the pool up to the
\* end marker.
QMemShape(m, H) ==
  /\ H \subseteq Pool!Cell /\ 0 \in H /\ Pool!End \in H
  /\ m.size[Pool!Start] = 0 /\ m.size[Pool!End] = 0
  /\ \A e \in H \ {Pool!End} : m.size[e] \in Nat /\ e < e + m.size[e] /\ e + m.size[e] \in H
  /\ \A e \in H \ {Pool!End} : \A f \in H : e < f => e + m.size[e] <= f

\* From Start on one comes by next to the blocks F in the order of their
\* addresses, and then to the end marker.
QMemLinked(m, F) ==
  \A f \in F \union {Pool!Start} :
    /\ m.next[f] \in F \union {Pool!End} /\ f < m.next[f]
    /\ \A g \in F : f < g => m.next[f] <= g

\* Q says of each block how many units the blocks before it on the list have.
QMemCounted(m, F, Q, T) ==
  /\ Q \in [F \union {Pool!End} -> Nat] /\ Q[m.next[Pool!Start]] = 0 /\ Q[Pool!End] = T
  /\ \A f \in F : Q[m.next[f]] = Q[f] + m.size[f]
  /\ \A f \in F : \A g \in F \union {Pool!End} : f < g => Q[f] + m.size[f] <= Q[g]

\* The pool m has the blocks H, of which F are on the list, T units in all.
QMemLists(m, H, F, T) ==
  /\ m \in QMemMemory /\ QMemShape(m, H) /\ F \subseteq H \ {Pool!End} /\ QMemLinked(m, F)
  /\ \E Q : QMemCounted(m, F, Q, T)

QMemHeads(m) == {c \in Pool!Cell : m.size[c] # Pool!None}
-----------------------------------------------------------------------------
LEMMA QMemCells ==
  /\ PoolCells \in Nat /\ PoolCells >= 2 /\ 0 \in Pool!Cell /\ Pool!None \notin QMemPlace /\ Pool!Cell \subseteq Nat
  /\ Pool!End \in Pool!Cell /\ Pool!End \in Nat /\ Pool!End = PoolCells - 1 /\ Pool!Start \notin Pool!Cell /\ Pool!Start < 0
  /\ Pool!Cell = 0 .. Pool!End /\ Pool!Start \in Int /\ Pool!End # 0 /\ Pool!Start # Pool!End /\ Pool!Start # Pool!None
  /\ QMemPlace = Pool!Cell \union {Pool!Start}
BY QMemBounds DEF Pool!Cell, Pool!None, Pool!End, Pool!Start, QMemPlace

LEMMA QMemMemoryIs ==
  ASSUME NEW m \in QMemMemory
  PROVE  /\ m.size \in [QMemPlace -> Pool!Cell \union {Pool!None}] /\ m.next \in [QMemPlace -> Pool!Cell \union {Pool!None}]
         /\ m.used \subseteq Pool!Cell /\ m.free \in Nat
         /\ m.data \in [Pool!Cell -> {Nobody} \union (Handle \X Nat)]
         /\ m = [next |-> m.next, size |-> m.size, used |-> m.used, free |-> m.free, data |-> m.data]
BY DEF QMemMemory

LEMMA QMemShapeIs ==
  ASSUME NEW m, NEW H, QMemShape(m, H)
  PROVE  /\ H \subseteq Pool!Cell /\ 0 \in H /\ Pool!End \in H /\ Pool!Start \notin H
         /\ \A e \in H : /\ e \in Nat /\ m.size[e] \in Nat /\ e <= Pool!End
                         /\ e # Pool!End => /\ e < Pool!End /\ m.size[e] > 0 /\ e + m.size[e] \in H
                                            /\ e + m.size[e] \in Nat /\ e + m.size[e] <= Pool!End
<1>1. H \subseteq Pool!Cell /\ 0 \in H /\ Pool!End \in H /\ Pool!Start \notin H
  BY QMemCells DEF QMemShape
<1>2. ASSUME NEW e \in H PROVE e \in Nat /\ m.size[e] \in Nat /\ e <= Pool!End
  BY <1>1, QMemCells DEF QMemShape
<1>3. ASSUME NEW e \in H, e # Pool!End
      PROVE  /\ e < Pool!End /\ m.size[e] > 0 /\ e + m.size[e] \in H
             /\ e + m.size[e] \in Nat /\ e + m.size[e] <= Pool!End
  <2>1. m.size[e] \in Nat /\ e < e + m.size[e] /\ e + m.size[e] \in H
    BY <1>3 DEF QMemShape
  <2>2. e + m.size[e] \in Nat /\ e + m.size[e] <= Pool!End /\ e \in Nat /\ e <= Pool!End /\ Pool!End \in Nat
    BY <1>2, <2>1, QMemCells
  <2> QED BY <1>3, <2>1, <2>2
<1> QED BY <1>1, <1>2, <1>3

LEMMA QMemLinkedIs ==
  ASSUME NEW m, NEW H, NEW F, QMemShape(m, H), F \subseteq H \ {Pool!End}, QMemLinked(m, F)
  PROVE  /\ \A f \in F : f \in Nat /\ f < Pool!End /\ f \in H /\ f # Pool!End /\ f # Pool!Start /\ f \in Pool!Cell
         /\ \A f \in F \union {Pool!Start} : /\ m.next[f] \in F \union {Pool!End} /\ m.next[f] \in Nat
                                             /\ f < m.next[f] /\ m.next[f] <= Pool!End /\ f \in Int /\ f < Pool!End
                                             /\ m.next[f] \in H /\ m.next[f] # Pool!Start
                                             /\ \A g \in F : f < g => m.next[f] <= g
<1>1. \A f \in F : f \in Nat /\ f < Pool!End /\ f \in H /\ f # Pool!End /\ f # Pool!Start /\ f \in Pool!Cell
  BY QMemShapeIs, QMemCells
<1>2. ASSUME NEW f \in F \union {Pool!Start}
      PROVE  /\ m.next[f] \in F \union {Pool!End} /\ m.next[f] \in Nat
             /\ f < m.next[f] /\ m.next[f] <= Pool!End /\ f \in Int /\ f < Pool!End
             /\ m.next[f] \in H /\ m.next[f] # Pool!Start
             /\ \A g \in F : f < g => m.next[f] <= g
  <2>1. /\ m.next[f] \in F \union {Pool!End} /\ f < m.next[f] /\ \A g \in F : f < g => m.next[f] <= g
    BY DEF QMemLinked
  <2>2. m.next[f] \in Nat /\ m.next[f] <= Pool!End /\ m.next[f] \in H /\ m.next[f] # Pool!Start
    BY <1>1, <2>1, QMemCells, QMemShapeIs
  <2>3. f \in Int /\ f < Pool!End
    BY <1>1, QMemCells
  <2> QED BY <2>1, <2>2, <2>3
<1> QED BY <1>1, <1>2

LEMMA QMemSameShape ==
  ASSUME NEW m, NEW H, QMemShape(m, H), NEW n, n.size[Pool!Start] = m.size[Pool!Start], \A e \in H : n.size[e] = m.size[e]
  PROVE  QMemShape(n, H)
BY DEF QMemShape

LEMMA QMemSameLinked ==
  ASSUME NEW m, NEW F, NEW n, \A f \in F \union {Pool!Start} : n.next[f] = m.next[f]
  PROVE  QMemLinked(n, F) <=> QMemLinked(m, F)
BY DEF QMemLinked

LEMMA QMemSameCounted ==
  ASSUME NEW m, NEW F, NEW n, NEW Q, NEW T, QMemCounted(m, F, Q, T),
         \A f \in F \union {Pool!Start} : n.next[f] = m.next[f], \A f \in F : n.size[f] = m.size[f]
  PROVE  QMemCounted(n, F, Q, T)
BY DEF QMemCounted

\* Only the sizes of the blocks and the links of the list matter.
LEMMA QMemSameLists ==
  ASSUME NEW m, NEW H, NEW F, NEW T, QMemLists(m, H, F, T), NEW n \in QMemMemory,
         n.size[Pool!Start] = m.size[Pool!Start],
         \A e \in H : n.size[e] = m.size[e], \A f \in F \union {Pool!Start} : n.next[f] = m.next[f]
  PROVE  QMemLists(n, H, F, T)
<1>1. QMemShape(n, H)
  BY QMemSameShape DEF QMemLists
<1>2. QMemLinked(n, F)
  BY QMemSameLinked DEF QMemLists
<1>3. PICK Q : QMemCounted(m, F, Q, T)
  BY DEF QMemLists
<1>4. \A f \in F : n.size[f] = m.size[f]
  BY DEF QMemLists
<1>5. QMemCounted(n, F, Q, T)
  BY <1>3, <1>4, QMemSameCounted
<1> QED BY <1>1, <1>2, <1>5 DEF QMemLists
-----------------------------------------------------------------------------
(* The steps that change the list. *)

QMemPlain(m, b, i) == [m EXCEPT !.next = [@ EXCEPT ![i] = b, ![b] = m.next[i]]]

\* Block b is entered behind i.
LEMMA QMemPlainLists ==
  ASSUME NEW m, NEW H, NEW F, NEW T \in Nat, QMemLists(m, H, F, T),
         NEW b \in H, b \notin F, b # Pool!End, NEW i \in F \union {Pool!Start}, i < b, b < m.next[i]
  PROVE  /\ QMemLists(QMemPlain(m, b, i), H, F \union {b}, T + m.size[b])
         /\ QMemPlain(m, b, i).size = m.size /\ QMemPlain(m, b, i).used = m.used
         /\ QMemPlain(m, b, i).free = m.free /\ QMemPlain(m, b, i).data = m.data
         /\ QMemPlain(m, b, i).next[b] = m.next[i] /\ QMemPlain(m, b, i).next[i] = b
         /\ \A f \in F : f # i => QMemPlain(m, b, i).next[f] = m.next[f]
<1> DEFINE l == QMemPlain(m, b, i)
           n == m.next[i]
           s == m.size[b]
           G == F \union {b}
<1>1. /\ m \in QMemMemory /\ QMemShape(m, H) /\ F \subseteq H \ {Pool!End} /\ QMemLinked(m, F)
      /\ m.next \in [QMemPlace -> Pool!Cell \union {Pool!None}]
  BY QMemMemoryIs DEF QMemLists
<1>2. /\ b \in Nat /\ s \in Nat /\ b \in Pool!Cell /\ b < Pool!End /\ b # Pool!Start /\ b # i /\ i \in QMemPlace /\ b \in QMemPlace
  BY <1>1, QMemShapeIs, QMemCells
<1>3. /\ \A f \in F : f \in Nat /\ f < Pool!End /\ f \in H /\ f # Pool!End /\ f # Pool!Start /\ f \in Pool!Cell /\ f # b
      /\ \A f \in F \union {Pool!Start} : /\ m.next[f] \in F \union {Pool!End} /\ m.next[f] \in Nat
                                          /\ f < m.next[f] /\ m.next[f] <= Pool!End /\ f \in Int
                                          /\ \A g \in F : f < g => m.next[f] <= g
  BY <1>1, QMemLinkedIs
<1>4. /\ n \in F \union {Pool!End} /\ n \in Nat /\ b < n /\ n \in Pool!Cell /\ i \in Int
  BY <1>3, QMemCells
<1>5. /\ l.next = [m.next EXCEPT ![i] = b, ![b] = n]
      /\ l.size = m.size /\ l.used = m.used /\ l.free = m.free /\ l.data = m.data
      /\ l = [next |-> l.next, size |-> l.size, used |-> l.used, free |-> l.free, data |-> l.data]
  BY <1>1 DEF QMemPlain, QMemMemory
<1> HIDE DEF l, n, s
<1>6. l.next[b] = n /\ l.next[i] = b /\ \A f \in QMemPlace : f # i /\ f # b => l.next[f] = m.next[f]
  BY <1>1, <1>2, <1>5
<1>7. l \in QMemMemory
  <2>1. l.next \in [QMemPlace -> Pool!Cell \union {Pool!None}]
    BY <1>1, <1>2, <1>4, <1>5
  <2> QED BY <1>1, <1>5, <2>1, QMemMemoryIs DEF QMemMemory
<1>8. QMemShape(l, H)
  BY <1>1, <1>5, QMemSameShape
<1>9. ASSUME NEW f \in G \union {Pool!Start}, f # i, f # b PROVE l.next[f] = m.next[f] /\ f \in F \union {Pool!Start}
  BY <1>3, <1>6, <1>9, QMemCells
<1>10. QMemLinked(l, G)
  <2> SUFFICES ASSUME NEW f \in G \union {Pool!Start}
               PROVE  /\ l.next[f] \in G \union {Pool!End} /\ f < l.next[f]
                      /\ \A g \in G : f < g => l.next[f] <= g
    BY DEF QMemLinked
  <2>1. CASE f = i
    <3>1. ASSUME NEW g \in G, i < g PROVE b <= g
      <4>1. g \in F => n <= g
        BY <1>3, <3>1 DEF n
      <4> QED BY <1>2, <1>3, <1>4, <4>1
    <3> QED BY <1>2, <1>6, <2>1, <3>1
  <2>2. CASE f = b
    <3>1. ASSUME NEW g \in G, b < g PROVE n <= g
      <4>1. g \in F /\ i < g
        BY <1>2, <1>3, <1>4, <3>1
      <4> QED BY <1>3, <4>1 DEF n
    <3> QED BY <1>4, <1>6, <2>2, <3>1
  <2>3. CASE f # i /\ f # b
    <3>1. l.next[f] = m.next[f] /\ f \in F \union {Pool!Start}
      BY <1>9, <2>3
    <3>2. ASSUME f < b PROVE m.next[f] <= b
      <4>1. f < i
        <5>1. ~(i < f)
          <6>1. SUFFICES ASSUME i < f PROVE FALSE
            OBVIOUS
          <6>2. f \in F
            BY <1>3, <3>1, <6>1, QMemCells
          <6>3. n <= f
            BY <1>3, <6>1, <6>2 DEF n
          <6> QED BY <1>2, <1>3, <1>4, <3>2, <6>2, <6>3
        <5> QED BY <1>3, <1>4, <2>3, <3>1, <5>1
      <4>2. i \in F
        BY <1>3, <3>1, <4>1, QMemCells
      <4>3. m.next[f] <= i
        BY <1>3, <3>1, <4>1, <4>2
      <4> QED BY <1>2, <1>3, <1>4, <3>1, <4>3
    <3> QED BY <1>3, <3>1, <3>2
  <2> QED BY <2>1, <2>2, <2>3
<1>11. PICK Q : QMemCounted(m, F, Q, T)
  BY DEF QMemLists
<1>12. /\ \A f \in F \union {Pool!End} : Q[f] \in Nat
       /\ Q[m.next[Pool!Start]] = 0 /\ Q[Pool!End] = T
       /\ \A f \in F : Q[m.next[f]] = Q[f] + m.size[f] /\ m.size[f] \in Nat
       /\ \A f \in F : \A g \in F \union {Pool!End} : f < g => Q[f] + m.size[f] <= Q[g]
  <2>1. \A f \in F : m.size[f] \in Nat
    BY <1>1, QMemShapeIs
  <2> QED BY <1>11, <2>1 DEF QMemCounted
<1> DEFINE R == [e \in G \union {Pool!End} |-> IF e < b THEN Q[e] ELSE IF e = b THEN Q[n] ELSE Q[e] + s]
<1>13. /\ \A f \in F \union {Pool!End} : f < b => R[f] = Q[f]
       /\ \A f \in F \union {Pool!End} : b < f => R[f] = Q[f] + s
       /\ R[b] = Q[n]
       /\ \A f \in F \union {Pool!End} : f < b \/ b < f
  BY <1>2, <1>3, QMemCells
<1>14. Q[n] \in Nat
  BY <1>4, <1>12
<1>15. R \in [G \union {Pool!End} -> Nat]
  <2>1. ASSUME NEW e \in G \union {Pool!End} PROVE R[e] \in Nat
    <3>1. CASE e = b
      BY <1>13, <1>14, <3>1
    <3>2. CASE e # b
      <4>1. e \in F \union {Pool!End} /\ Q[e] \in Nat /\ (e < b \/ b < e)
        BY <1>12, <1>13, <3>2
      <4> HIDE DEF R
      <4> QED BY <1>2, <1>13, <4>1
    <3> QED BY <3>1, <3>2
  <2> QED BY <2>1
<1> HIDE DEF R
<1>16. QMemCounted(l, G, R, T + s)
  <2>1. R[l.next[Pool!Start]] = 0
    <3>1. CASE i = Pool!Start
      BY <1>6, <1>12, <1>13, <3>1 DEF n
    <3>2. CASE i # Pool!Start
      <4>1. l.next[Pool!Start] = m.next[Pool!Start] /\ i \in F /\ m.next[Pool!Start] \in F \union {Pool!End}
        BY <1>2, <1>3, <1>6, <3>2, QMemCells
      <4>2. m.next[Pool!Start] <= i
        BY <1>3, <4>1, QMemCells
      <4>3. m.next[Pool!Start] < b
        <5>1. m.next[Pool!Start] \in Nat /\ i \in Nat /\ b \in Nat /\ i < b
          BY <1>2, <1>3, <1>4, <4>1
        <5> QED BY ONLY <4>2, <5>1, SMTT(20)
      <4> QED BY <1>12, <1>13, <4>1, <4>3
    <3> QED BY <3>1, <3>2
  <2>2. R[Pool!End] = T + s
    <3>1. Pool!End \in F \union {Pool!End} /\ b < Pool!End
      BY <1>2
    <3> QED BY <1>12, <1>13, <3>1
  <2>3. ASSUME NEW f \in G PROVE R[l.next[f]] = R[f] + l.size[f]
    <3>1. CASE f = i
      <4>1. f \in F /\ f < b
        BY <1>3, <1>2, <2>3, <3>1, QMemCells
      <4> QED BY <1>5, <1>6, <1>12, <1>13, <3>1, <4>1 DEF n
    <3>2. CASE f = b
      <4>1. R[n] = Q[n] + s
        BY <1>4, <1>13
      <4> QED BY <1>5, <1>6, <1>13, <3>2, <4>1 DEF s
    <3>3. CASE f # i /\ f # b
      <4>1. f \in F /\ l.next[f] = m.next[f] /\ Q[m.next[f]] = Q[f] + m.size[f]
            /\ m.next[f] \in F \union {Pool!End} /\ Q[f] \in Nat /\ m.size[f] \in Nat
        BY <1>3, <1>9, <1>12, <2>3, <3>3
      <4>2. CASE f < b
        <5>1. ~(i < f)
          <6>1. SUFFICES ASSUME i < f PROVE FALSE
            OBVIOUS
          <6>2. n <= f
            BY <1>3, <4>1, <6>1 DEF n
          <6> QED BY <1>2, <1>3, <1>4, <4>1, <4>2, <6>2
        <5>2. f < i /\ i \in F
          BY <1>3, <1>4, <3>3, <4>1, <5>1, QMemCells
        <5>3. m.next[f] <= i
          BY <1>3, <4>1, <5>2
        <5>4. m.next[f] < b
          BY <1>2, <1>3, <1>4, <4>1, <5>3
        <5> QED BY <1>5, <1>13, <4>1, <4>2, <5>4
      <4>3. CASE b < f
        <5>1. b < m.next[f]
          BY <1>2, <1>3, <4>1, <4>3
        <5>2. R[m.next[f]] = Q[m.next[f]] + s /\ R[f] = Q[f] + s
          BY <1>13, <4>1, <4>3, <5>1
        <5> QED BY <1>2, <1>5, <4>1, <5>2
      <4> QED BY <1>13, <4>1, <4>2, <4>3
    <3> QED BY <3>1, <3>2, <3>3
  <2>4. ASSUME NEW f \in G, NEW g \in G \union {Pool!End}, f < g PROVE R[f] + l.size[f] <= R[g]
    <3>1. CASE f = b
      <4>1. g \in F \union {Pool!End} /\ b < g /\ R[g] = Q[g] + s /\ Q[g] \in Nat
        <5>1. g # b /\ g \in F \union {Pool!End} /\ b < g
          BY <1>2, <2>4, <3>1
        <5> QED BY <1>12, <1>13, <5>1
      <4>2. Q[n] <= Q[g]
        <5>1. CASE n = g
          BY <1>14, <5>1
        <5>2. CASE n # g
          <6>1. n <= g
            <7>1. g \in F => n <= g
              BY <1>2, <1>3, <1>4, <4>1 DEF n
            <7>2. g = Pool!End => n <= g
              BY <1>3 DEF n
            <7> QED BY <4>1, <7>1, <7>2
          <6>2. n < g /\ n \in F
            BY <1>3, <1>4, <4>1, <5>2, <6>1, QMemCells
          <6>3. Q[n] + m.size[n] <= Q[g] /\ m.size[n] \in Nat
            BY <1>12, <4>1, <6>2
          <6> QED BY <1>14, <4>1, <6>3
        <5> QED BY <5>1, <5>2
      <4> QED BY <1>2, <1>5, <1>13, <1>14, <3>1, <4>1, <4>2 DEF s
    <3>2. CASE f # b
      <4>1. f \in F /\ Q[f] \in Nat /\ m.size[f] \in Nat /\ f \in Nat
        BY <1>3, <1>12, <2>4, <3>2
      <4>2. CASE g = b
        <5>1. f < n /\ R[f] = Q[f] /\ R[g] = Q[n]
          BY <1>2, <1>4, <1>13, <2>4, <4>1, <4>2
        <5> QED BY <1>4, <1>5, <1>12, <4>1, <5>1
      <4>3. CASE g # b
        <5>1. g \in F \union {Pool!End} /\ Q[f] + m.size[f] <= Q[g] /\ Q[g] \in Nat /\ g \in Nat
          BY <1>3, <1>12, <2>4, <4>1, <4>3, QMemCells
        <5>2. (R[f] = Q[f] /\ f < b) \/ (R[f] = Q[f] + s /\ b < f)
          BY <1>13, <4>1
        <5>3. (R[g] = Q[g] /\ g < b) \/ (R[g] = Q[g] + s /\ b < g)
          BY <1>13, <5>1
        <5> QED BY <1>2, <1>5, <2>4, <4>1, <5>1, <5>2, <5>3
      <4> QED BY <4>2, <4>3
    <3> QED BY <3>1, <3>2
  <2> QED BY <1>15, <2>1, <2>2, <2>3, <2>4 DEF QMemCounted
<1>17. G \subseteq H \ {Pool!End}
  BY <1>1
<1>18. QMemLists(l, H, G, T + s)
  BY <1>7, <1>8, <1>10, <1>16, <1>17 DEF QMemLists
<1>19. \A f \in F : f # i => l.next[f] = m.next[f]
  BY <1>9
<1> QED BY <1>5, <1>6, <1>18, <1>19 DEF l, n, s

QMemOff(m, p, b) == [m EXCEPT !.next[p] = m.next[b]]

\* Block b, which follows p, is taken off the list.
LEMMA QMemOffLists ==
  ASSUME NEW m, NEW H, NEW F, NEW T \in Nat, QMemLists(m, H, F, T),
         NEW p \in F \union {Pool!Start}, NEW b \in F, m.next[p] = b
  PROVE  /\ QMemLists(QMemOff(m, p, b), H, F \ {b}, T - m.size[b]) /\ T - m.size[b] \in Nat
         /\ QMemOff(m, p, b).size = m.size /\ QMemOff(m, p, b).used = m.used
         /\ QMemOff(m, p, b).free = m.free /\ QMemOff(m, p, b).data = m.data
<1> DEFINE l == QMemOff(m, p, b)
           n == m.next[b]
           s == m.size[b]
           G == F \ {b}
<1>1. /\ m \in QMemMemory /\ QMemShape(m, H) /\ F \subseteq H \ {Pool!End} /\ QMemLinked(m, F)
      /\ m.next \in [QMemPlace -> Pool!Cell \union {Pool!None}]
  BY QMemMemoryIs DEF QMemLists
<1>2. /\ \A f \in F : f \in Nat /\ f < Pool!End /\ f \in H /\ f # Pool!End /\ f # Pool!Start /\ f \in Pool!Cell
      /\ \A f \in F \union {Pool!Start} : /\ m.next[f] \in F \union {Pool!End} /\ m.next[f] \in Nat
                                          /\ f < m.next[f] /\ m.next[f] <= Pool!End /\ f \in Int /\ f < Pool!End
                                          /\ \A g \in F : f < g => m.next[f] <= g
  BY <1>1, QMemLinkedIs
<1>3. /\ b \in Nat /\ s \in Nat /\ b < Pool!End /\ p < b /\ p \in Int /\ p \in QMemPlace /\ p # b /\ b \in H
      /\ n \in F \union {Pool!End} /\ n \in Nat /\ b < n /\ n \in Pool!Cell
  BY <1>1, <1>2, QMemShapeIs, QMemCells
<1>4. /\ l.next = [m.next EXCEPT ![p] = n]
      /\ l.size = m.size /\ l.used = m.used /\ l.free = m.free /\ l.data = m.data
      /\ l = [next |-> l.next, size |-> l.size, used |-> l.used, free |-> l.free, data |-> l.data]
  BY <1>1 DEF QMemOff, QMemMemory
<1> HIDE DEF l, n, s
<1>5. l.next[p] = n /\ \A f \in QMemPlace : f # p => l.next[f] = m.next[f]
  BY <1>1, <1>3, <1>4
<1>6. l \in QMemMemory
  <2>1. l.next \in [QMemPlace -> Pool!Cell \union {Pool!None}]
    BY <1>1, <1>3, <1>4
  <2> QED BY <1>1, <1>4, <2>1, QMemMemoryIs DEF QMemMemory
<1>7. QMemShape(l, H)
  BY <1>1, <1>4, QMemSameShape
<1>8. ASSUME NEW f \in G \union {Pool!Start}, f # p PROVE l.next[f] = m.next[f] /\ m.next[f] # b
  <2>1. f \in F \union {Pool!Start} /\ f # b /\ f \in QMemPlace
    BY <1>2, <1>3, QMemCells
  <2>2. m.next[f] # b
    <3> SUFFICES ASSUME m.next[f] = b PROVE FALSE
      OBVIOUS
    <3>1. f < b /\ f \in Int
      BY <1>2, <2>1
    <3>2. CASE f < p
      <4>1. p \in F
        BY <1>2, <1>3, <2>1, <3>1, <3>2, QMemCells
      <4>2. b <= p
        BY <1>2, <2>1, <3>2, <4>1
      <4> QED BY <1>3, <4>2
    <3>3. CASE p < f
      <4>1. f \in F
        BY <1>2, <1>3, <2>1, <3>1, <3>3, QMemCells
      <4>2. b <= f
        BY <1>2, <3>3, <4>1
      <4> QED BY <1>3, <3>1, <4>2
    <3> QED BY <1>3, <1>8, <3>1, <3>2, <3>3
  <2> QED BY <1>5, <1>8, <2>1, <2>2
<1>9. \A f \in F : b < f => n <= f
  BY <1>2 DEF n
<1>10. QMemLinked(l, G)
  <2> SUFFICES ASSUME NEW f \in G \union {Pool!Start}
               PROVE  /\ l.next[f] \in G \union {Pool!End} /\ f < l.next[f]
                      /\ \A g \in G : f < g => l.next[f] <= g
    BY DEF QMemLinked
  <2>1. CASE f = p
    <3>1. ASSUME NEW g \in G, p < g PROVE n <= g
      <4>1. g \in F /\ b <= g /\ g # b /\ g \in Nat
        BY <1>2, <3>1
      <4> QED BY <1>3, <1>9, <4>1
    <3> QED BY <1>3, <1>5, <2>1, <3>1
  <2>2. CASE f # p
    BY <1>2, <1>8, <2>2
  <2> QED BY <2>1, <2>2
<1>11. PICK Q : QMemCounted(m, F, Q, T)
  BY DEF QMemLists
<1>12. /\ \A f \in F \union {Pool!End} : Q[f] \in Nat
       /\ Q[m.next[Pool!Start]] = 0 /\ Q[Pool!End] = T
       /\ \A f \in F : Q[m.next[f]] = Q[f] + m.size[f] /\ m.size[f] \in Nat
       /\ \A f \in F : \A g \in F \union {Pool!End} : f < g => Q[f] + m.size[f] <= Q[g]
  <2>1. \A f \in F : m.size[f] \in Nat
    BY <1>1, QMemShapeIs
  <2> QED BY <1>11, <2>1 DEF QMemCounted
<1> DEFINE R == [e \in G \union {Pool!End} |-> IF e < b THEN Q[e] ELSE Q[e] - s]
<1>13. /\ \A f \in G \union {Pool!End} : f < b => R[f] = Q[f]
       /\ \A f \in G \union {Pool!End} : b < f => R[f] = Q[f] - s
       /\ \A f \in G \union {Pool!End} : f \in Nat /\ (f < b \/ b < f) /\ f \in F \union {Pool!End}
  BY <1>2, <1>3, QMemCells
<1>14. \A g \in F \union {Pool!End} : b < g => Q[b] + s <= Q[g]
  BY <1>12 DEF s
<1>15. Q[b] \in Nat /\ Q[n] = Q[b] + s
  BY <1>12 DEF n, s
<1>16. R \in [G \union {Pool!End} -> Nat]
  <2>1. ASSUME NEW e \in G \union {Pool!End} PROVE R[e] \in Nat
    <3>1. e \in F \union {Pool!End} /\ Q[e] \in Nat /\ (e < b \/ b < e)
      BY <1>12, <1>13
    <3> HIDE DEF R
    <3>2. CASE e < b
      BY <1>13, <3>1, <3>2
    <3>3. CASE b < e
      <4>1. R[e] = Q[e] - s /\ Q[b] + s <= Q[e]
        BY <1>13, <1>14, <3>1, <3>3
      <4> QED BY <1>3, <1>15, <3>1, <4>1
    <3> QED BY <3>1, <3>2, <3>3
  <2> QED BY <2>1
<1> HIDE DEF R
<1>17. R[Pool!End] = T - s /\ T - s \in Nat
  <2>1. R[Pool!End] = Q[Pool!End] - s
    BY <1>3, <1>13
  <2> QED BY <1>12, <1>16, <2>1
<1>18. QMemCounted(l, G, R, T - s)
  <2>1. R[l.next[Pool!Start]] = 0
    <3>1. CASE p = Pool!Start
      <4>1. R[n] = Q[n] - s /\ Q[b] = 0
        BY <1>3, <1>10, <1>5, <1>12, <1>13, <3>1 DEF QMemLinked
      <4> QED BY <1>3, <1>5, <1>15, <3>1, <4>1
    <3>2. CASE p # Pool!Start
      <4>1. l.next[Pool!Start] = m.next[Pool!Start] /\ p \in F /\ l.next[Pool!Start] \in G \union {Pool!End}
        BY <1>3, <1>8, <1>10, <3>2, QMemCells DEF QMemLinked
      <4>2. m.next[Pool!Start] <= p
        BY <1>2, <4>1, QMemCells
      <4>3. m.next[Pool!Start] < b /\ m.next[Pool!Start] \in Nat
        <5>1. m.next[Pool!Start] \in Nat
          BY <1>2
        <5> QED BY <1>3, <4>2, <5>1
      <4> QED BY <1>12, <1>13, <4>1, <4>3
    <3> QED BY <3>1, <3>2
  <2>2. ASSUME NEW f \in G PROVE R[l.next[f]] = R[f] + l.size[f]
    <3>1. f \in F /\ f \in Nat /\ f # b /\ l.next[f] \in G \union {Pool!End}
          /\ Q[f] \in Nat /\ m.size[f] \in Nat /\ Q[m.next[f]] = Q[f] + m.size[f]
      BY <1>2, <1>10, <1>12 DEF QMemLinked
    <3>2. CASE f = p
      <4>1. l.next[f] = n /\ R[n] = Q[n] - s /\ R[f] = Q[f] /\ Q[b] = Q[f] + m.size[f]
        BY <1>3, <1>5, <1>13, <3>1, <3>2
      <4> QED BY <1>3, <1>4, <1>15, <3>1, <4>1
    <3>3. CASE f # p
      <4>1. l.next[f] = m.next[f] /\ m.next[f] # b /\ m.next[f] \in Nat /\ f < m.next[f]
        BY <1>2, <1>8, <3>1, <3>3
      <4>2. CASE f < b
        <5>1. m.next[f] <= b
          BY <1>2, <3>1, <4>2
        <5>2. R[m.next[f]] = Q[m.next[f]] /\ R[f] = Q[f]
          BY <1>3, <1>13, <3>1, <4>1, <4>2, <5>1
        <5> QED BY <1>4, <3>1, <4>1, <5>2
      <4>3. CASE b < f
        <5>1. R[m.next[f]] = Q[m.next[f]] - s /\ R[f] = Q[f] - s
          BY <1>3, <1>13, <3>1, <4>1, <4>3
        <5> QED BY <1>3, <1>4, <3>1, <4>1, <5>1
      <4>4. f < b \/ b < f
        <5>1. b \in Nat
          BY <1>3
        <5> QED BY ONLY <3>1, <5>1, SMTT(20)
      <4> QED BY <4>2, <4>3, <4>4
    <3> QED BY <3>2, <3>3
  <2>3. ASSUME NEW f \in G, NEW g \in G \union {Pool!End}, f < g PROVE R[f] + l.size[f] <= R[g]
    <3>1. f \in F /\ f \in Nat /\ Q[f] \in Nat /\ m.size[f] \in Nat
      BY <1>2, <1>12
    <3>2. g \in F \union {Pool!End} /\ Q[f] + m.size[f] <= Q[g] /\ Q[g] \in Nat /\ g \in Nat
      BY <1>12, <1>13, <2>3, <3>1
    <3>3. (R[f] = Q[f] /\ f < b) \/ (R[f] = Q[f] - s /\ b < f)
      BY <1>13, <3>1
    <3>4. (R[g] = Q[g] /\ g < b) \/ (R[g] = Q[g] - s /\ b < g /\ Q[b] + s <= Q[g])
      BY <1>13, <1>14, <3>2
    <3>5. f < b => Q[f] + m.size[f] <= Q[b]
      BY <1>12, <3>1
    <3> QED BY <1>3, <1>4, <1>15, <2>3, <3>1, <3>2, <3>3, <3>4, <3>5
  <2> QED BY <1>16, <1>17, <2>1, <2>2, <2>3 DEF QMemCounted
<1>19. QMemLists(l, H, G, T - s)
  BY <1>1, <1>6, <1>7, <1>10, <1>18 DEF QMemLists
<1> QED BY <1>4, <1>17, <1>19 DEF l, n, s

QMemJoined(m, f) == [m EXCEPT !.size[f] = @ + m.size[m.next[f]], !.next[f] = m.next[m.next[f]]]

\* Block f takes up the block that follows it on the list and lies behind it.
LEMMA QMemJoinedLists ==
  ASSUME NEW m, NEW H, NEW F, NEW T, QMemLists(m, H, F, T),
         NEW f \in F, NEW n \in F, m.next[f] = n, f + m.size[f] = n
  PROVE  /\ QMemLists(QMemJoined(m, f), H \ {n}, F \ {n}, T) /\ f < n
         /\ QMemJoined(m, f).used = m.used /\ QMemJoined(m, f).free = m.free /\ QMemJoined(m, f).data = m.data
         /\ QMemJoined(m, f).size[f] = m.size[f] + m.size[n] /\ QMemJoined(m, f).next[f] = m.next[n]
         /\ \A e \in QMemPlace : e # f => /\ QMemJoined(m, f).size[e] = m.size[e]
                                          /\ QMemJoined(m, f).next[e] = m.next[e]
<1> DEFINE l == QMemJoined(m, f)
           s == m.size[f] + m.size[n]
           K == H \ {n}
           G == F \ {n}
<1>1. /\ m \in QMemMemory /\ QMemShape(m, H) /\ F \subseteq H \ {Pool!End} /\ QMemLinked(m, F)
      /\ m.next \in [QMemPlace -> Pool!Cell \union {Pool!None}] /\ m.size \in [QMemPlace -> Pool!Cell \union {Pool!None}]
  BY QMemMemoryIs DEF QMemLists
<1>2. /\ \A e \in F : e \in Nat /\ e < Pool!End /\ e \in H /\ e # Pool!End /\ e # Pool!Start /\ e \in Pool!Cell
      /\ \A e \in F \union {Pool!Start} : /\ m.next[e] \in F \union {Pool!End} /\ m.next[e] \in Nat
                                          /\ e < m.next[e] /\ m.next[e] <= Pool!End /\ e \in Int /\ e < Pool!End
                                          /\ \A g \in F : e < g => m.next[e] <= g
  BY <1>1, QMemLinkedIs
<1>3. /\ H \subseteq Pool!Cell /\ 0 \in H /\ Pool!End \in H /\ Pool!Start \notin H
      /\ \A e \in H : /\ e \in Nat /\ m.size[e] \in Nat /\ e <= Pool!End
                      /\ e # Pool!End => /\ e < Pool!End /\ m.size[e] > 0 /\ e + m.size[e] \in H
                                         /\ e + m.size[e] \in Nat /\ e + m.size[e] <= Pool!End
  BY <1>1, QMemShapeIs
<1>4. \A e \in H \ {Pool!End} : \A g \in H : e < g => e + m.size[e] <= g
  BY <1>1 DEF QMemShape
<1>5. /\ f \in Nat /\ n \in Nat /\ f < n /\ f # n /\ n < Pool!End /\ n # 0 /\ f \in H /\ n \in H /\ f \in QMemPlace
      /\ m.size[f] \in Nat /\ m.size[n] \in Nat /\ s \in Nat /\ f + s = n + m.size[n] /\ f # Pool!Start
      /\ n + m.size[n] \in H /\ n + m.size[n] # n /\ m.size[n] > 0 /\ f # Pool!End /\ n # Pool!End
  <2>1. f \in Nat /\ f \in H /\ f # Pool!Start /\ f # Pool!End /\ f \in QMemPlace /\ f < n
    BY <1>2, QMemCells
  <2>2. n \in Nat /\ n \in H /\ n # Pool!End /\ n < Pool!End
    BY <1>2
  <2>3. m.size[f] \in Nat /\ m.size[n] \in Nat /\ m.size[n] > 0 /\ n + m.size[n] \in H
    BY <1>3, <2>1, <2>2
  <2> QED BY <2>1, <2>2, <2>3
<1>6. m.next[n] \in F \union {Pool!End} /\ m.next[n] \in Nat /\ n < m.next[n] /\ m.next[n] \in Pool!Cell
  BY <1>2, QMemCells
<1>7. s \in Pool!Cell
  BY <1>3, <1>5, QMemCells
<1>8. /\ l.next = [m.next EXCEPT ![f] = m.next[n]] /\ l.size = [m.size EXCEPT ![f] = s]
      /\ l.used = m.used /\ l.free = m.free /\ l.data = m.data
      /\ l = [next |-> l.next, size |-> l.size, used |-> l.used, free |-> l.free, data |-> l.data]
  <2>1. l = [m EXCEPT !.size[f] = s, !.next[f] = m.next[n]]
    BY DEF QMemJoined
  <2> HIDE DEF l, s
  <2>2. m \in QMemMemory
    BY <1>1
  <2>3. /\ l.next = [m.next EXCEPT ![f] = m.next[n]] /\ l.size = [m.size EXCEPT ![f] = s]
        /\ l.used = m.used /\ l.free = m.free /\ l.data = m.data
    BY ONLY <2>1, <2>2 DEF QMemMemory
  <2>4. l = [next |-> l.next, size |-> l.size, used |-> l.used, free |-> l.free, data |-> l.data]
    BY ONLY <2>1, <2>2 DEF QMemMemory
  <2> QED BY <2>3, <2>4
<1> HIDE DEF l, s
<1>9. /\ l.next[f] = m.next[n] /\ l.size[f] = s
      /\ \A e \in QMemPlace : e # f => l.next[e] = m.next[e] /\ l.size[e] = m.size[e]
  BY <1>1, <1>5, <1>8
<1>10. l \in QMemMemory
  <2>1. l.next \in [QMemPlace -> Pool!Cell \union {Pool!None}]
    BY <1>1, <1>5, <1>6, <1>8
  <2>2. l.size \in [QMemPlace -> Pool!Cell \union {Pool!None}]
    BY <1>1, <1>5, <1>7, <1>8
  <2> QED BY <1>1, <1>8, <2>1, <2>2, QMemMemoryIs DEF QMemMemory
<1>11. \A e \in K : e \in H /\ e \in QMemPlace /\ e # Pool!Start
  BY <1>3, QMemCells
<1>12. QMemShape(l, K)
  <2>1. K \subseteq Pool!Cell /\ 0 \in K /\ Pool!End \in K
    BY <1>3, <1>5
  <2>2. l.size[Pool!Start] = 0 /\ l.size[Pool!End] = 0
    <3>1. m.size[Pool!Start] = 0 /\ m.size[Pool!End] = 0 /\ Pool!Start \in QMemPlace /\ Pool!End \in QMemPlace
      BY <1>1, QMemCells DEF QMemShape
    <3> QED BY <1>5, <1>9, <3>1
  <2>3. ASSUME NEW e \in K \ {Pool!End}
        PROVE  /\ l.size[e] \in Nat /\ e < e + l.size[e] /\ e + l.size[e] \in K
               /\ \A g \in K : e < g => e + l.size[e] <= g
    <3>1. CASE e = f
      <4>1. ASSUME NEW g \in K, f < g PROVE n + m.size[n] <= g
        <5>1. n <= g /\ n # g /\ g \in Nat
          BY <1>3, <1>4, <1>5, <4>1
        <5> QED BY <1>4, <1>5, <5>1
      <4> QED BY <1>5, <1>9, <3>1, <4>1
    <3>2. CASE e # f
      <4>1. l.size[e] = m.size[e] /\ e \in H /\ e # Pool!End
        BY <1>9, <1>11, <3>2
      <4>2. e + m.size[e] # n
        <5>1. CASE e < f
          <6>1. e + m.size[e] <= f
            BY <1>4, <1>5, <4>1, <5>1
          <6> QED BY <1>3, <1>5, <4>1, <6>1
        <5>2. CASE f < e
          <6>1. n <= e
            BY <1>4, <1>5, <4>1, <5>2
          <6> QED BY <1>3, <1>5, <4>1, <6>1
        <5> QED BY <1>3, <1>5, <3>2, <4>1, <5>1, <5>2
      <4> QED BY <1>3, <1>4, <4>1, <4>2
    <3> QED BY <3>1, <3>2
  <2> QED BY <2>1, <2>2, <2>3 DEF QMemShape
<1>13. ASSUME NEW e \in G \union {Pool!Start}, e # f
       PROVE  e \in F \union {Pool!Start} /\ l.next[e] = m.next[e] /\ m.next[e] # n
  <2>1. e \in F \union {Pool!Start} /\ e \in QMemPlace /\ e # n
    BY <1>2, <1>5, QMemCells
  <2>2. e < f => m.next[e] <= f
    BY <1>2, <2>1
  <2>3. f < e => n <= e
    BY <1>2, <1>5, <2>1, QMemCells
  <2>4. m.next[e] # n
    <3>1. e \in Int /\ e < m.next[e]
      BY <1>2, <2>1
    <3> QED BY <1>5, <1>13, <2>2, <2>3, <3>1
  <2> QED BY <1>9, <1>13, <2>1, <2>4
<1>14. QMemLinked(l, G)
  <2> SUFFICES ASSUME NEW e \in G \union {Pool!Start}
               PROVE  /\ l.next[e] \in G \union {Pool!End} /\ e < l.next[e]
                      /\ \A g \in G : e < g => l.next[e] <= g
    BY DEF QMemLinked
  <2>1. CASE e = f
    <3>1. ASSUME NEW g \in G, f < g PROVE m.next[n] <= g
      <4>1. g \in F /\ n <= g /\ g # n /\ g \in Nat
        BY <1>2, <3>1
      <4>2. n < g
        BY <1>5, <4>1
      <4> QED BY <1>2, <4>1, <4>2
    <3>2. l.next[f] = m.next[n] /\ f < m.next[n] /\ m.next[n] \in G \union {Pool!End}
      BY <1>5, <1>6, <1>9
    <3> QED BY <2>1, <3>1, <3>2
  <2>2. CASE e # f
    BY <1>2, <1>13, <2>2
  <2> QED BY <2>1, <2>2
<1>15. PICK Q : QMemCounted(m, F, Q, T)
  BY DEF QMemLists
<1>16. /\ \A e \in F \union {Pool!End} : Q[e] \in Nat
       /\ Q[m.next[Pool!Start]] = 0 /\ Q[Pool!End] = T
       /\ \A e \in F : Q[m.next[e]] = Q[e] + m.size[e] /\ m.size[e] \in Nat
       /\ \A e \in F : \A g \in F \union {Pool!End} : e < g => Q[e] + m.size[e] <= Q[g]
  <2>1. \A e \in F : m.size[e] \in Nat
    BY <1>1, QMemShapeIs
  <2> QED BY <1>15, <2>1 DEF QMemCounted
<1> DEFINE R == [e \in G \union {Pool!End} |-> Q[e]]
<1>17. R \in [G \union {Pool!End} -> Nat] /\ \A e \in G \union {Pool!End} : R[e] = Q[e] /\ Q[e] \in Nat
  BY <1>16
<1> HIDE DEF R
<1>18. Q[n] = Q[f] + m.size[f] /\ Q[m.next[n]] = Q[n] + m.size[n]
       /\ Q[f] \in Nat /\ Q[n] \in Nat
  BY <1>16
<1>19. QMemCounted(l, G, R, T)
  <2>1. R[l.next[Pool!Start]] = 0
    <3>1. l.next[Pool!Start] = m.next[Pool!Start] /\ l.next[Pool!Start] \in G \union {Pool!End}
      BY <1>5, <1>13, <1>14 DEF QMemLinked
    <3> QED BY <1>16, <1>17, <3>1
  <2>2. ASSUME NEW e \in G PROVE R[l.next[e]] = R[e] + l.size[e]
    <3>1. l.next[e] \in G \union {Pool!End} /\ e \in F /\ e \in QMemPlace
      BY <1>2, <1>14, QMemCells DEF QMemLinked
    <3>2. CASE e = f
      <4>1. l.next[e] = m.next[n] /\ l.size[e] = m.size[f] + m.size[n] /\ m.size[f] \in Nat /\ m.size[n] \in Nat
        BY <1>5, <1>9, <3>2 DEF s
      <4>2. R[l.next[e]] = Q[m.next[n]] /\ R[e] = Q[f]
        BY <1>17, <3>1, <3>2, <4>1
      <4> QED BY <1>18, <4>1, <4>2
    <3>3. CASE e # f
      BY <1>9, <1>13, <1>16, <1>17, <3>1, <3>3
    <3> QED BY <3>2, <3>3
  <2>3. ASSUME NEW e \in G, NEW g \in G \union {Pool!End}, e < g PROVE R[e] + l.size[e] <= R[g]
    <3>1. e \in F /\ e \in QMemPlace /\ g \in F \union {Pool!End} /\ g \in Nat /\ g # n
      BY <1>2, <1>5, QMemCells
    <3>2. CASE e = f
      <4>1. n < g
        <5>1. g \in F => n <= g
          BY <1>2, <2>3, <3>2
        <5> QED BY <1>5, <3>1, <5>1
      <4>2. Q[n] + m.size[n] <= Q[g] /\ Q[g] \in Nat
        BY <1>16, <3>1, <4>1
      <4> QED BY <1>5, <1>9, <1>17, <1>18, <3>2, <4>2 DEF s
    <3>3. CASE e # f
      BY <1>9, <1>16, <1>17, <2>3, <3>1, <3>3
    <3> QED BY <3>2, <3>3
  <2>4. R[Pool!End] = T
    BY <1>16, <1>17
  <2> QED BY <1>17, <2>1, <2>2, <2>3, <2>4 DEF QMemCounted
<1>20. G \subseteq K \ {Pool!End}
  BY <1>1
<1>21. QMemLists(l, K, G, T)
  BY <1>10, <1>12, <1>14, <1>19, <1>20 DEF QMemLists
<1> QED BY <1>5, <1>8, <1>9, <1>21 DEF l, s

QMemSplit(m, b, n) == [m EXCEPT !.size[b] = n, !.size[b + n] = m.size[b] - n]

\* Block b, which is not on the list, is cut behind n units.
LEMMA QMemSplitLists ==
  ASSUME NEW m, NEW H, NEW F, NEW T, QMemLists(m, H, F, T),
         NEW b \in H \ {Pool!End}, b \notin F, NEW n \in Nat, 0 < n, n < m.size[b]
  PROVE  /\ QMemLists(QMemSplit(m, b, n), H \union {b + n}, F, T)
         /\ b + n \notin H /\ b + n \in Pool!Cell /\ b + n < Pool!End
         /\ QMemSplit(m, b, n).next = m.next /\ QMemSplit(m, b, n).used = m.used
         /\ QMemSplit(m, b, n).free = m.free /\ QMemSplit(m, b, n).data = m.data
         /\ QMemSplit(m, b, n).size[b] = n /\ QMemSplit(m, b, n).size[b + n] = m.size[b] - n
         /\ \A e \in H : e # b => QMemSplit(m, b, n).size[e] = m.size[e]
<1> DEFINE l == QMemSplit(m, b, n)
           c == b + n
           s == m.size[b]
           K == H \union {c}
<1>1. /\ m \in QMemMemory /\ QMemShape(m, H) /\ F \subseteq H \ {Pool!End} /\ QMemLinked(m, F)
      /\ m.next \in [QMemPlace -> Pool!Cell \union {Pool!None}] /\ m.size \in [QMemPlace -> Pool!Cell \union {Pool!None}]
  BY QMemMemoryIs DEF QMemLists
<1>2. /\ H \subseteq Pool!Cell /\ 0 \in H /\ Pool!End \in H /\ Pool!Start \notin H
      /\ \A e \in H : /\ e \in Nat /\ m.size[e] \in Nat /\ e <= Pool!End
                      /\ e # Pool!End => /\ e < Pool!End /\ m.size[e] > 0 /\ e + m.size[e] \in H
                                         /\ e + m.size[e] \in Nat /\ e + m.size[e] <= Pool!End
  BY <1>1, QMemShapeIs
<1>3. \A e \in H \ {Pool!End} : \A g \in H : e < g => e + m.size[e] <= g
  BY <1>1 DEF QMemShape
<1>4. /\ b \in Nat /\ s \in Nat /\ b < c /\ c < b + s /\ b + s \in H /\ b + s <= Pool!End /\ c \in Nat
      /\ c < Pool!End /\ c # Pool!End /\ c # b /\ c # Pool!Start /\ b # Pool!End /\ n < s /\ s - n \in Nat /\ s - n # 0
      /\ c + (s - n) = b + s
  <2>1. /\ b \in Nat /\ s \in Nat /\ n \in Nat /\ b + s \in H /\ b + s <= Pool!End /\ n < s /\ 0 < n
        /\ b # Pool!End /\ Pool!End \in Nat
    BY <1>2, QMemCells
  <2>2. b < c /\ c < b + s /\ c \in Nat /\ c < Pool!End /\ s - n \in Nat /\ s - n # 0 /\ c + (s - n) = b + s
    BY ONLY <2>1, SMTT(20)
  <2>3. c # Pool!Start
    BY <2>2, QMemCells
  <2> QED BY <2>1, <2>2, <2>3
<1>5. c \in Pool!Cell /\ b \in QMemPlace /\ c \in QMemPlace /\ n \in Pool!Cell /\ s - n \in Pool!Cell
  BY <1>2, <1>4, QMemCells
<1>6. c \notin H
  <2> SUFFICES ASSUME c \in H PROVE FALSE
    OBVIOUS
  <2>1. b + s <= c
    BY <1>3, <1>4
  <2> QED BY <1>4, <2>1
<1>7. /\ l.next = m.next /\ l.size = [[m.size EXCEPT ![b] = n] EXCEPT ![c] = s - n]
      /\ l.used = m.used /\ l.free = m.free /\ l.data = m.data
      /\ l = [next |-> l.next, size |-> l.size, used |-> l.used, free |-> l.free, data |-> l.data]
  <2>1. l = [m EXCEPT !.size[b] = n, !.size[c] = s - n]
    BY DEF QMemSplit
  <2> HIDE DEF l, c, s
  <2>2. m \in QMemMemory
    BY <1>1
  <2>3. /\ l.next = m.next /\ l.size = [[m.size EXCEPT ![b] = n] EXCEPT ![c] = s - n]
        /\ l.used = m.used /\ l.free = m.free /\ l.data = m.data
    BY ONLY <2>1, <2>2 DEF QMemMemory
  <2>4. l = [next |-> l.next, size |-> l.size, used |-> l.used, free |-> l.free, data |-> l.data]
    BY ONLY <2>1, <2>2 DEF QMemMemory
  <2> QED BY <2>3, <2>4
<1> HIDE DEF l, c, s
<1> DEFINE z == [m.size EXCEPT ![b] = n]
<1>8. z \in [QMemPlace -> Pool!Cell \union {Pool!None}] /\ z[b] = n /\ \A e \in QMemPlace : e # b => z[e] = m.size[e]
  BY <1>1, <1>5
<1>9. l.size = [z EXCEPT ![c] = s - n]
  BY <1>7
<1> HIDE DEF z
<1>10. /\ l.size \in [QMemPlace -> Pool!Cell \union {Pool!None}] /\ l.size[b] = n /\ l.size[c] = s - n
       /\ \A e \in QMemPlace : e # b /\ e # c => l.size[e] = m.size[e]
  BY <1>4, <1>5, <1>8, <1>9
<1>11. l \in QMemMemory
  BY <1>1, <1>7, <1>10, QMemMemoryIs DEF QMemMemory
<1>12. \A e \in H : e # b => l.size[e] = m.size[e]
  BY <1>2, <1>6, <1>10, QMemCells
<1>13. QMemShape(l, K)
  <2>1. K \subseteq Pool!Cell /\ 0 \in K /\ Pool!End \in K
    BY <1>2, <1>5
  <2>2. l.size[Pool!Start] = 0 /\ l.size[Pool!End] = 0
    <3>1. m.size[Pool!Start] = 0 /\ m.size[Pool!End] = 0 /\ Pool!Start \in QMemPlace /\ Pool!End \in QMemPlace /\ b # Pool!Start
      BY <1>1, <1>4, QMemCells DEF QMemShape
    <3> QED BY <1>4, <1>10, <3>1
  <2>3. ASSUME NEW e \in K \ {Pool!End}
        PROVE  /\ l.size[e] \in Nat /\ e < e + l.size[e] /\ e + l.size[e] \in K
               /\ \A g \in K : e < g => e + l.size[e] <= g
    <3>1. CASE e = b
      <4>1. ASSUME NEW g \in K, b < g PROVE c <= g
        <5>1. g \in H => b + s <= g
          BY <1>3, <1>4, <4>1 DEF s
        <5>2. g = c => c <= g
          BY <1>4
        <5>3. g \in H => g \in Nat
          BY <1>2
        <5> QED BY <1>4, <4>1, <5>1, <5>2, <5>3
      <4> QED BY <1>4, <1>10, <3>1, <4>1 DEF c
    <3>2. CASE e = c
      <4>1. ASSUME NEW g \in K, c < g PROVE b + s <= g
        <5>1. g \in H /\ b < g
          BY <1>2, <1>4, <4>1
        <5> QED BY <1>3, <1>4, <5>1 DEF s
      <4> QED BY <1>4, <1>10, <3>2, <4>1
    <3>3. CASE e # b /\ e # c
      <4>1. e \in H /\ e # Pool!End /\ l.size[e] = m.size[e]
        BY <1>12, <3>3
      <4>2. ASSUME e < c PROVE e + m.size[e] <= c
        <5>1. e < b
          <6>1. b < e => b + s <= e
            BY <1>3, <1>4, <4>1 DEF s
          <6> QED BY <1>2, <1>4, <3>3, <4>1, <4>2, <6>1
        <5>2. e + m.size[e] <= b
          BY <1>3, <4>1, <5>1
        <5> QED BY <1>2, <1>4, <4>1, <5>2
      <4> QED BY <1>2, <1>3, <4>1, <4>2
    <3> QED BY <3>1, <3>2, <3>3
  <2> QED BY <2>1, <2>2, <2>3 DEF QMemShape
<1>14. QMemLinked(l, F)
  BY <1>1, <1>7, QMemSameLinked
<1>15. PICK Q : QMemCounted(m, F, Q, T)
  BY DEF QMemLists
<1>16. QMemCounted(l, F, Q, T)
  <2>1. \A f \in F : l.size[f] = m.size[f]
    BY <1>1, <1>12
  <2>2. \A f \in F \union {Pool!Start} : l.next[f] = m.next[f]
    BY <1>7
  <2> QED BY <1>15, <2>1, <2>2, QMemSameCounted
<1>17. F \subseteq K \ {Pool!End}
  BY <1>1
<1>18. QMemLists(l, K, F, T)
  BY <1>11, <1>13, <1>14, <1>16, <1>17 DEF QMemLists
<1> QED BY <1>4, <1>5, <1>6, <1>7, <1>10, <1>12, <1>18 DEF l, c, s
-----------------------------------------------------------------------------
(* What the loops find. *)

\* The elements of the list, and the end marker from some element on.
LEMMA QMemListedIs ==
  ASSUME NEW m, NEW H, NEW F, QMemShape(m, H), F \subseteq H \ {Pool!End}, QMemLinked(m, F)
  PROVE  /\ Pool!Listed(m)[0] = Pool!Start
         /\ \A i \in 0 .. PoolCells - 1 :
              Pool!Listed(m)[i + 1] = IF Pool!Listed(m)[i] = Pool!End THEN Pool!End ELSE m.next[Pool!Listed(m)[i]]
         /\ \A i \in 1 .. PoolCells : Pool!Listed(m)[i] \in F \union {Pool!End} /\ Pool!Listed(m)[i] >= i - 1
<1> DEFINE S == F \union {Pool!Start, Pool!End}
           g == [b \in S |-> IF b \in {Pool!End, Pool!None} THEN Pool!End ELSE m.next[b]]
           W(w) == w = [i \in 0 .. PoolCells |->
                          IF i = 0 THEN Pool!Start
                          ELSE IF w[i - 1] \in {Pool!End, Pool!None} THEN Pool!End ELSE m.next[w[i - 1]]]
           l == Pool!Listed(m)
<1>1. /\ \A f \in F : f \in Nat /\ f < Pool!End /\ f \in H /\ f # Pool!End /\ f # Pool!Start /\ f \in Pool!Cell
      /\ \A f \in F \union {Pool!Start} : /\ m.next[f] \in F \union {Pool!End} /\ m.next[f] \in Nat
                                          /\ f < m.next[f] /\ m.next[f] <= Pool!End /\ f \in Int /\ f < Pool!End
  BY QMemLinkedIs
<1>2. g \in [S -> S]
  BY <1>1
<1>3. \E w : W(w)
  <2>1. Pool!Start \in S /\ PoolCells + 1 \in Nat /\ PoolCells \in Nat
    BY QMemCells
  <2>2. PICK v \in [1 .. PoolCells + 1 -> S] : IsWalk(v, Pool!Start, g, PoolCells + 1)
    <3> HIDE DEF g, S
    <3> QED BY <1>2, <2>1, WalkExists
  <2> DEFINE w == [i \in 0 .. PoolCells |-> v[i + 1]]
  <2>3. v = [i \in 1 .. PoolCells + 1 |-> IF i = 1 THEN Pool!Start ELSE g[v[i - 1]]]
    BY <2>2 DEF IsWalk
  <2>4. ASSUME NEW i \in 0 .. PoolCells
        PROVE  w[i] = IF i = 0 THEN Pool!Start
                      ELSE IF w[i - 1] \in {Pool!End, Pool!None} THEN Pool!End ELSE m.next[w[i - 1]]
    <3>1. w[i] = v[i + 1] /\ i + 1 \in 1 .. PoolCells + 1
      BY <2>1
    <3>2. v[i + 1] = IF i + 1 = 1 THEN Pool!Start ELSE g[v[(i + 1) - 1]]
      <4> HIDE DEF w, g
      <4> QED BY <2>3, <3>1
    <3>3. CASE i = 0
      BY <3>1, <3>2, <3>3
    <3>4. CASE i # 0
      <4>1. i - 1 \in 0 .. PoolCells /\ (i + 1) - 1 = (i - 1) + 1 /\ i \in 1 .. PoolCells + 1
            /\ i + 1 # 1 /\ (i + 1) - 1 = i /\ (i - 1) + 1 = i
        BY <2>1, <3>4
      <4>2. w[i - 1] = v[i] /\ v[i] \in S
        BY <4>1
      <4>3. v[i + 1] = g[v[i]]
        <5> HIDE DEF g, w
        <5> QED BY <3>2, <4>1
      <4> QED BY <3>1, <3>4, <4>2, <4>3
    <3> QED BY <3>3, <3>4
  <2>5. W(w)
    <3> DEFINE u == w
    <3>1. w = [i \in 0 .. PoolCells |-> w[i]]
      OBVIOUS
    <3> HIDE DEF w
    <3> QED BY <2>4, <3>1
  <2> HIDE DEF w, W
  <2> QED BY <2>5
<1>4. l = CHOOSE w : W(w)
  BY DEF Pool!Listed
<1>5. W(l)
  <2> HIDE DEF W, l
  <2> QED BY <1>3, <1>4
<1> HIDE DEF S, g, l
<1>6. 0 \in 0 .. PoolCells /\ PoolCells \in Nat
  BY QMemCells
<1>7. ASSUME NEW i \in 0 .. PoolCells - 1
      PROVE  l[i + 1] = IF l[i] \in {Pool!End, Pool!None} THEN Pool!End ELSE m.next[l[i]]
  <2>1. i + 1 \in 0 .. PoolCells /\ i + 1 # 0 /\ (i + 1) - 1 = i
    BY QMemCells
  <2> QED BY <1>5, <2>1
<1>8. l[0] = Pool!Start
  BY <1>5, <1>6
<1>9. \A f \in F \union {Pool!Start} : f # Pool!None /\ f # Pool!End
  BY <1>1, QMemCells DEF Pool!None
<1> DEFINE I == {k \in Nat : k + 1 \in 1 .. PoolCells => l[k + 1] \in F \union {Pool!End} /\ l[k + 1] >= k}
<1>10. I = Nat
  <2>1. I \in SUBSET Nat
    OBVIOUS
  <2>2. 0 \in I
    <3>1. l[0 + 1] = m.next[Pool!Start]
      BY <1>7, <1>8, <1>9, QMemCells
    <3> QED BY <1>1, <3>1
  <2>3. ASSUME NEW k \in I PROVE k + 1 \in I
    <3>1. SUFFICES ASSUME (k + 1) + 1 \in 1 .. PoolCells
                   PROVE  l[(k + 1) + 1] \in F \union {Pool!End} /\ l[(k + 1) + 1] >= k + 1
      OBVIOUS
    <3>2. k \in Nat /\ k + 1 \in 1 .. PoolCells /\ k + 1 \in 0 .. PoolCells - 1 /\ k + 1 <= Pool!End
      BY <3>1, <1>6, QMemCells
    <3>3. l[k + 1] \in F \union {Pool!End} /\ l[k + 1] >= k
      BY <3>2
    <3>4. l[(k + 1) + 1] = IF l[k + 1] \in {Pool!End, Pool!None} THEN Pool!End ELSE m.next[l[k + 1]]
      BY <1>7, <3>2
    <3>5. CASE l[k + 1] = Pool!End
      BY <3>2, <3>4, <3>5, QMemCells
    <3>6. CASE l[k + 1] # Pool!End
      <4>1. l[k + 1] \in F /\ l[(k + 1) + 1] = m.next[l[k + 1]]
        BY <1>9, <3>3, <3>4, <3>6
      <4>2. m.next[l[k + 1]] \in F \union {Pool!End} /\ l[k + 1] < m.next[l[k + 1]]
            /\ m.next[l[k + 1]] \in Nat /\ l[k + 1] \in Nat
        BY <1>1, <4>1
      <4> QED BY <3>2, <3>3, <4>1, <4>2
    <3> QED BY <3>5, <3>6
  <2> HIDE DEF I
  <2> QED BY <2>1, <2>2, <2>3, SetInduction
<1>11. ASSUME NEW i \in 1 .. PoolCells PROVE l[i] \in F \union {Pool!End} /\ l[i] >= i - 1
  <2>1. i - 1 \in Nat /\ (i - 1) + 1 = i
    OBVIOUS
  <2>2. i - 1 \in I
    BY <1>10, <2>1
  <2> QED BY <2>1, <2>2
<1>12. ASSUME NEW i \in 0 .. PoolCells - 1
       PROVE  l[i + 1] = IF l[i] = Pool!End THEN Pool!End ELSE m.next[l[i]]
  <2>1. l[i] \in F \union {Pool!Start, Pool!End}
    <3>1. CASE i = 0
      BY <1>8, <3>1
    <3>2. CASE i # 0
      <4>1. i \in 1 .. PoolCells
        BY <1>6, <3>2
      <4> QED BY <1>11, <4>1
    <3> QED BY <3>1, <3>2
  <2>2. l[i] # Pool!None
    BY <1>9, <2>1, QMemCells DEF Pool!None
  <2> QED BY <1>7, <2>2
<1> QED BY <1>8, <1>11, <1>12 DEF l

\* Behind the last element comes the end marker.
LEMMA QMemListEnds ==
  ASSUME NEW m, NEW H, NEW F, QMemShape(m, H), F \subseteq H \ {Pool!End}, QMemLinked(m, F)
  PROVE  Pool!Listed(m)[PoolCells] = Pool!End
<1>1. PoolCells \in 1 .. PoolCells /\ PoolCells - 1 = Pool!End
  BY QMemCells
<1>2. Pool!Listed(m)[PoolCells] \in F \union {Pool!End} /\ Pool!Listed(m)[PoolCells] >= Pool!End
  BY <1>1, QMemListedIs
<1>3. \A f \in F : f \in Nat /\ f < Pool!End
  BY QMemLinkedIs
<1> QED BY <1>2, <1>3, QMemCells

\* What qMemMang_InsertBlockIntoFreeList goes to.
LEMMA QMemBeforeIs ==
  ASSUME NEW m, NEW H, NEW F, QMemShape(m, H), F \subseteq H \ {Pool!End}, QMemLinked(m, F),
         NEW b \in H
  PROVE  Pool!Before(m, b) \in F \union {Pool!Start} /\ Pool!Before(m, b) < b /\ b <= m.next[Pool!Before(m, b)]
<1> DEFINE l == Pool!Listed(m)
           P(i) == i \in 0 .. PoolCells - 1 /\ l[i + 1] >= b /\ \A j \in 0 .. i - 1 : l[j + 1] < b
           S == {k \in 0 .. PoolCells - 1 : l[k + 1] >= b}
<1>1. /\ l[0] = Pool!Start
      /\ \A i \in 0 .. PoolCells - 1 : l[i + 1] = IF l[i] = Pool!End THEN Pool!End ELSE m.next[l[i]]
      /\ \A i \in 1 .. PoolCells : l[i] \in F \union {Pool!End} /\ l[i] >= i - 1
      /\ l[PoolCells] = Pool!End
  BY QMemListedIs, QMemListEnds
<1>2. b \in Nat /\ b <= Pool!End /\ Pool!End \in Nat
  BY QMemShapeIs, QMemCells
<1>3. \A f \in F : f \in Nat /\ f < Pool!End
  BY QMemLinkedIs
<1> HIDE DEF l
<1>4. \E i : P(i)
  <2>1. S \in SUBSET Nat /\ PoolCells - 1 \in S
    <3>1. PoolCells - 1 \in 0 .. PoolCells - 1 /\ (PoolCells - 1) + 1 = PoolCells
      BY QMemCells
    <3> QED BY <1>1, <1>2, <3>1
  <2>2. PICK k \in S : \A n \in S : k <= n
    <3> HIDE DEF S
    <3> QED BY <2>1, Least
  <2>3. k \in 0 .. PoolCells - 1 /\ l[k + 1] >= b
    OBVIOUS
  <2>4. ASSUME NEW j \in 0 .. k - 1 PROVE l[j + 1] < b
    <3>1. j \in 0 .. PoolCells - 1 /\ j < k /\ j \notin S
      BY <2>2, <2>3, QMemCells
    <3>2. j + 1 \in 1 .. PoolCells
      BY <3>1, QMemCells
    <3>3. l[j + 1] \in Nat
      BY <1>1, <1>2, <1>3, <3>2
    <3> QED BY <1>2, <3>1, <3>3
  <2>5. P(k)
    BY <2>3, <2>4
  <2> QED BY <2>5
<1> DEFINE i == CHOOSE i : P(i)
<1>5. Pool!Before(m, b) = l[i]
  BY DEF Pool!Before, l
<1>6. P(i)
  <2> HIDE DEF P
  <2> QED BY <1>4
<1> HIDE DEF i, S
<1>7. l[i] < b /\ l[i] \in F \union {Pool!Start}
  <2>1. CASE i = 0
    BY <1>1, <1>2, <2>1, QMemCells
  <2>2. CASE i # 0
    <3>1. i - 1 \in 0 .. i - 1 /\ (i - 1) + 1 = i /\ i \in 1 .. PoolCells
      BY <1>6, <2>2, QMemCells
    <3>2. l[i] < b /\ l[i] \in F \union {Pool!End}
      BY <1>1, <1>6, <3>1
    <3> QED BY <1>2, <3>2
  <2> QED BY <2>1, <2>2
<1>8. l[i] # Pool!End
  BY <1>2, <1>7
<1>9. m.next[l[i]] = l[i + 1] /\ l[i + 1] >= b
  BY <1>1, <1>6, <1>8
<1>10. i + 1 \in 1 .. PoolCells
  BY <1>6, QMemCells
<1>11. l[i + 1] \in Nat
  BY <1>1, <1>2, <1>3, <1>10
<1> QED BY <1>2, <1>5, <1>7, <1>9, <1>11

\* The list has all of the blocks F.
LEMMA QMemListReaches ==
  ASSUME NEW m, NEW H, NEW F, QMemShape(m, H), F \subseteq H \ {Pool!End}, QMemLinked(m, F)
  PROVE  \A f \in F : \E j \in 1 .. PoolCells : Pool!Listed(m)[j] = f
<1> DEFINE l == Pool!Listed(m)
<1>1. /\ l[0] = Pool!Start
      /\ \A i \in 0 .. PoolCells - 1 : l[i + 1] = IF l[i] = Pool!End THEN Pool!End ELSE m.next[l[i]]
      /\ \A i \in 1 .. PoolCells : l[i] \in F \union {Pool!End} /\ l[i] >= i - 1
      /\ l[PoolCells] = Pool!End
  BY QMemListedIs, QMemListEnds
<1>2. PoolCells \in Nat /\ PoolCells \in 1 .. PoolCells /\ Pool!Start # Pool!End
  BY QMemCells
<1>4. \A f \in F : f \in Nat /\ f < Pool!End
  BY QMemLinkedIs
<1> HIDE DEF l
<1>5. \A f \in F : \E j \in 1 .. PoolCells : l[j] = f
  <2> DEFINE w == [j \in 1 .. PoolCells |-> l[j]]
             K == F \union {Pool!End}
  <2>1. Tiles(K, m.next, l[1], Pool!End)
    <3>1. l[1] = m.next[Pool!Start] /\ l[0 + 1] = l[1]
      BY <1>1, <1>2
    <3>2. /\ m.next[Pool!Start] \in K /\ m.next[Pool!Start] \in Nat
          /\ \A f \in F : m.next[Pool!Start] <= f
      <4>1. /\ m.next[Pool!Start] \in F \union {Pool!End} /\ m.next[Pool!Start] \in Nat
            /\ \A g \in F : Pool!Start < g => m.next[Pool!Start] <= g
        BY QMemLinkedIs
      <4> QED BY <1>4, <4>1, QMemCells
    <3>3. K \subseteq l[1] .. Pool!End
      <4>1. m.next[Pool!Start] <= Pool!End
        BY QMemLinkedIs
      <4>2. ASSUME NEW f \in K PROVE f \in l[1] .. Pool!End
        <5>1. f \in Nat /\ f <= Pool!End
          BY <1>4, QMemCells
        <5>2. m.next[Pool!Start] <= f
          BY <3>2, <4>1
        <5> QED BY <3>1, <3>2, <5>1, <5>2, QMemCells
      <4> QED BY <4>2
    <3>4. ASSUME NEW e \in K \ {Pool!End}
          PROVE  m.next[e] \in K /\ e < m.next[e] /\ \A f \in K : e < f => m.next[e] <= f
      <4>1. e \in F
        OBVIOUS
      <4>2. m.next[e] \in K /\ e < m.next[e] /\ m.next[e] <= Pool!End /\ \A f \in F : e < f => m.next[e] <= f
        BY <4>1, QMemLinkedIs
      <4> QED BY <4>2
    <3> QED BY <3>1, <3>2, <3>3, <3>4 DEF Tiles
  <2>2. l[1] \in Nat /\ Pool!End \in Nat /\ l[1] \in K /\ K \ {Pool!End} \subseteq K /\ K \subseteq K
    <3>1. 1 \in 1 .. PoolCells
      BY <1>2
    <3>2. l[1] \in F \union {Pool!End}
      BY <1>1, <3>1
    <3> QED BY <1>4, <3>2, QMemCells
  <2>3. Within(K, l[1], PoolCells)
    <3>1. SUFFICES ASSUME NEW e \in K PROVE e - l[1] < PoolCells
      BY DEF Within
    <3>2. e \in Nat /\ e <= Pool!End
      BY <1>4, QMemCells
    <3> QED BY <2>2, <3>2, QMemCells
  <2>4. Follows(w, m.next, K, K, Pool!End, PoolCells)
    <3>1. SUFFICES ASSUME NEW j \in 1 .. PoolCells - 1, w[j] \in K \ {Pool!End} PROVE w[j + 1] = m.next[w[j]]
      BY DEF Follows
    <3>2. j \in 1 .. PoolCells /\ j + 1 \in 1 .. PoolCells /\ j \in 0 .. PoolCells - 1
      BY <1>2
    <3> QED BY <1>1, <3>1, <3>2
  <2>5. w[1] = l[1]
    BY <1>2
  <2>6. Reaches(w, K, PoolCells)
    <3> HIDE DEF w, K
    <3> QED BY <1>2, <2>1, <2>2, <2>3, <2>4, <2>5, WalkReaches
  <2> QED BY <2>6 DEF Reaches
<1> QED BY <1>5 DEF l

\* What qMemMang_Allocate finds.
LEMMA QMemFirstFitIs ==
  ASSUME NEW m, NEW H, NEW F, QMemShape(m, H), F \subseteq H \ {Pool!End}, QMemLinked(m, F), NEW n \in Nat
  PROVE  LET fit == Pool!FirstFit(m, n)
         IN  IF fit[2] = Pool!End THEN \A f \in F : m.size[f] < n
             ELSE /\ fit[2] \in F /\ m.size[fit[2]] >= n
                  /\ fit[1] \in F \union {Pool!Start} /\ m.next[fit[1]] = fit[2]
<1> DEFINE l == Pool!Listed(m)
           P(i) == i \in 1 .. PoolCells /\ (m.size[l[i]] >= n \/ l[i] = Pool!End)
                   /\ \A j \in 1 .. i - 1 : m.size[l[j]] < n
           S == {k \in 1 .. PoolCells : m.size[l[k]] >= n \/ l[k] = Pool!End}
<1>1. /\ l[0] = Pool!Start
      /\ \A i \in 0 .. PoolCells - 1 : l[i + 1] = IF l[i] = Pool!End THEN Pool!End ELSE m.next[l[i]]
      /\ \A i \in 1 .. PoolCells : l[i] \in F \union {Pool!End} /\ l[i] >= i - 1
      /\ l[PoolCells] = Pool!End
  BY QMemListedIs, QMemListEnds
<1>2. PoolCells \in Nat /\ PoolCells \in 1 .. PoolCells /\ Pool!Start # Pool!End
  BY QMemCells
<1>3. \A f \in F \union {Pool!End} : m.size[f] \in Nat
  BY QMemShapeIs
<1>4. \A f \in F : f \in Nat /\ f < Pool!End
  BY QMemLinkedIs
<1> HIDE DEF l
<1>5. \E i : P(i)
  <2>1. S \in SUBSET Nat /\ PoolCells \in S
    BY <1>1, <1>2
  <2>2. PICK k \in S : \A j \in S : k <= j
    <3> HIDE DEF S
    <3> QED BY <2>1, Least
  <2>3. k \in 1 .. PoolCells /\ (m.size[l[k]] >= n \/ l[k] = Pool!End)
    OBVIOUS
  <2>4. ASSUME NEW j \in 1 .. k - 1 PROVE m.size[l[j]] < n
    <3>1. j \in 1 .. PoolCells /\ j < k /\ j \notin S
      BY <2>2, <2>3, <1>2
    <3>2. m.size[l[j]] \in Nat
      BY <1>1, <1>3, <3>1
    <3> QED BY <3>1, <3>2
  <2>5. P(k)
    BY <2>3, <2>4
  <2> QED BY <2>5
<1> DEFINE i == CHOOSE i : P(i)
<1>6. Pool!FirstFit(m, n) = <<l[i - 1], l[i]>>
  BY DEF Pool!FirstFit, l
<1>7. P(i)
  <2> HIDE DEF P
  <2> QED BY <1>5
<1> HIDE DEF i, S
<1>8. i - 1 \in 0 .. PoolCells - 1 /\ (i - 1) + 1 = i /\ i \in Nat
  BY <1>2, <1>7
<1>9. l[i] = IF l[i - 1] = Pool!End THEN Pool!End ELSE m.next[l[i - 1]]
  BY <1>1, <1>8
<1>10. CASE l[i] # Pool!End
  <2>1. l[i] \in F /\ m.size[l[i]] >= n
    BY <1>1, <1>7, <1>10
  <2>2. l[i - 1] # Pool!End /\ m.next[l[i - 1]] = l[i]
    BY <1>9, <1>10
  <2>3. l[i - 1] \in F \union {Pool!Start}
    <3>1. CASE i = 1
      BY <1>1, <3>1
    <3>2. CASE i # 1
      <4>1. i - 1 \in 1 .. PoolCells
        BY <1>7, <1>8, <3>2, <1>2
      <4> QED BY <1>1, <2>2, <4>1
    <3> QED BY <3>1, <3>2
  <2> QED BY <1>6, <1>10, <2>1, <2>2, <2>3
<1>11. CASE l[i] = Pool!End
  <2> DEFINE D == {k \in Nat : k \in i .. PoolCells => l[k] = Pool!End}
  <2>1. \A f \in F : \E j \in 1 .. PoolCells : l[j] = f
    BY QMemListReaches DEF l
  <2>2. D = Nat
    <3>1. D \in SUBSET Nat
      OBVIOUS
    <3>2. 0 \in D
      BY <1>7
    <3>3. ASSUME NEW k \in D PROVE k + 1 \in D
      <4>1. SUFFICES ASSUME k + 1 \in i .. PoolCells PROVE l[k + 1] = Pool!End
        OBVIOUS
      <4>2. CASE k + 1 = i
        BY <1>11, <4>2
      <4>3. CASE k + 1 # i
        <5>1. k \in i .. PoolCells /\ k \in 0 .. PoolCells - 1
          BY <1>2, <1>7, <1>8, <4>1, <4>3
        <5>2. l[k] = Pool!End
          BY <5>1
        <5> QED BY <1>1, <5>1, <5>2
      <4> QED BY <4>2, <4>3
    <3> HIDE DEF D
    <3> QED BY <3>1, <3>2, <3>3, SetInduction
  <2>3. ASSUME NEW f \in F PROVE m.size[f] < n
    <3>1. PICK j \in 1 .. PoolCells : l[j] = f
      BY <2>1
    <3>2. f # Pool!End
      BY <1>4
    <3>3. j \notin i .. PoolCells
      <4>1. j \in D
        BY <2>2
      <4> QED BY <3>1, <3>2, <4>1
    <3>4. j \in 1 .. i - 1
      BY <1>2, <1>7, <1>8, <3>3
    <3> QED BY <1>7, <3>1, <3>4
  <2> QED BY <1>6, <1>11, <2>3
<1> QED BY <1>10, <1>11

\* The blocks one comes to from the first one on.
LEMMA QMemWalkedIs ==
  ASSUME NEW m, NEW H, QMemShape(m, H)
  PROVE  Pool!Walked(m) = H
<1> DEFINE f == [b \in H |-> IF b \in Pool!Cell \ {Pool!End} THEN b + m.size[b] ELSE b]
           g == [b \in H |-> b + m.size[b]]
           W(w) == w = [i \in 1 .. PoolCells |->
                          IF i = 1 THEN 0
                          ELSE IF w[i - 1] \in Pool!Cell \ {Pool!End} THEN w[i - 1] + m.size[w[i - 1]] ELSE w[i - 1]]
<1>1. /\ H \subseteq Pool!Cell /\ 0 \in H /\ Pool!End \in H /\ Pool!Start \notin H
      /\ \A e \in H : /\ e \in Nat /\ m.size[e] \in Nat /\ e <= Pool!End
                      /\ e # Pool!End => /\ e < Pool!End /\ m.size[e] > 0 /\ e + m.size[e] \in H
                                         /\ e + m.size[e] \in Nat /\ e + m.size[e] <= Pool!End
  BY QMemShapeIs
<1>2. f \in [H -> H]
  BY <1>1
<1>3. PoolCells \in Nat /\ Pool!End \in Nat /\ 0 \in Nat /\ 1 \in 1 .. PoolCells /\ Pool!End < PoolCells
  BY QMemCells
<1>4. PICK v \in [1 .. PoolCells -> H] : IsWalk(v, 0, f, PoolCells)
  <2> HIDE DEF f
  <2> QED BY <1>1, <1>2, <1>3, WalkExists
<1>5. \E w : W(w)
  <2>1. ASSUME NEW i \in 1 .. PoolCells, i # 1
        PROVE  f[v[i - 1]] = IF v[i - 1] \in Pool!Cell \ {Pool!End} THEN v[i - 1] + m.size[v[i - 1]] ELSE v[i - 1]
    <3>1. i - 1 \in 1 .. PoolCells
      BY <2>1, <1>3
    <3>2. v[i - 1] \in H
      BY <3>1
    <3> QED BY <3>2
  <2>2. W(v)
    <3> HIDE DEF f
    <3> QED BY <1>4, <2>1 DEF IsWalk
  <2> QED BY <2>2
<1> DEFINE w == CHOOSE w : W(w)
<1>6. Pool!Walked(m) = {w[i] : i \in 1 .. PoolCells}
  BY DEF Pool!Walked
<1>7. W(w)
  <2> HIDE DEF W
  <2> QED BY <1>5
<1> HIDE DEF w, f
<1>8. w[1] = 0
  BY <1>3, <1>7
<1>9. ASSUME NEW i \in 1 .. PoolCells - 1
      PROVE  w[i + 1] = IF w[i] \in Pool!Cell \ {Pool!End} THEN w[i] + m.size[w[i]] ELSE w[i]
  <2>1. i + 1 \in 1 .. PoolCells /\ i + 1 # 1 /\ (i + 1) - 1 = i
    BY <1>3
  <2> QED BY <1>7, <2>1
<1>10. \A i \in 1 .. PoolCells : w[i] \in H
  <2>1. ASSUME NEW i \in 1 .. PoolCells - 1, w[i] \in H PROVE w[i + 1] \in H
    BY <1>1, <1>9, <2>1
  <2> QED BY <1>1, <1>3, <1>8, <2>1, WalkStays
<1>11. Tiles(H, g, 0, Pool!End)
  <2>1. ASSUME NEW e \in H \ {Pool!End} PROVE g[e] \in H /\ e < g[e] /\ \A k \in H : e < k => g[e] <= k
    BY DEF QMemShape
  <2>2. H \subseteq 0 .. Pool!End
    BY <1>1, QMemCells
  <2> QED BY <1>1, <2>1, <2>2 DEF Tiles
<1>12. Reaches(w, H, PoolCells)
  <2>1. Within(H, 0, PoolCells)
    BY <1>1, <1>3 DEF Within
  <2>2. Follows(w, g, H, H, Pool!End, PoolCells)
    <3>1. SUFFICES ASSUME NEW i \in 1 .. PoolCells - 1, w[i] \in H \ {Pool!End} PROVE w[i + 1] = g[w[i]]
      BY DEF Follows
    <3>2. w[i] \in Pool!Cell \ {Pool!End}
      BY <1>1, <3>1
    <3> QED BY <1>9, <3>1, <3>2
  <2>3. H \ {Pool!End} \subseteq H /\ H \subseteq H
    OBVIOUS
  <2> HIDE DEF g
  <2> QED BY <1>1, <1>3, <1>8, <1>11, <2>1, <2>2, <2>3, WalkReaches
<1>13. \A e \in H : \E i \in 1 .. PoolCells : w[i] = e
  BY <1>12 DEF Reaches
<1> QED BY <1>6, <1>10, <1>13
-----------------------------------------------------------------------------
(* qMemMang_InsertBlockIntoFreeList. *)

\* No two blocks of the list lie side by side.
QMemApart(m, F) == \A f \in F : f + m.size[f] \notin F

\* l is m with the block b put on the list, where it is joined to those beside it.
QMemInserted(l, m, H, F, T, b) ==
  \E K, G :
    /\ QMemLists(l, K, G, T + m.size[b]) /\ K \ G = (H \ F) \ {b}
    /\ \A e \in K \ G : l.size[e] = m.size[e]
    /\ QMemApart(m, F) => QMemApart(l, G)

\* Block b, which is not on the list, lies behind i, and the list goes on with n.
QMemBetween(m, H, F, b, i, n) ==
  /\ b \in H /\ b \notin F /\ b # Pool!End /\ i \in F \union {Pool!Start} /\ i < b /\ b < n /\ n = m.next[i]

LEMMA QMemBetweenIs ==
  ASSUME NEW m, NEW H, NEW F, NEW T, QMemLists(m, H, F, T), NEW b, NEW i, NEW n, QMemBetween(m, H, F, b, i, n)
  PROVE  /\ m \in QMemMemory /\ m.size[b] \in Nat /\ b \in Nat /\ b \in Pool!Cell /\ b \in QMemPlace /\ i \in Int /\ i \in QMemPlace
         /\ i # b /\ n \in Nat /\ n \in Pool!Cell /\ n # b /\ n # i /\ n \in F \union {Pool!End} /\ n \in H
         /\ b + m.size[b] <= n /\ m.size[b] > 0 /\ b # Pool!Start
         /\ i \in F => i \in Nat /\ m.size[i] \in Nat /\ i + m.size[i] <= b
         /\ i = Pool!Start => i + m.size[i] # b
         /\ \A f \in F : /\ f \in Nat /\ m.size[f] \in Nat /\ f # b /\ f # Pool!End /\ f \in QMemPlace
                         /\ f # i => f + m.size[f] # b
                         /\ f > b => f >= n
<1>1. m \in QMemMemory /\ QMemShape(m, H) /\ F \subseteq H \ {Pool!End} /\ QMemLinked(m, F)
  BY DEF QMemLists
<1>2. /\ H \subseteq Pool!Cell /\ 0 \in H /\ Pool!End \in H /\ Pool!Start \notin H
      /\ \A e \in H : /\ e \in Nat /\ m.size[e] \in Nat /\ e <= Pool!End
                      /\ e # Pool!End => /\ e < Pool!End /\ m.size[e] > 0 /\ e + m.size[e] \in H
                                         /\ e + m.size[e] \in Nat /\ e + m.size[e] <= Pool!End
  BY <1>1, QMemShapeIs
<1>3. \A e \in H \ {Pool!End} : \A g \in H : e < g => e + m.size[e] <= g
  BY <1>1 DEF QMemShape
<1>4. /\ \A f \in F : f \in Nat /\ f < Pool!End /\ f \in H /\ f # Pool!End /\ f # Pool!Start /\ f \in Pool!Cell
      /\ \A f \in F \union {Pool!Start} : /\ m.next[f] \in F \union {Pool!End} /\ m.next[f] \in Nat
                                          /\ f < m.next[f] /\ m.next[f] <= Pool!End /\ f \in Int /\ f < Pool!End
                                          /\ m.next[f] \in H /\ m.next[f] # Pool!Start
                                          /\ \A g \in F : f < g => m.next[f] <= g
  BY <1>1, QMemLinkedIs
<1>5. /\ b \in H /\ b \notin F /\ b # Pool!End /\ i \in F \union {Pool!Start} /\ i < b /\ b < n /\ n = m.next[i]
  BY DEF QMemBetween
<1>6. b \in Nat /\ m.size[b] \in Nat /\ m.size[b] > 0 /\ b \in Pool!Cell /\ b # Pool!Start /\ b \in QMemPlace
  BY <1>2, <1>5, QMemCells
<1>7. n \in F \union {Pool!End} /\ n \in Nat /\ n \in H /\ i \in Int /\ n \in Pool!Cell /\ n # i
  BY <1>2, <1>4, <1>5
<1>8. b + m.size[b] <= n
  BY <1>3, <1>5, <1>7
<1>9. i \in QMemPlace
  BY <1>4, <1>5, QMemCells
<1>10. i \in F => i \in Nat /\ m.size[i] \in Nat /\ i + m.size[i] <= b
  BY <1>2, <1>3, <1>4, <1>5
<1>11. i = Pool!Start => i + m.size[i] # b
  BY <1>1, <1>6, QMemCells DEF QMemShape
<1>12. \A g \in F : i < g => n <= g
  BY <1>4, <1>5
<1>13. ASSUME NEW f \in F
       PROVE  /\ f \in Nat /\ m.size[f] \in Nat /\ f # b /\ f # Pool!End /\ f \in QMemPlace
              /\ f # i => f + m.size[f] # b
              /\ f > b => f >= n
  <2>1. f \in Nat /\ m.size[f] \in Nat /\ f # b /\ f # Pool!End /\ f \in H /\ f \in QMemPlace /\ m.size[f] > 0
    BY <1>2, <1>4, <1>5, QMemCells
  <2>2. f > b => f >= n
    BY <1>5, <1>6, <1>7, <1>12, <2>1
  <2>3. ASSUME f # i PROVE f + m.size[f] # b
    <3>1. CASE f < i
      <4>1. i \in H
        BY <1>4, <1>5, <2>1, <3>1, QMemCells
      <4>2. f + m.size[f] <= i
        BY <1>3, <2>1, <3>1, <4>1
      <4> QED BY <1>5, <1>6, <1>7, <2>1, <4>2
    <3>2. CASE f > i
      <4>1. n <= f
        BY <1>7, <1>12, <2>1, <3>2
      <4> QED BY <1>5, <1>6, <1>7, <2>1, <4>1
    <3> QED BY <1>7, <2>1, <2>3, <3>1, <3>2
  <2> QED BY <2>1, <2>2, <2>3
<1> QED BY <1>1, <1>5, <1>6, <1>7, <1>8, <1>9, <1>10, <1>11, <1>13

\* p is m with b on the list.
QMemIsPlain(p, m, H, F, T, b, i, n) ==
  /\ QMemLists(p, H, F \union {b}, T + m.size[b]) /\ p.size = m.size
  /\ p.next[b] = n /\ p.next[i] = b
  /\ \A f \in F : f # i => p.next[f] = m.next[f]

LEMMA QMemPlainBetween ==
  ASSUME NEW m, NEW H, NEW F, NEW T \in Nat, QMemLists(m, H, F, T), NEW b, NEW i, NEW n,
         QMemBetween(m, H, F, b, i, n)
  PROVE  QMemIsPlain(QMemPlain(m, b, i), m, H, F, T, b, i, n)
<1>1. /\ b \in H /\ b \notin F /\ b # Pool!End /\ i \in F \union {Pool!Start} /\ i < b /\ b < m.next[i]
      /\ n = m.next[i]
  BY DEF QMemBetween
<1>2. /\ QMemLists(QMemPlain(m, b, i), H, F \union {b}, T + m.size[b]) /\ QMemPlain(m, b, i).size = m.size
      /\ QMemPlain(m, b, i).next[b] = m.next[i] /\ QMemPlain(m, b, i).next[i] = b
      /\ \A f \in F : f # i => QMemPlain(m, b, i).next[f] = m.next[f]
  <2>1. /\ T \in Nat /\ QMemLists(m, H, F, T) /\ b \in H /\ b \notin F /\ b # Pool!End
        /\ i \in F \union {Pool!Start} /\ i < b /\ b < m.next[i]
    BY <1>1
  <2> QED BY ONLY <2>1, QMemPlainLists
<1> QED BY <1>1, <1>2 DEF QMemIsPlain

\* Nothing is joined.
LEMMA QMemInsertPlain ==
  ASSUME NEW m, NEW H, NEW F, NEW T \in Nat, QMemLists(m, H, F, T), NEW b, NEW i, NEW n,
         QMemBetween(m, H, F, b, i, n), i + m.size[i] # b, ~(b + m.size[b] = n /\ n # Pool!End)
  PROVE  QMemInserted(QMemPlain(m, b, i), m, H, F, T, b)
<1> DEFINE l == QMemPlain(m, b, i)
           G == F \union {b}
<1>1. /\ QMemLists(l, H, G, T + m.size[b]) /\ l.size = m.size
  <2>1. QMemIsPlain(QMemPlain(m, b, i), m, H, F, T, b, i, n)
    BY QMemPlainBetween
  <2> QED BY <2>1 DEF QMemIsPlain
<1>2. /\ m.size[b] \in Nat /\ b \in Nat /\ n \in Nat /\ n # b /\ n \in F \union {Pool!End}
      /\ b + m.size[b] <= n /\ m.size[b] > 0
      /\ \A f \in F : /\ f \in Nat /\ m.size[f] \in Nat /\ f # b /\ f # Pool!End /\ f \in QMemPlace
                      /\ f # i => f + m.size[f] # b
                      /\ f > b => f >= n
  BY QMemBetweenIs
<1> HIDE DEF l
<1>3. ASSUME QMemApart(m, F), NEW f \in G PROVE f + l.size[f] \notin G
  <2>1. CASE f = b
    <3>1. b + m.size[b] # b
      BY <1>2
    <3>2. ASSUME b + m.size[b] \in F PROVE FALSE
      <4>1. b + m.size[b] >= n /\ b + m.size[b] # Pool!End
        BY <1>2, <3>2
      <4>2. b + m.size[b] = n
        BY <1>2, <4>1
      <4> QED BY <4>1, <4>2
    <3> QED BY <1>1, <2>1, <3>1, <3>2
  <2>2. CASE f # b
    BY <1>1, <1>2, <1>3, <2>2 DEF QMemApart
  <2> QED BY <2>1, <2>2
<1>4. QMemApart(m, F) => QMemApart(l, G)
  BY <1>3 DEF QMemApart
<1>5. H \ G = (H \ F) \ {b} /\ \A e \in H \ G : l.size[e] = m.size[e]
  BY <1>1
<1> HIDE DEF G
<1> QED BY <1>1, <1>4, <1>5 DEF QMemInserted, l

\* It takes up the block behind it.
LEMMA QMemInsertBefore ==
  ASSUME NEW m, NEW H, NEW F, NEW T \in Nat, QMemLists(m, H, F, T), NEW b, NEW i, NEW n,
         QMemBetween(m, H, F, b, i, n), i + m.size[i] # b, b + m.size[b] = n, n # Pool!End
  PROVE  QMemInserted(QMemJoined(QMemPlain(m, b, i), b), m, H, F, T, b)
<1> DEFINE p == QMemPlain(m, b, i)
           l == QMemJoined(p, b)
           E == F \union {b}
           K == H \ {n}
           G == E \ {n}
<1>1. /\ QMemLists(p, H, E, T + m.size[b]) /\ p.size = m.size /\ p.next[b] = n
  <2>1. QMemIsPlain(QMemPlain(m, b, i), m, H, F, T, b, i, n)
    BY QMemPlainBetween
  <2> QED BY <2>1 DEF QMemIsPlain
<1>2. /\ m.size[b] \in Nat /\ b \in Nat /\ n \in Nat /\ n # b /\ n \in F \union {Pool!End} /\ b \in QMemPlace
      /\ b + m.size[b] <= n /\ m.size[b] > 0
      /\ \A f \in F : /\ f \in Nat /\ m.size[f] \in Nat /\ f # b /\ f # Pool!End /\ f \in QMemPlace
                      /\ f # i => f + m.size[f] # b
                      /\ f > b => f >= n
  BY QMemBetweenIs
<1>3. b \in E /\ n \in E /\ n \in F
  BY <1>2
<1> HIDE DEF p
<1>4. /\ QMemLists(l, K, G, T + m.size[b]) /\ l.size[b] = p.size[b] + p.size[n]
      /\ \A e \in QMemPlace : e # b => l.size[e] = p.size[e]
  <2> HIDE DEF E
  <2>1. b + p.size[b] = n
    BY <1>1
  <2> QED BY <1>1, <1>3, <2>1, QMemJoinedLists
<1> HIDE DEF l
<1>5. l.size[b] = m.size[b] + m.size[n] /\ m.size[n] \in Nat /\ b + (m.size[b] + m.size[n]) = n + m.size[n]
  BY <1>1, <1>2, <1>3, <1>4
<1>6. ASSUME QMemApart(m, F), NEW f \in G PROVE f + l.size[f] \notin G
  <2>1. CASE f = b
    <3>1. n + m.size[n] \notin F /\ n + m.size[n] # b
      BY <1>2, <1>3, <1>5, <1>6 DEF QMemApart
    <3> QED BY <1>5, <2>1, <3>1
  <2>2. CASE f # b
    <3>1. f \in F /\ l.size[f] = m.size[f]
      BY <1>1, <1>2, <1>4, <2>2
    <3> QED BY <1>2, <1>6, <3>1 DEF QMemApart
  <2> QED BY <2>1, <2>2
<1>7. QMemApart(m, F) => QMemApart(l, G)
  BY <1>6 DEF QMemApart
<1>8. K \ G = (H \ F) \ {b}
  BY <1>2, <1>3
<1>9. \A e \in K \ G : l.size[e] = m.size[e]
  <2>1. \A e \in H : e \in QMemPlace
    BY QMemShapeIs, QMemCells DEF QMemLists
  <2>2. \A e \in K \ G : e \in H /\ e # b
    BY <1>2
  <2> QED BY <1>1, <1>4, <2>1, <2>2
<1> HIDE DEF G, K
<1>10. QMemInserted(l, m, H, F, T, b)
  BY <1>4, <1>7, <1>8, <1>9 DEF QMemInserted
<1> QED BY <1>1, <1>3, <1>10 DEF l, p

\* p is m with b joined to i, the block in front of it.
QMemIsBehind(p, m, H, F, T, b, i, n) ==
  /\ ~(b + m.size[b] = n /\ n # Pool!End) => QMemInserted(p, m, H, F, T, b)
  /\ i \in F /\ QMemLists(p, H \ {b}, F, T + m.size[b])
  /\ p.next[i] = n /\ p.size[i] = m.size[i] + m.size[b]
  /\ \A e \in QMemPlace : /\ e # i => p.size[e] = m.size[e]
                          /\ e \in F /\ e # i => p.next[e] = m.next[e]
  /\ p.next[Pool!Start] = m.next[Pool!Start] /\ p \in QMemMemory

\* It is taken up by the block in front of it.
LEMMA QMemInsertBehind ==
  ASSUME NEW m, NEW H, NEW F, NEW T \in Nat, QMemLists(m, H, F, T), NEW b, NEW i, NEW n,
         QMemBetween(m, H, F, b, i, n), i + m.size[i] = b
  PROVE  QMemIsBehind(QMemJoined(QMemPlain(m, b, i), i), m, H, F, T, b, i, n)
<1> DEFINE p == QMemPlain(m, b, i)
           l == QMemJoined(p, i)
           E == F \union {b}
           K == H \ {b}
<1>1. /\ QMemLists(p, H, E, T + m.size[b]) /\ p.size = m.size /\ p.next[b] = n /\ p.next[i] = b
      /\ \A f \in F : f # i => p.next[f] = m.next[f]
  <2>1. QMemIsPlain(QMemPlain(m, b, i), m, H, F, T, b, i, n)
    BY QMemPlainBetween
  <2> QED BY <2>1 DEF QMemIsPlain
<1>2. /\ m.size[b] \in Nat /\ b \in Nat /\ n \in Nat /\ n # b /\ n \in F \union {Pool!End} /\ i \in QMemPlace
      /\ b + m.size[b] <= n /\ m.size[b] > 0 /\ i # b /\ n # i
      /\ i = Pool!Start => i + m.size[i] # b
      /\ \A f \in F : /\ f \in Nat /\ m.size[f] \in Nat /\ f # b /\ f # Pool!End /\ f \in QMemPlace
                      /\ f # i => f + m.size[f] # b
                      /\ f > b => f >= n
  BY QMemBetweenIs
<1>3. i \in E /\ b \in E /\ i \in F /\ b \notin F
  BY <1>2 DEF QMemBetween
<1>4. m.next \in [QMemPlace -> Pool!Cell \union {Pool!None}] /\ b # Pool!Start /\ i # Pool!Start
  <2>1. m \in QMemMemory /\ b # Pool!Start
    BY QMemBetweenIs
  <2>2. i # Pool!Start
    BY <1>3, QMemLinkedIs DEF QMemLists
  <2> QED BY <2>1, <2>2, QMemMemoryIs
<1>5. p.next[Pool!Start] = m.next[Pool!Start]
  <2>1. p.next = [m.next EXCEPT ![i] = b, ![b] = m.next[i]]
    BY <1>4, QMemBetweenIs DEF QMemPlain, QMemMemory
  <2>2. Pool!Start \in QMemPlace
    BY QMemCells
  <2> HIDE DEF p
  <2> QED BY <1>4, <2>1, <2>2
<1> HIDE DEF p
<1>6. /\ QMemLists(l, K, E \ {b}, T + m.size[b]) /\ l.size[i] = p.size[i] + p.size[b] /\ l.next[i] = p.next[b]
      /\ \A e \in QMemPlace : e # i => l.size[e] = p.size[e] /\ l.next[e] = p.next[e]
  <2> HIDE DEF E, K
  <2>1. /\ QMemLists(p, H, E, T + m.size[b]) /\ i \in E /\ b \in E /\ p.next[i] = b /\ i + p.size[i] = b
    BY <1>1, <1>3
  <2>2. /\ QMemLists(QMemJoined(p, i), H \ {b}, E \ {b}, T + m.size[b])
        /\ QMemJoined(p, i).size[i] = p.size[i] + p.size[b] /\ QMemJoined(p, i).next[i] = p.next[b]
        /\ \A e \in QMemPlace : e # i => QMemJoined(p, i).size[e] = p.size[e] /\ QMemJoined(p, i).next[e] = p.next[e]
    BY ONLY <2>1, QMemJoinedLists, SMTT(20)
  <2> QED BY <2>2 DEF K
<1>7. E \ {b} = F
  BY <1>3
<1> HIDE DEF l
<1>8. l.size[i] = m.size[i] + m.size[b] /\ m.size[i] \in Nat /\ i \in Nat
      /\ i + (m.size[i] + m.size[b]) = b + m.size[b]
  BY <1>1, <1>2, <1>3, <1>6
<1>9. ASSUME QMemApart(m, F), ~(b + m.size[b] = n /\ n # Pool!End), NEW f \in F PROVE f + l.size[f] \notin F
  <2>1. CASE f = i
    <3>1. ASSUME b + m.size[b] \in F PROVE FALSE
      <4>1. b + m.size[b] >= n /\ b + m.size[b] # Pool!End
        BY <1>2, <3>1
      <4>2. b + m.size[b] = n
        BY <1>2, <4>1
      <4> QED BY <1>9, <4>1, <4>2
    <3> QED BY <1>8, <2>1, <3>1
  <2>2. CASE f # i
    <3>1. l.size[f] = m.size[f]
      BY <1>1, <1>2, <1>6, <2>2
    <3> QED BY <1>9, <3>1 DEF QMemApart
  <2> QED BY <2>1, <2>2
<1>10. ~(b + m.size[b] = n /\ n # Pool!End) => (QMemApart(m, F) => QMemApart(l, F))
  BY <1>9 DEF QMemApart
<1>11. K \ F = (H \ F) \ {b}
  OBVIOUS
<1>12. \A e \in K \ F : l.size[e] = m.size[e]
  <2>1. \A e \in H : e \in QMemPlace
    BY QMemShapeIs, QMemCells DEF QMemLists
  <2>2. \A e \in K \ F : e \in H /\ e # i
    BY <1>3
  <2> QED BY <1>1, <1>6, <2>1, <2>2
<1>13. QMemLists(l, K, F, T + m.size[b])
  BY <1>6, <1>7
<1>14. ASSUME ~(b + m.size[b] = n /\ n # Pool!End) PROVE QMemInserted(l, m, H, F, T, b)
  <2> HIDE DEF K
  <2> QED BY <1>10, <1>11, <1>12, <1>13, <1>14 DEF QMemInserted
<1>15. \A e \in QMemPlace : /\ e # i => l.size[e] = m.size[e]
                            /\ e \in F /\ e # i => l.next[e] = m.next[e]
  BY <1>1, <1>6
<1>16. l.next[Pool!Start] = m.next[Pool!Start] /\ l.next[i] = n /\ l \in QMemMemory
  BY <1>1, <1>4, <1>5, <1>6, <1>13, QMemCells DEF QMemLists
<1> QED BY <1>3, <1>8, <1>13, <1>14, <1>15, <1>16 DEF l, p, K, QMemIsBehind

\* Both.
LEMMA QMemInsertBoth ==
  ASSUME NEW m, NEW H, NEW F, NEW T \in Nat, QMemLists(m, H, F, T), NEW b, NEW i, NEW n,
         QMemBetween(m, H, F, b, i, n), i + m.size[i] = b, b + m.size[b] = n, n # Pool!End,
         NEW l \in QMemMemory, l.size = [m.size EXCEPT ![i] = m.size[i] + m.size[b] + m.size[n]],
         l.next = [m.next EXCEPT ![i] = m.next[n]]
  PROVE  QMemInserted(l, m, H, F, T, b)
<1> DEFINE p == QMemJoined(QMemPlain(m, b, i), i)
<1>1. /\ i \in F /\ QMemLists(p, H \ {b}, F, T + m.size[b])
      /\ p.next[i] = n /\ p.size[i] = m.size[i] + m.size[b]
      /\ \A e \in QMemPlace : /\ e # i => p.size[e] = m.size[e]
                              /\ e \in F /\ e # i => p.next[e] = m.next[e]
      /\ p.next[Pool!Start] = m.next[Pool!Start] /\ p \in QMemMemory
  <2>1. QMemIsBehind(QMemJoined(QMemPlain(m, b, i), i), m, H, F, T, b, i, n)
    BY QMemInsertBehind
  <2> QED BY <2>1 DEF QMemIsBehind
<1> DEFINE q == QMemJoined(p, i)
           K == (H \ {b}) \ {n}
           G == F \ {n}
<1>2. /\ m.size[b] \in Nat /\ b \in Nat /\ n \in Nat /\ n # b /\ n \in F \union {Pool!End} /\ i \in QMemPlace
      /\ b + m.size[b] <= n /\ m.size[b] > 0 /\ i # b /\ n # i /\ n \in Pool!Cell /\ n \in QMemPlace /\ m \in QMemMemory
      /\ \A f \in F : /\ f \in Nat /\ m.size[f] \in Nat /\ f # b /\ f # Pool!End /\ f \in QMemPlace
                      /\ f # i => f + m.size[f] # b
                      /\ f > b => f >= n
  BY QMemBetweenIs, QMemCells
<1>3. n \in F /\ b \notin F
  BY <1>2 DEF QMemBetween
<1> HIDE DEF p
<1>4. i + p.size[i] = n
  BY <1>1, <1>2
<1>5. /\ QMemLists(q, (H \ {b}) \ {n}, G, T + m.size[b])
      /\ q.size[i] = p.size[i] + p.size[n] /\ q.next[i] = p.next[n]
      /\ \A e \in QMemPlace : e # i => q.size[e] = p.size[e] /\ q.next[e] = p.next[e]
  <2> DEFINE R == H \ {b}
             U == T + m.size[b]
  <2>1. QMemLists(p, R, F, U) /\ i \in F /\ n \in F /\ p.next[i] = n /\ i + p.size[i] = n
    BY <1>1, <1>3, <1>4
  <2> HIDE DEF R, U
  <2>2. /\ QMemLists(QMemJoined(p, i), R \ {n}, F \ {n}, U)
        /\ QMemJoined(p, i).size[i] = p.size[i] + p.size[n] /\ QMemJoined(p, i).next[i] = p.next[n]
        /\ \A e \in QMemPlace : e # i => QMemJoined(p, i).size[e] = p.size[e] /\ QMemJoined(p, i).next[e] = p.next[e]
    BY ONLY <2>1, QMemJoinedLists, SMTT(20)
  <2> QED BY <2>2 DEF R, U
<1> HIDE DEF q
<1>6. m.next \in [QMemPlace -> Pool!Cell \union {Pool!None}] /\ m.size \in [QMemPlace -> Pool!Cell \union {Pool!None}]
  BY <1>2, QMemMemoryIs
<1>7. /\ l.size[i] = m.size[i] + m.size[b] + m.size[n] /\ l.next[i] = m.next[n]
      /\ \A e \in QMemPlace : e # i => l.size[e] = m.size[e] /\ l.next[e] = m.next[e]
  BY <1>2, <1>6
<1>8. \A e \in QMemPlace : l.size[e] = q.size[e]
  BY <1>1, <1>2, <1>5, <1>7
<1>9. \A f \in G \union {Pool!Start} : l.next[f] = q.next[f]
  <2>1. Pool!Start \in QMemPlace /\ i # Pool!Start
    BY <1>1, <1>2, QMemCells
  <2>2. ASSUME NEW f \in G PROVE l.next[f] = q.next[f]
    BY <1>1, <1>2, <1>3, <1>5, <1>7
  <2>3. l.next[Pool!Start] = q.next[Pool!Start]
    BY <1>1, <1>5, <1>7, <2>1
  <2> QED BY <2>2, <2>3
<1>10. \A e \in H \union {Pool!Start} : e \in QMemPlace
  BY QMemShapeIs, QMemCells DEF QMemLists
<1>11. QMemLists(l, K, G, T + m.size[b])
  <2>1. l.size[Pool!Start] = q.size[Pool!Start] /\ \A e \in K : l.size[e] = q.size[e]
    BY <1>8, <1>10
  <2>2. QMemLists(q, K, G, T + m.size[b])
    BY <1>5
  <2> HIDE DEF K, G
  <2> QED BY <1>9, <2>1, <2>2, QMemSameLists
<1>12. ASSUME QMemApart(m, F), NEW f \in G PROVE f + l.size[f] \notin G
  <2>1. CASE f = i
    <3>1. n + m.size[n] \notin F
      BY <1>3, <1>12 DEF QMemApart
    <3>2. i + (m.size[i] + m.size[b] + m.size[n]) = n + m.size[n]
      <4>1. i \in Nat /\ m.size[i] \in Nat /\ m.size[b] \in Nat /\ m.size[n] \in Nat
        BY <1>1, <1>2, <1>3
      <4> QED BY <4>1
    <3> QED BY <1>7, <2>1, <3>1, <3>2
  <2>2. CASE f # i
    <3>1. l.size[f] = m.size[f] /\ f \in F
      BY <1>2, <1>7, <2>2
    <3> QED BY <1>12, <3>1 DEF QMemApart
  <2> QED BY <2>1, <2>2
<1>13. QMemApart(m, F) => QMemApart(l, G)
  BY <1>12 DEF QMemApart
<1>14. K \ G = (H \ F) \ {b}
  BY <1>3
<1>15. \A e \in K \ G : l.size[e] = m.size[e]
  <2>1. \A e \in K \ G : e \in QMemPlace /\ e # i
    BY <1>1, <1>2, <1>10
  <2> QED BY <1>7, <2>1
<1> HIDE DEF K, G
<1> QED BY <1>11, <1>13, <1>14, <1>15 DEF QMemInserted

\* The block is put where it belongs, whatever it is joined to.
QMemInsertDone(l, m, H, F, T, b) ==
  QMemInserted(l, m, H, F, T, b) /\ l.used = m.used /\ l.free = m.free /\ l.data = m.data

LEMMA QMemInsertLists ==
  ASSUME NEW m, NEW H, NEW F, NEW T \in Nat, QMemLists(m, H, F, T), NEW b \in H, b \notin F, b # Pool!End
  PROVE  QMemInsertDone(Pool!Insert(m, b), m, H, F, T, b)
<1> DEFINE i == Pool!Before(m, b)
           n == m.next[i]
           s == m.size[i] + m.size[b]
           l == Pool!Insert(m, b)
<1>1. QMemShape(m, H) /\ F \subseteq H \ {Pool!End} /\ QMemLinked(m, F) /\ m \in QMemMemory
  BY DEF QMemLists
<1>2. i \in F \union {Pool!Start} /\ i < b /\ b <= n
  BY <1>1, QMemBeforeIs
<1>3. QMemBetween(m, H, F, b, i, n)
  <2>1. n \in F \union {Pool!End} /\ n \in Nat
    BY <1>1, <1>2, QMemLinkedIs
  <2>2. b \in Nat
    BY <1>1, QMemShapeIs
  <2> QED BY <1>2, <2>1, <2>2 DEF QMemBetween
<1> HIDE DEF i, n
<1>4. /\ b \in QMemPlace /\ i \in QMemPlace /\ i # b /\ n \in Pool!Cell /\ n \in Nat /\ n # b /\ n # i
      /\ m.size[b] \in Nat /\ b \in Pool!Cell /\ n \in F \union {Pool!End} /\ n \in QMemPlace
      /\ i \in F => m.size[i] \in Nat /\ i \in Nat
      /\ i = Pool!Start => i + m.size[i] # b
  BY <1>3, QMemBetweenIs, QMemCells
<1>5. m.next \in [QMemPlace -> Pool!Cell \union {Pool!None}] /\ m.size \in [QMemPlace -> Pool!Cell \union {Pool!None}]
  BY <1>1, QMemMemoryIs
<1>6. l = IF i + m.size[i] # b
          THEN IF b + m.size[b] = n /\ n # Pool!End
               THEN [m EXCEPT !.size[b] = m.size[b] + m.size[n], !.next = [@ EXCEPT ![i] = b, ![b] = m.next[n]]]
               ELSE [m EXCEPT !.size[b] = m.size[b], !.next = [@ EXCEPT ![i] = b, ![b] = n]]
          ELSE IF i + s = n /\ n # Pool!End
          THEN [m EXCEPT !.size[i] = s + m.size[n], !.next[i] = m.next[n]]
          ELSE [m EXCEPT !.size[i] = s]
  BY DEF Pool!Insert, Pool!Entered, i, n
<1> HIDE DEF l
<1>7. CASE i + m.size[i] # b /\ ~(b + m.size[b] = n /\ n # Pool!End)
  <2> DEFINE p == QMemPlain(m, b, i)
  <2>1. l = [m EXCEPT !.size[b] = m.size[b], !.next = [@ EXCEPT ![i] = b, ![b] = n]]
    BY <1>6, <1>7
  <2>2. /\ l.next = [m.next EXCEPT ![i] = b, ![b] = n] /\ l.size = [m.size EXCEPT ![b] = m.size[b]]
        /\ l.used = m.used /\ l.free = m.free /\ l.data = m.data
    BY ONLY <1>1, <2>1 DEF QMemMemory
  <2>3. l = [next |-> l.next, size |-> l.size, used |-> l.used, free |-> l.free, data |-> l.data]
    BY ONLY <1>1, <2>1 DEF QMemMemory
  <2>4. l.size = m.size
    BY ONLY <2>2, <1>5, <1>4
  <2>5. p = [m EXCEPT !.next = [@ EXCEPT ![i] = b, ![b] = n]]
    BY DEF QMemPlain, n
  <2>6. /\ p.next = [m.next EXCEPT ![i] = b, ![b] = n] /\ p.size = m.size
        /\ p.used = m.used /\ p.free = m.free /\ p.data = m.data
    BY ONLY <1>1, <2>5 DEF QMemMemory
  <2>7. p = [next |-> p.next, size |-> p.size, used |-> p.used, free |-> p.free, data |-> p.data]
    BY ONLY <1>1, <2>5 DEF QMemMemory
  <2> HIDE DEF p
  <2>8. l = p
    BY ONLY <2>2, <2>3, <2>4, <2>6, <2>7
  <2>9. QMemInserted(p, m, H, F, T, b)
    BY <1>3, <1>7, QMemInsertPlain DEF p
  <2> QED BY <2>2, <2>8, <2>9 DEF QMemInsertDone, l
<1>8. CASE i + m.size[i] # b /\ b + m.size[b] = n /\ n # Pool!End
  <2> DEFINE p == QMemPlain(m, b, i)
             q == QMemJoined(p, b)
  <2>1. l = [m EXCEPT !.size[b] = m.size[b] + m.size[n], !.next = [@ EXCEPT ![i] = b, ![b] = m.next[n]]]
    BY <1>6, <1>8
  <2>2. /\ l.next = [m.next EXCEPT ![i] = b, ![b] = m.next[n]]
        /\ l.size = [m.size EXCEPT ![b] = m.size[b] + m.size[n]]
        /\ l.used = m.used /\ l.free = m.free /\ l.data = m.data
    BY ONLY <1>1, <2>1 DEF QMemMemory
  <2>3. l = [next |-> l.next, size |-> l.size, used |-> l.used, free |-> l.free, data |-> l.data]
    BY ONLY <1>1, <2>1 DEF QMemMemory
  <2>5. p = [m EXCEPT !.next = [@ EXCEPT ![i] = b, ![b] = n]]
    BY DEF QMemPlain, n
  <2>6. /\ p.next = [m.next EXCEPT ![i] = b, ![b] = n] /\ p.size = m.size
        /\ p.used = m.used /\ p.free = m.free /\ p.data = m.data
    BY ONLY <1>1, <2>5 DEF QMemMemory
  <2>7. p \in QMemMemory
    <3>1. QMemIsPlain(p, m, H, F, T, b, i, n)
      BY <1>3, QMemPlainBetween
    <3> QED BY <3>1 DEF QMemIsPlain, QMemLists
  <2>8. QMemInserted(q, m, H, F, T, b)
    BY <1>3, <1>8, QMemInsertBefore
  <2> HIDE DEF p
  <2>9. p.next[b] = n /\ p.next[n] = m.next[n]
    BY <1>4, <1>5, <2>6
  <2>10. q = [p EXCEPT !.size[b] = p.size[b] + p.size[n], !.next[b] = p.next[n]]
    BY <2>9 DEF QMemJoined
  <2>11. /\ q.next = [p.next EXCEPT ![b] = p.next[n]] /\ q.size = [p.size EXCEPT ![b] = p.size[b] + p.size[n]]
         /\ q.used = p.used /\ q.free = p.free /\ q.data = p.data
    BY ONLY <2>7, <2>10 DEF QMemMemory
  <2>12. q = [next |-> q.next, size |-> q.size, used |-> q.used, free |-> q.free, data |-> q.data]
    BY ONLY <2>7, <2>10 DEF QMemMemory
  <2> HIDE DEF q
  <2>13. q.size = l.size
    BY ONLY <2>2, <2>6, <2>11
  <2>14. q.next = l.next
    <3>1. q.next = [[m.next EXCEPT ![i] = b, ![b] = n] EXCEPT ![b] = m.next[n]]
      BY ONLY <2>6, <2>9, <2>11
    <3> QED BY ONLY <3>1, <2>2, <1>5, <1>4
  <2>15. l = q
    BY ONLY <2>2, <2>3, <2>6, <2>11, <2>12, <2>13, <2>14
  <2> QED BY <2>2, <2>8, <2>15 DEF QMemInsertDone, l
<1>9. CASE i + m.size[i] = b /\ b + m.size[b] = n /\ n # Pool!End
  <2>1. i \in F /\ i + s = n /\ m.size[i] \in Nat
    BY <1>3, <1>4, <1>9 DEF QMemBetween
  <2>2. l = [m EXCEPT !.size[i] = s + m.size[n], !.next[i] = m.next[n]]
    BY <1>6, <1>9, <2>1
  <2>3. /\ l.next = [m.next EXCEPT ![i] = m.next[n]]
        /\ l.size = [m.size EXCEPT ![i] = s + m.size[n]]
        /\ l.used = m.used /\ l.free = m.free /\ l.data = m.data
    BY ONLY <1>1, <2>2 DEF QMemMemory
  <2>4. l = [next |-> l.next, size |-> l.size, used |-> l.used, free |-> l.free, data |-> l.data]
    BY ONLY <1>1, <2>2 DEF QMemMemory
  <2>5. n \in F
    BY <1>4, <1>9
  <2>6. m.next[n] \in Pool!Cell /\ m.size[n] \in Nat /\ s + m.size[n] \in Pool!Cell
    <3>1. n \in Nat /\ n \in H /\ m.size[n] \in Nat /\ n + m.size[n] <= Pool!End
      BY <1>1, <1>9, <2>5, QMemShapeIs
    <3>2. m.next[n] \in Nat /\ m.next[n] <= Pool!End
      BY <1>1, <2>5, QMemLinkedIs
    <3>3. s + m.size[n] \in Nat /\ s + m.size[n] <= Pool!End
      <4>1. i \in Nat /\ m.size[i] \in Nat /\ m.size[b] \in Nat /\ i + s = n
        BY <1>4, <2>1
      <4>2. s \in Nat
        BY <4>1
      <4> HIDE DEF s
      <4>3. Pool!End \in Nat
        BY QMemCells
      <4> QED BY <3>1, <4>1, <4>2, <4>3
    <3> HIDE DEF s
    <3> QED BY <3>1, <3>2, <3>3, QMemCells
  <2>7. l \in QMemMemory
    <3>1. l.next \in [QMemPlace -> Pool!Cell \union {Pool!None}]
      BY <1>4, <1>5, <2>3, <2>6
    <3>2. l.size \in [QMemPlace -> Pool!Cell \union {Pool!None}]
      BY <1>4, <1>5, <2>3, <2>6
    <3> HIDE DEF s
    <3>3. l.used = m.used /\ l.free = m.free /\ l.data = m.data
      BY <2>3
    <3> QED BY ONLY <1>1, <2>4, <3>1, <3>2, <3>3, SMTT(20) DEF QMemMemory
  <2>8. QMemInserted(l, m, H, F, T, b)
    <3>1. /\ l.size = [m.size EXCEPT ![i] = m.size[i] + m.size[b] + m.size[n]]
          /\ l.next = [m.next EXCEPT ![i] = m.next[n]] /\ l \in QMemMemory
      BY ONLY <2>3, <2>7
    <3>2. /\ QMemLists(m, H, F, T) /\ T \in Nat /\ QMemBetween(m, H, F, b, i, n)
          /\ i + m.size[i] = b /\ b + m.size[b] = n /\ n # Pool!End
      BY <1>3, <1>9
    <3> HIDE DEF l, s
    <3> QED BY ONLY <3>1, <3>2, QMemInsertBoth, SMTT(20)
  <2> QED BY <2>3, <2>8 DEF QMemInsertDone, l
<1>10. CASE i + m.size[i] = b /\ ~(b + m.size[b] = n /\ n # Pool!End)
  <2> DEFINE p == QMemJoined(QMemPlain(m, b, i), i)
  <2>1. i \in F /\ m.size[i] \in Nat /\ i \in Nat
    BY <1>3, <1>4, <1>10 DEF QMemBetween
  <2>2. i + s = b + m.size[b]
    BY <1>4, <1>10, <2>1
  <2>3. l = [m EXCEPT !.size[i] = s]
    BY <1>6, <1>10, <2>2
  <2>4. /\ l.next = m.next /\ l.size = [m.size EXCEPT ![i] = s]
        /\ l.used = m.used /\ l.free = m.free /\ l.data = m.data
    BY ONLY <1>1, <2>3 DEF QMemMemory
  <2>5. l = [next |-> l.next, size |-> l.size, used |-> l.used, free |-> l.free, data |-> l.data]
    BY ONLY <1>1, <2>3 DEF QMemMemory
  <2>6. s \in Pool!Cell
    <3>1. b + m.size[b] <= Pool!End /\ m.size[b] > 0
      BY <1>1, QMemShapeIs
    <3>2. s \in Nat /\ m.size[b] \in Nat /\ b \in Nat /\ Pool!End \in Nat
      BY <1>4, <2>1, QMemCells
    <3> HIDE DEF s
    <3>3. s <= Pool!End
      BY ONLY <2>1, <2>2, <3>1, <3>2, SMTT(20)
    <3> QED BY <3>2, <3>3, QMemCells
  <2>7. l \in QMemMemory
    <3>1. l.size \in [QMemPlace -> Pool!Cell \union {Pool!None}]
      BY <1>4, <1>5, <2>4, <2>6
    <3> HIDE DEF s
    <3> QED BY <1>1, <1>5, <2>4, <2>5, <3>1, QMemMemoryIs DEF QMemMemory
  <2>8. QMemIsBehind(p, m, H, F, T, b, i, n)
    BY <1>3, <1>10, QMemInsertBehind
  <2> HIDE DEF p
  <2>9. l.size[Pool!Start] = p.size[Pool!Start] /\ \A e \in QMemPlace : l.size[e] = p.size[e]
    <3>1. Pool!Start \in QMemPlace
      BY QMemCells
    <3>2. \A e \in QMemPlace : l.size[e] = IF e = i THEN s ELSE m.size[e]
      BY <1>5, <2>4
    <3>3. \A e \in QMemPlace : p.size[e] = IF e = i THEN s ELSE m.size[e]
      BY <2>8 DEF QMemIsBehind
    <3> QED BY <3>1, <3>2, <3>3
  <2>10. \A f \in F \union {Pool!Start} : l.next[f] = p.next[f]
    <3>1. p.next[i] = n /\ m.next[i] = n /\ p.next[Pool!Start] = m.next[Pool!Start]
      BY <2>8 DEF QMemIsBehind, n
    <3>2. \A f \in F : f \in QMemPlace
      BY <1>1, QMemLinkedIs, QMemCells
    <3> QED BY <2>4, <2>8, <3>1, <3>2 DEF QMemIsBehind
  <2> QED
    <3>1. QMemLists(p, H \ {b}, F, T + m.size[b])
      BY <2>8 DEF QMemIsBehind
    <3> DEFINE M == H \ {b}
    <3>2. \A e \in M : e \in QMemPlace
      BY <1>1, QMemShapeIs, QMemCells
    <3>3. QMemLists(l, M, F, T + m.size[b])
      <4>1. l.size[Pool!Start] = p.size[Pool!Start] /\ \A e \in M : l.size[e] = p.size[e]
        BY <2>9, <3>2
      <4>2. QMemLists(p, M, F, T + m.size[b])
        BY <3>1
      <4> HIDE DEF M
      <4> QED BY <2>7, <2>10, <4>1, <4>2, QMemSameLists
    <3>4. QMemInserted(l, m, H, F, T, b)
      <4>1. M \ F = (H \ F) \ {b} /\ \A e \in M \ F : l.size[e] = m.size[e]
        <5>1. \A e \in M \ F : e # i
          BY <2>1
        <5> QED BY <1>5, <2>4, <3>2, <5>1
      <4>2. QMemApart(m, F) => QMemApart(l, F)
        <5>1. SUFFICES ASSUME QMemApart(m, F), NEW f \in F PROVE f + l.size[f] \notin F
          BY DEF QMemApart
        <5>2. CASE f = i
          <6>1. l.size[i] = s
            BY <1>4, <1>5, <2>4
          <6>2. ASSUME b + m.size[b] \in F PROVE FALSE
            <7>1. b + m.size[b] # Pool!End /\ b + m.size[b] > b /\ b + m.size[b] \in Nat
              <8>1. m.size[b] > 0
                BY <1>1, QMemShapeIs
              <8> QED BY <1>1, <1>4, <6>2, <8>1, QMemShapeIs
            <7>2. b + m.size[b] >= n
              BY <1>3, <6>2, <7>1, QMemBetweenIs
            <7>3. b + m.size[b] <= n
              BY <1>3, QMemBetweenIs
            <7> QED BY <1>4, <1>10, <7>1, <7>2, <7>3
          <6> QED BY <2>2, <5>2, <6>1, <6>2
        <5>3. CASE f # i
          <6>1. f \in QMemPlace
            BY <1>1, QMemLinkedIs, QMemCells
          <6>2. l.size[f] = m.size[f]
            BY <1>5, <2>4, <5>3, <6>1
          <6> QED BY <5>1, <6>2 DEF QMemApart
        <5> QED BY <5>2, <5>3
      <4> HIDE DEF M
      <4> QED BY <3>3, <4>1, <4>2 DEF QMemInserted
    <3> QED BY <2>4, <3>4 DEF QMemInsertDone, l
<1> QED BY <1>7, <1>8, <1>9, <1>10
-----------------------------------------------------------------------------
(* The memory and the clients. *)

\* Client h's block is given out, as long as one it asked for, and no one else's.
QMemHas(m, a, h) ==
  /\ a[h] \in m.used
  /\ \E s \in PoolSizes : s > 0 /\ m.size[a[h]] \in Pool!Units(s) .. Pool!Units(s) + Pool!MinBlockSize
  /\ \A g \in Handle : g # h => a[g] # a[h]

\* The memory m, with the blocks H, serves the clients, who have the blocks a:
\* those not given out are on the list and counted, and no two of them lie side
\* by side.
QMemServes(m, H, a) ==
  /\ m.used \subseteq H \ {Pool!End} /\ QMemLists(m, H, H \ (m.used \union {Pool!End}), m.free)
  /\ QMemApart(m, H \ (m.used \union {Pool!End}))
  /\ a \in [Handle -> Pool!Cell \union {Pool!None}] /\ \A h \in Handle : a[h] # Pool!None => QMemHas(m, a, h)

\* The structures found in the pool are its blocks, as the clients have them.
QMemIInv ==
  /\ Pool!TypeOK /\ (~poolUp => poolMem = Pool!Fresh)
  /\ QMemServes(poolMem, QMemHeads(poolMem), poolAt)

LEMMA QMemServesLists ==
  ASSUME NEW m, NEW H, NEW a, QMemServes(m, H, a)
  PROVE  /\ m \in QMemMemory /\ QMemShape(m, H) /\ QMemLinked(m, H \ (m.used \union {Pool!End})) /\ m.free \in Nat
         /\ H \ (m.used \union {Pool!End}) \subseteq H \ {Pool!End} /\ H \subseteq Pool!Cell
BY QMemMemoryIs, QMemShapeIs DEF QMemServes, QMemLists

LEMMA QMemUnitsNat ==
  ASSUME NEW s \in PoolSizes
  PROVE  Pool!Units(s) \in Nat /\ (s > 0 => Pool!Units(s) >= 2)
<1>1. s \in Nat /\ Pool!Units(s) = 1 + (s + 7) \div 8
  BY QMemBounds DEF Pool!Units
<1> QED BY <1>1

\* l is what is left when block b of at least n units is given out.
QMemTaken(l, m, H, F, b, n) ==
  \E K, G :
    /\ QMemLists(l, K, G, l.free) /\ K \ G = (H \ F) \union {b} /\ l.used = m.used \union {b}
    /\ QMemApart(m, F) => QMemApart(l, G)
    /\ \A e \in H \ F : l.size[e] = m.size[e]
    /\ l.size[b] \in n .. n + Pool!MinBlockSize

\* The block's mark and the count.
QMemMarked(m, b) == [m EXCEPT !.free = @ - m.size[b], !.used = @ \union {b}, !.next[b] = Pool!None]

LEMMA QMemMarkedLists ==
  ASSUME NEW m, NEW H, NEW F, NEW T, QMemLists(m, H, F, T), NEW b \in H, b \notin F, b # Pool!End,
         m.free - m.size[b] \in Nat
  PROVE  /\ QMemLists(QMemMarked(m, b), H, F, T) /\ QMemMarked(m, b).free = m.free - m.size[b]
         /\ QMemMarked(m, b).used = m.used \union {b} /\ QMemMarked(m, b).size = m.size
<1> DEFINE l == QMemMarked(m, b)
           v == m.free - m.size[b]
           u == m.used \union {b}
<1>1. m \in QMemMemory /\ b \in Pool!Cell /\ b \in QMemPlace /\ b # Pool!Start /\ Pool!Start \in QMemPlace /\ v \in Nat /\ u \subseteq Pool!Cell
  BY QMemShapeIs, QMemMemoryIs, QMemCells DEF QMemLists
<1>2. l = [m EXCEPT !.free = v, !.used = u, !.next[b] = Pool!None]
  BY DEF QMemMarked
<1> HIDE DEF l, v, u
<1>3. /\ l.next = [m.next EXCEPT ![b] = Pool!None] /\ l.size = m.size
      /\ l.used = u /\ l.free = v /\ l.data = m.data
  BY ONLY <1>1, <1>2 DEF QMemMemory
<1>4. l = [next |-> l.next, size |-> l.size, used |-> l.used, free |-> l.free, data |-> l.data]
  BY ONLY <1>1, <1>2 DEF QMemMemory
<1>5. m.next \in [QMemPlace -> Pool!Cell \union {Pool!None}]
  BY <1>1, QMemMemoryIs
<1>6. l \in QMemMemory
  <2>1. l.next \in [QMemPlace -> Pool!Cell \union {Pool!None}]
    BY <1>1, <1>3, <1>5
  <2> QED BY <1>1, <1>3, <1>4, <2>1, QMemMemoryIs DEF QMemMemory
<1>7. \A f \in F \union {Pool!Start} : f \in QMemPlace /\ f # b
  <2>1. \A f \in F : f \in QMemPlace
    BY QMemLinkedIs, QMemCells DEF QMemLists
  <2> QED BY <1>1, <2>1
<1>8. \A f \in F \union {Pool!Start} : l.next[f] = m.next[f]
  BY <1>3, <1>5, <1>7
<1>9. QMemLists(l, H, F, T)
  BY <1>3, <1>6, <1>8, QMemSameLists
<1> QED BY <1>3, <1>9 DEF l, v, u

LEMMA QMemTakeLists ==
  ASSUME NEW m, NEW H, NEW F, QMemLists(m, H, F, m.free), NEW p \in F \union {Pool!Start}, NEW b \in F,
         m.next[p] = b, NEW n \in Nat, n >= 2, m.size[b] >= n
  PROVE  QMemTaken(Pool!Take(m, p, b, n), m, H, F, b, n)
<1> DEFINE off == QMemOff(m, p, b)
           cut == QMemSplit(off, b, n)
           put == Pool!Insert(cut, b + n)
           left == IF m.size[b] - n > Pool!MinBlockSize THEN put ELSE off
           T == m.free
           s == m.size[b]
           E == F \ {b}
<1>1. T \in Nat /\ m \in QMemMemory /\ QMemShape(m, H) /\ F \subseteq H \ {Pool!End} /\ QMemLinked(m, F)
  BY QMemMemoryIs DEF QMemLists
<1>2. b \in Nat /\ b \in H /\ b # Pool!End /\ s \in Nat /\ b \in QMemPlace
  BY <1>1, QMemShapeIs, QMemCells
<1>3. /\ QMemLists(off, H, E, T - s) /\ T - s \in Nat
      /\ off.size = m.size /\ off.used = m.used /\ off.free = m.free /\ off.data = m.data
  <2> HIDE DEF T
  <2>1. QMemLists(m, H, F, T) /\ T \in Nat /\ p \in F \union {Pool!Start} /\ b \in F /\ m.next[p] = b
    BY <1>1 DEF T
  <2>2. /\ QMemLists(QMemOff(m, p, b), H, F \ {b}, T - m.size[b]) /\ T - m.size[b] \in Nat
        /\ QMemOff(m, p, b).size = m.size /\ QMemOff(m, p, b).used = m.used
        /\ QMemOff(m, p, b).free = m.free /\ QMemOff(m, p, b).data = m.data
    BY ONLY <2>1, QMemOffLists, SMTT(20)
  <2> QED BY <2>2
<1>4. Pool!Take(m, p, b, n) = QMemMarked(left, b)
  <2>1. cut = [off EXCEPT !.size[b] = n, !.size[b + n] = m.size[b] - n]
    <3>1. off.size[b] = m.size[b]
      BY <1>3
    <3> HIDE DEF off
    <3> QED BY <3>1 DEF QMemSplit
  <2>2. off = [m EXCEPT !.next[p] = m.next[b]]
    BY DEF QMemOff
  <2> HIDE DEF cut, off
  <2> QED BY <2>1, <2>2 DEF Pool!Take, QMemMarked
<1> HIDE DEF off, T, s
<1>5. QMemApart(m, F) => QMemApart(off, E)
  BY <1>3 DEF QMemApart
<1>6. CASE ~(s - n > Pool!MinBlockSize)
  <2>1. left = off
    BY <1>6 DEF s
  <2> DEFINE l == QMemMarked(off, b)
  <2>2. /\ QMemLists(l, H, E, T - s) /\ l.free = T - s /\ l.used = m.used \union {b} /\ l.size = m.size
    <3>1. b \in H /\ b \notin E /\ b # Pool!End /\ off.free - off.size[b] = T - s
      BY <1>2, <1>3 DEF T, s
    <3> HIDE DEF E
    <3>2. off.free - off.size[b] \in Nat
      BY <1>3, <3>1
    <3>3. /\ QMemLists(QMemMarked(off, b), H, E, T - s) /\ QMemMarked(off, b).free = off.free - off.size[b]
          /\ QMemMarked(off, b).used = off.used \union {b} /\ QMemMarked(off, b).size = off.size
      BY <1>3, <3>1, <3>2, QMemMarkedLists
    <3> QED BY <1>3, <3>1, <3>3
  <2> HIDE DEF l
  <2>3. H \ E = (H \ F) \union {b}
    BY <1>2
  <2>4. l.size[b] \in n .. n + Pool!MinBlockSize
    BY <1>2, <1>6, <2>2 DEF s, Pool!MinBlockSize
  <2>5. QMemApart(m, F) => QMemApart(l, E)
    BY <2>2 DEF QMemApart
  <2> HIDE DEF E
  <2>6. QMemTaken(l, m, H, F, b, n)
    BY <2>2, <2>3, <2>4, <2>5 DEF QMemTaken
  <2> QED BY <1>4, <2>1, <2>6 DEF l
<1>7. CASE s - n > Pool!MinBlockSize
  <2> DEFINE c == b + n
             K == H \union {c}
  <2>0. 0 < n /\ n < s /\ off.size[b] = s /\ s - n \in Nat
    BY <1>2, <1>3, <1>7 DEF s, Pool!MinBlockSize
  <2>1. /\ QMemLists(cut, K, E, T - s) /\ c \notin H /\ c \in Pool!Cell /\ c < Pool!End
        /\ cut.used = m.used /\ cut.free = T /\ cut.size[b] = n /\ cut.size[c] = s - n
        /\ \A e \in H : e # b => cut.size[e] = m.size[e]
    <3>1. b \in H \ {Pool!End} /\ b \notin E /\ n < off.size[b]
      BY <1>2, <2>0
    <3> DEFINE U == T - s
    <3>a. QMemLists(off, H, E, U)
      BY <1>3
    <3>b. n \in Nat /\ 0 < n
      BY <2>0
    <3> HIDE DEF E, U
    <3>2. /\ QMemLists(QMemSplit(off, b, n), H \union {b + n}, E, U)
          /\ b + n \notin H /\ b + n \in Pool!Cell /\ b + n < Pool!End
          /\ QMemSplit(off, b, n).used = off.used /\ QMemSplit(off, b, n).free = off.free
          /\ QMemSplit(off, b, n).size[b] = n /\ QMemSplit(off, b, n).size[b + n] = off.size[b] - n
          /\ \A e \in H : e # b => QMemSplit(off, b, n).size[e] = off.size[e]
      BY ONLY <3>1, <3>a, <3>b, QMemSplitLists, SMTT(20)
    <3> QED BY <1>3, <2>0, <3>2 DEF T, U
  <2> HIDE DEF cut
  <2>2. put = Pool!Insert(cut, c)
    OBVIOUS
  <2> HIDE DEF c, put
  <2>3. QMemInsertDone(put, cut, K, E, T - s, c)
    <3>1. c \in K /\ c \notin E /\ c # Pool!End
      BY <1>1, <2>1, QMemCells
    <3> HIDE DEF K, E
    <3>2. T - s \in Nat
      BY <1>3
    <3>3. QMemInsertDone(Pool!Insert(cut, c), cut, K, E, T - s, c)
      BY <2>1, <3>1, <3>2, QMemInsertLists
    <3> QED BY <2>2, <3>3
  <2>4. PICK L, G : /\ QMemLists(put, L, G, (T - s) + cut.size[c]) /\ L \ G = (K \ E) \ {c}
                    /\ \A e \in L \ G : put.size[e] = cut.size[e]
                    /\ QMemApart(cut, E) => QMemApart(put, G)
    <3> HIDE DEF K, E
    <3> QED BY <2>3 DEF QMemInsertDone, QMemInserted
  <2>5. put.used = m.used /\ put.free = T
    <3> HIDE DEF K, E
    <3> QED BY <2>1, <2>3 DEF QMemInsertDone
  <2>6. L \ G = (H \ F) \union {b}
    BY <1>1, <1>2, <2>1, <2>4
  <2>7. put.size[b] = n /\ \A e \in H \ F : put.size[e] = m.size[e]
    BY <2>1, <2>4, <2>6
  <2>8. (T - s) + cut.size[c] = T - n /\ T - n \in Nat
    BY <1>1, <1>2, <1>3, <2>0, <2>1
  <2>9. QMemApart(m, F) => QMemApart(cut, E)
    <3>1. \A f \in E : cut.size[f] = m.size[f]
      BY <1>1, <2>1
    <3> QED BY <3>1 DEF QMemApart
  <2> DEFINE l == QMemMarked(put, b)
  <2>10. /\ QMemLists(l, L, G, T - n) /\ l.free = T - n /\ l.used = m.used \union {b} /\ l.size = put.size
    <3>1. b \in L /\ b \notin G
      BY <2>6
    <3>2. put.free - put.size[b] = T - n
      BY <2>5, <2>7
    <3>3. put.free - put.size[b] \in Nat
      BY <2>8, <3>2
    <3>4. QMemLists(put, L, G, T - n)
      BY <2>4, <2>8
    <3>5. /\ QMemLists(QMemMarked(put, b), L, G, T - n) /\ QMemMarked(put, b).free = put.free - put.size[b]
          /\ QMemMarked(put, b).used = put.used \union {b} /\ QMemMarked(put, b).size = put.size
      BY <1>2, <3>1, <3>3, <3>4, QMemMarkedLists
    <3> QED BY <2>5, <3>2, <3>5
  <2> HIDE DEF l
  <2>11. QMemApart(m, F) => QMemApart(l, G)
    BY <2>4, <2>9, <2>10 DEF QMemApart
  <2>12. l.size[b] \in n .. n + Pool!MinBlockSize /\ \A e \in H \ F : l.size[e] = m.size[e]
    BY <2>7, <2>10 DEF Pool!MinBlockSize
  <2>13. QMemTaken(l, m, H, F, b, n)
    BY <2>6, <2>10, <2>11, <2>12 DEF QMemTaken
  <2>14. left = put
    BY <1>7 DEF s
  <2> QED BY <1>4, <2>13, <2>14 DEF l
<1> QED BY <1>6, <1>7

\* What was made of the memory is the memory, once the clients have written.
LEMMA QMemOwnedSound ==
  ASSUME NEW m, NEW H, NEW h \in Handle, NEW b \in Pool!Cell \union {Pool!None},
         poolAt \in [Handle -> Pool!Cell \union {Pool!None}],
         QMemServes(m, H, [poolAt EXCEPT ![h] = b]), Pool!Owned(m, h, b), poolUp' = TRUE
  PROVE  QMemIInv'
<1> DEFINE a == [poolAt EXCEPT ![h] = b]
           heads == H \union {Pool!Start}
           body(g) == IF a[g] = Pool!None THEN {} ELSE a[g] + 1 .. a[g] + m.size[a[g]] - 1
           all == UNION {body(g) : g \in Handle}
           F == H \ (m.used \union {Pool!End})
           value(c) == IF c \in body(h) THEN <<h, c - b + 1>>
                       ELSE IF c \in all \ heads THEN m.data[c] ELSE Nobody
<1>1. /\ m \in QMemMemory /\ QMemShape(m, H) /\ QMemLists(m, H, F, m.free) /\ H \subseteq Pool!Cell /\ m.free \in Nat
      /\ m.used \subseteq H \ {Pool!End} /\ QMemApart(m, F)
      /\ a \in [Handle -> Pool!Cell \union {Pool!None}] /\ \A g \in Handle : a[g] # Pool!None => QMemHas(m, a, g)
  <2>1. QMemServes(m, H, a)
    OBVIOUS
  <2> HIDE DEF a
  <2>2. /\ QMemLists(m, H, F, m.free) /\ m.used \subseteq H \ {Pool!End} /\ QMemApart(m, F)
        /\ a \in [Handle -> Pool!Cell \union {Pool!None}] /\ \A g \in Handle : a[g] # Pool!None => QMemHas(m, a, g)
    BY <2>1 DEF QMemServes
  <2>3. m \in QMemMemory /\ QMemShape(m, H) /\ H \subseteq Pool!Cell /\ m.free \in Nat
    BY <2>1, QMemServesLists
  <2> QED BY <2>2, <2>3
<1>2. Pool!Walked(m) = H
  BY <1>1, QMemWalkedIs
<1>3. a[h] = b
  OBVIOUS
<1> DEFINE next == [c \in DOMAIN m.next |-> IF c \in heads THEN m.next[c] ELSE Pool!None]
           size == [c \in DOMAIN m.size |-> IF c \in heads THEN m.size[c] ELSE Pool!None]
           data == [c \in Pool!Cell |-> value(c)]
<1>4. poolAt' = a /\ poolDenied' = <<>> /\ poolMem' = [m EXCEPT !.next = next, !.size = size, !.data = data]
  BY <1>2 DEF Pool!Owned
<1>5. m.size \in [QMemPlace -> Pool!Cell \union {Pool!None}] /\ m.next \in [QMemPlace -> Pool!Cell \union {Pool!None}]
      /\ m.data \in [Pool!Cell -> {Nobody} \union (Handle \X Nat)] /\ m.used \subseteq Pool!Cell
  BY <1>1, QMemMemoryIs
<1>6. ASSUME NEW c \in Pool!Cell PROVE value(c) \in {Nobody} \union (Handle \X Nat)
  <2>1. ASSUME c \in body(h) PROVE <<h, c - b + 1>> \in Handle \X Nat
    <3>1. b # Pool!None /\ b \in Nat /\ c \in Nat /\ c \in b + 1 .. b + m.size[b] - 1
      BY <1>3, <2>1, QMemCells
    <3>2. c - b + 1 \in Nat
      BY <3>1
    <3> QED BY <3>2
  <2>2. m.data[c] \in {Nobody} \union (Handle \X Nat)
    BY <1>5
  <2> HIDE DEF body, all
  <2> QED BY <2>1, <2>2
<1> HIDE DEF value
<1>7. data \in [Pool!Cell -> {Nobody} \union (Handle \X Nat)]
  BY <1>6
<1>8. /\ next \in [QMemPlace -> Pool!Cell \union {Pool!None}] /\ size \in [QMemPlace -> Pool!Cell \union {Pool!None}]
      /\ \A c \in QMemPlace : next[c] = (IF c \in heads THEN m.next[c] ELSE Pool!None)
                          /\ size[c] = (IF c \in heads THEN m.size[c] ELSE Pool!None)
  BY <1>5
<1> HIDE DEF next, size, data, a
<1>9. /\ poolMem'.next = next /\ poolMem'.size = size /\ poolMem'.data = data /\ poolMem'.used = m.used /\ poolMem'.free = m.free
  BY ONLY <1>1, <1>4 DEF QMemMemory
<1>10. poolMem' = [next |-> poolMem'.next, size |-> poolMem'.size, used |-> poolMem'.used, free |-> poolMem'.free, data |-> poolMem'.data]
  BY ONLY <1>1, <1>4 DEF QMemMemory
<1>11. poolMem' \in QMemMemory
  BY <1>1, <1>5, <1>7, <1>8, <1>9, <1>10 DEF QMemMemory
<1>12. \A c \in H \union {Pool!Start} : c \in QMemPlace /\ poolMem'.size[c] = m.size[c] /\ poolMem'.next[c] = m.next[c]
  BY <1>1, <1>8, <1>9, QMemCells
<1>13. QMemHeads(poolMem') = H
  <2>1. \A e \in H : m.size[e] # Pool!None
    BY <1>1, QMemShapeIs DEF Pool!None
  <2>2. \A c \in Pool!Cell : c \in QMemPlace /\ c # Pool!Start
    BY QMemCells
  <2> QED BY <1>1, <1>8, <1>9, <2>1, <2>2 DEF QMemHeads
<1>14. QMemLists(poolMem', H, F, poolMem'.free)
  <2>1. /\ poolMem'.size[Pool!Start] = m.size[Pool!Start] /\ \A e \in H : poolMem'.size[e] = m.size[e]
        /\ \A f \in F \union {Pool!Start} : poolMem'.next[f] = m.next[f]
    BY <1>12
  <2> HIDE DEF F
  <2> QED BY <1>1, <1>9, <1>11, <2>1, QMemSameLists
<1>15. QMemApart(poolMem', F)
  BY <1>1, <1>12 DEF QMemApart
<1>16. ASSUME NEW g \in Handle, a[g] # Pool!None PROVE QMemHas(poolMem', a, g)
  <2>1. QMemHas(m, a, g) /\ a[g] \in H
    BY <1>1, <1>16 DEF QMemHas
  <2> QED BY <1>9, <1>12, <2>1 DEF QMemHas
<1>17. QMemServes(poolMem', H, a)
  BY <1>1, <1>9, <1>14, <1>15, <1>16 DEF QMemServes
<1>18. Pool!TypeOK'
  BY <1>1, <1>4, <1>7, <1>8, <1>9 DEF Pool!TypeOK, QMemPlace
<1>19. QMemServes(poolMem, QMemHeads(poolMem), poolAt)'
  BY <1>4, <1>13, <1>17
<1> QED BY <1>18, <1>19 DEF QMemIInv

LEMMA QMemFreshServes ==
  /\ QMemServes(Pool!Fresh, {0, Pool!End}, [h \in Handle |-> Pool!None]) /\ QMemHeads(Pool!Fresh) = {0, Pool!End} /\ Pool!Fresh \in QMemMemory
<1> DEFINE H == {0, Pool!End}
           F == {0}
           a == [h \in Handle |-> Pool!None]
<1>1. /\ Pool!Fresh.next = [c \in Pool!Cell \union {Pool!Start} |-> IF c = Pool!Start THEN 0 ELSE IF c = 0 THEN Pool!End ELSE Pool!None]
      /\ Pool!Fresh.size = [c \in Pool!Cell \union {Pool!Start} |->
                         IF c = 0 THEN Pool!End ELSE IF c \in {Pool!Start, Pool!End} THEN 0 ELSE Pool!None]
      /\ Pool!Fresh.used = {} /\ Pool!Fresh.free = Pool!End /\ Pool!Fresh.data = [c \in Pool!Cell |-> Nobody]
      /\ Pool!Fresh = [next |-> Pool!Fresh.next, size |-> Pool!Fresh.size, used |-> Pool!Fresh.used, free |-> Pool!Fresh.free,
                  data |-> Pool!Fresh.data]
  BY DEF Pool!Fresh
<1>2. Pool!End \in Nat /\ Pool!End > 0 /\ 0 \in Pool!Cell /\ Pool!End \in Pool!Cell /\ Pool!Start # 0 /\ Pool!Start # Pool!End /\ Pool!Start < 0
      /\ QMemPlace = Pool!Cell \union {Pool!Start} /\ Pool!Start \in Int /\ Pool!Start \notin Pool!Cell
  BY QMemCells
<1>3. /\ Pool!Fresh.size[0] = Pool!End /\ Pool!Fresh.size[Pool!End] = 0 /\ Pool!Fresh.size[Pool!Start] = 0
      /\ Pool!Fresh.next[Pool!Start] = 0 /\ Pool!Fresh.next[0] = Pool!End
  BY <1>1, <1>2
<1>4. Pool!Fresh \in QMemMemory
  <2>1. Pool!Fresh.next \in [QMemPlace -> Pool!Cell \union {Pool!None}]
    BY <1>1, <1>2
  <2>2. Pool!Fresh.size \in [QMemPlace -> Pool!Cell \union {Pool!None}]
    BY <1>1, <1>2
  <2>3. Pool!Fresh.data \in [Pool!Cell -> {Nobody} \union (Handle \X Nat)]
    BY <1>1
  <2> QED BY <1>1, <1>2, <2>1, <2>2, <2>3 DEF QMemMemory
<1>5. QMemShape(Pool!Fresh, H)
  BY <1>2, <1>3 DEF QMemShape
<1>6. QMemLinked(Pool!Fresh, F)
  BY <1>2, <1>3 DEF QMemLinked
<1>7. QMemCounted(Pool!Fresh, F, [e \in F \union {Pool!End} |-> IF e = 0 THEN 0 ELSE Pool!End], Pool!End)
  <2> DEFINE Q == [e \in F \union {Pool!End} |-> IF e = 0 THEN 0 ELSE Pool!End]
  <2>1. Q \in [F \union {Pool!End} -> Nat] /\ Q[0] = 0 /\ Q[Pool!End] = Pool!End
    BY <1>2
  <2> HIDE DEF Q
  <2>2. QMemCounted(Pool!Fresh, F, Q, Pool!End)
    BY <1>2, <1>3, <2>1 DEF QMemCounted
  <2> QED BY <2>2 DEF Q
<1>8. QMemLists(Pool!Fresh, H, F, Pool!Fresh.free)
  BY <1>1, <1>2, <1>4, <1>5, <1>6, <1>7 DEF QMemLists
<1>9. H \ (Pool!Fresh.used \union {Pool!End}) = F
  BY <1>1, <1>2
<1>10. QMemApart(Pool!Fresh, F)
  BY <1>2, <1>3 DEF QMemApart
<1>11. a \in [Handle -> Pool!Cell \union {Pool!None}] /\ \A h \in Handle : a[h] = Pool!None
  OBVIOUS
<1>12. QMemHeads(Pool!Fresh) = H
  <2>1. \A c \in Pool!Cell : c # Pool!Start
    BY <1>2
  <2>2. \A c \in Pool!Cell : Pool!Fresh.size[c] = IF c = 0 THEN Pool!End ELSE IF c = Pool!End THEN 0 ELSE Pool!None
    BY <1>1, <2>1
  <2>3. Pool!End # Pool!None /\ 0 # Pool!None
    BY <1>2 DEF Pool!None
  <2> QED BY <1>2, <2>2, <2>3 DEF QMemHeads
<1> HIDE DEF F, a
<1>13. QMemServes(Pool!Fresh, H, a)
  BY <1>1, <1>8, <1>9, <1>10, <1>11 DEF QMemServes
<1> QED BY <1>4, <1>12, <1>13 DEF a

LEMMA QMemMemoryTyped ==
  ASSUME NEW m \in QMemMemory
  PROVE  /\ m.next \in [Pool!Cell \union {Pool!Start} -> Pool!Cell \union {Pool!None}]
         /\ m.size \in [Pool!Cell \union {Pool!Start} -> Pool!Cell \union {Pool!None}]
         /\ m.used \subseteq Pool!Cell /\ m.free \in Nat
         /\ m.data \in [Pool!Cell -> {Nobody} \union (Handle \X Nat)]
BY QMemMemoryIs, QMemCells

LEMMA QMemInitSound == Pool!Init => QMemIInv
<1> SUFFICES ASSUME Pool!Init PROVE QMemIInv
  OBVIOUS
<1>1. poolUp = FALSE /\ poolMem = Pool!Fresh /\ poolAt = [h \in Handle |-> Pool!None] /\ poolDenied = <<>>
  BY DEF Pool!Init
<1>2. QMemServes(poolMem, QMemHeads(poolMem), poolAt) /\ poolMem \in QMemMemory
  BY <1>1, QMemFreshServes
<1>3. Pool!TypeOK
  BY <1>1, <1>2, QMemMemoryTyped DEF Pool!TypeOK
<1> QED BY <1>1, <1>2, <1>3 DEF QMemIInv

LEMMA QMemPoolSetupSound == Pool!PoolSetup => QMemIInv'
<1> SUFFICES ASSUME Pool!PoolSetup PROVE QMemIInv'
  OBVIOUS
<1>1. poolUp' = FALSE /\ poolMem' = Pool!Fresh /\ poolAt' = [h \in Handle |-> Pool!None] /\ poolDenied' = <<>>
  BY DEF Pool!PoolSetup
<1>2. QMemServes(poolMem, QMemHeads(poolMem), poolAt)' /\ poolMem' \in QMemMemory
  BY <1>1, QMemFreshServes
<1>3. Pool!TypeOK'
  BY <1>1, <1>2, QMemMemoryTyped DEF Pool!TypeOK
<1> QED BY <1>1, <1>2, <1>3 DEF QMemIInv

LEMMA QMemStateIs ==
  ASSUME QMemIInv
  PROVE  /\ Pool!Now = poolMem /\ poolMem \in QMemMemory /\ poolAt \in [Handle -> Pool!Cell \union {Pool!None}] /\ poolUp \in BOOLEAN
         /\ QMemServes(poolMem, QMemHeads(poolMem), poolAt)
<1>1. QMemServes(poolMem, QMemHeads(poolMem), poolAt) /\ poolUp \in BOOLEAN /\ (~poolUp => poolMem = Pool!Fresh)
  BY DEF QMemIInv, Pool!TypeOK
<1>2. poolMem \in QMemMemory /\ poolAt \in [Handle -> Pool!Cell \union {Pool!None}]
  BY <1>1, QMemServesLists DEF QMemServes
<1> QED BY <1>1, <1>2 DEF Pool!Now

LEMMA QMemSameSound ==
  ASSUME QMemIInv, poolUp' = TRUE, poolMem' = Pool!Now, poolAt' = poolAt, poolDenied' \in {<<>>} \union (Handle \X Nat)
  PROVE  QMemIInv'
<1>1. poolMem' = poolMem
  BY QMemStateIs
<1>2. Pool!TypeOK'
  BY <1>1 DEF QMemIInv, Pool!TypeOK
<1> QED BY <1>1, <1>2 DEF QMemIInv

\* The memory m, in which h has the block b, and all others what they had.
QMemGives(m, H, h, b) ==
  /\ QMemServes(m, H, [poolAt EXCEPT ![h] = b]) /\ m.data = poolMem.data
  /\ m.used = (poolMem.used \ {poolAt[h]}) \union ({b} \ {Pool!None})
  /\ \A g \in Handle : g # h /\ poolAt[g] # Pool!None => m.size[poolAt[g]] = poolMem.size[poolAt[g]]

LEMMA QMemTakeKeepsData ==
  ASSUME NEW m, m \in QMemMemory, NEW p, NEW b, NEW n
  PROVE  Pool!Take(m, p, b, n).data = m.data
<1> DEFINE off == [m EXCEPT !.next[p] = m.next[b]]
           pieces == [off EXCEPT !.size[b] = n, !.size[b + n] = m.size[b] - n]
           cut == Pool!Insert(pieces, b + n)
           left == IF m.size[b] - n > Pool!MinBlockSize THEN cut ELSE off
<1>1. off.data = m.data /\ pieces.data = m.data /\ DOMAIN off = {"next", "size", "used", "free", "data"}
      /\ DOMAIN pieces = {"next", "size", "used", "free", "data"}
  BY DEF QMemMemory
<1> HIDE DEF off, pieces
<1>2. cut.data = m.data /\ DOMAIN cut = {"next", "size", "used", "free", "data"}
  BY <1>1 DEF Pool!Insert, Pool!Entered
<1> HIDE DEF cut
<1>3. left.data = m.data /\ DOMAIN left = {"next", "size", "used", "free", "data"}
  BY <1>1, <1>2
<1> HIDE DEF left
<1>4. Pool!Take(m, p, b, n) = [left EXCEPT !.free = @ - left.size[b], !.used = @ \union {b}, !.next[b] = Pool!None]
  BY DEF Pool!Take, left, cut, pieces, off
<1> QED BY <1>3, <1>4

\* Who asks for s bytes is given the first block that has room for them.
LEMMA QMemAllocateGives ==
  ASSUME QMemIInv, NEW h \in Handle, NEW s \in PoolSizes, s > 0, poolAt[h] = Pool!None,
         Pool!FirstFit(poolMem, Pool!Units(s))[2] # Pool!End
  PROVE  LET fit == Pool!FirstFit(poolMem, Pool!Units(s))
         IN  /\ fit[2] \in Pool!Cell /\ fit[2] # Pool!None
             /\ \E K : QMemGives(Pool!Take(poolMem, fit[1], fit[2], Pool!Units(s)), K, h, fit[2])
<1> DEFINE n == Pool!Units(s)
           fit == Pool!FirstFit(poolMem, n)
           b == fit[2]
           H == QMemHeads(poolMem)
           F == H \ (poolMem.used \union {Pool!End})
           l == Pool!Take(poolMem, fit[1], b, n)
           a == [poolAt EXCEPT ![h] = b]
<1>1. n \in Nat /\ n >= 2
  BY QMemUnitsNat
<1>2. poolAt \in [Handle -> Pool!Cell \union {Pool!None}]
  BY QMemStateIs
<1>3. /\ poolMem \in QMemMemory /\ QMemShape(poolMem, H) /\ QMemLinked(poolMem, F) /\ F \subseteq H \ {Pool!End} /\ H \subseteq Pool!Cell
      /\ QMemLists(poolMem, H, F, poolMem.free) /\ poolMem.used \subseteq H \ {Pool!End} /\ QMemApart(poolMem, F)
      /\ \A g \in Handle : poolAt[g] # Pool!None => QMemHas(poolMem, poolAt, g)
  <2>1. QMemServes(poolMem, H, poolAt)
    BY QMemStateIs
  <2> HIDE DEF H
  <2>2. poolMem \in QMemMemory /\ QMemShape(poolMem, H) /\ QMemLinked(poolMem, F) /\ F \subseteq H \ {Pool!End} /\ H \subseteq Pool!Cell
    BY <2>1, QMemServesLists
  <2>3. /\ QMemLists(poolMem, H, F, poolMem.free) /\ poolMem.used \subseteq H \ {Pool!End} /\ QMemApart(poolMem, F)
        /\ \A g \in Handle : poolAt[g] # Pool!None => QMemHas(poolMem, poolAt, g)
    BY <2>1 DEF QMemServes
  <2> QED BY <2>2, <2>3
<1>4. b \in F /\ poolMem.size[b] >= n /\ fit[1] \in F \union {Pool!Start} /\ poolMem.next[fit[1]] = b
  <2> HIDE DEF F, H
  <2>1. LET x == Pool!FirstFit(poolMem, n)
        IN  IF x[2] = Pool!End THEN \A f \in F : poolMem.size[f] < n
            ELSE /\ x[2] \in F /\ poolMem.size[x[2]] >= n
                 /\ x[1] \in F \union {Pool!Start} /\ poolMem.next[x[1]] = x[2]
    BY <1>1, <1>3, QMemFirstFitIs
  <2> QED BY <2>1
<1> HIDE DEF fit
<1>5. QMemTaken(l, poolMem, H, F, b, n)
  <2> HIDE DEF F, H
  <2> QED BY <1>1, <1>3, <1>4, QMemTakeLists
<1>14. l.data = poolMem.data
  BY <1>3, QMemTakeKeepsData
<1> HIDE DEF l
<1>6. PICK K, G : /\ QMemLists(l, K, G, l.free) /\ K \ G = (H \ F) \union {b} /\ l.used = poolMem.used \union {b}
                  /\ QMemApart(poolMem, F) => QMemApart(l, G)
                  /\ \A e \in H \ F : l.size[e] = poolMem.size[e]
                  /\ l.size[b] \in n .. n + Pool!MinBlockSize
  <2> HIDE DEF F, H
  <2> QED BY <1>5 DEF QMemTaken
<1>7. G \subseteq K \ {Pool!End} /\ K \subseteq Pool!Cell /\ Pool!End \in K
  BY <1>6, QMemShapeIs DEF QMemLists
<1>8. poolMem.used \subseteq H \ F /\ b \notin poolMem.used /\ b # Pool!End /\ Pool!End \notin poolMem.used
  BY <1>3, <1>4
<1>9. l.used \subseteq K \ {Pool!End} /\ G = K \ (l.used \union {Pool!End})
  <2>1. H \ F = poolMem.used \union {Pool!End}
    BY <1>3, QMemShapeIs
  <2> HIDE DEF F, H
  <2> QED BY <1>6, <1>7, <1>8, <2>1
<1>10. b \in Pool!Cell /\ b # Pool!None
  BY <1>3, <1>4, QMemCells DEF Pool!None
<1>11. a \in [Handle -> Pool!Cell \union {Pool!None}] /\ a[h] = b /\ \A g \in Handle : g # h => a[g] = poolAt[g]
  BY <1>2, <1>10
<1> HIDE DEF a
<1>12. ASSUME NEW g \in Handle, a[g] # Pool!None PROVE QMemHas(l, a, g)
  <2>1. CASE g = h
    <3>1. \A k \in Handle : k # h => a[k] # b
      <4>1. SUFFICES ASSUME NEW k \in Handle, k # h, poolAt[k] = b PROVE FALSE
        BY <1>11
      <4>2. QMemHas(poolMem, poolAt, k)
        BY <1>3, <1>10, <4>1
      <4> QED BY <1>8, <4>1, <4>2 DEF QMemHas
    <3>2. a[h] \in l.used
      BY <1>6, <1>11
    <3> QED BY <1>1, <1>6, <1>11, <2>1, <3>1, <3>2 DEF QMemHas
  <2>2. CASE g # h
    <3>1. a[g] = poolAt[g] /\ QMemHas(poolMem, poolAt, g)
      BY <1>3, <1>11, <1>12, <2>2
    <3>2. poolAt[g] \in poolMem.used /\ poolAt[g] # b /\ poolAt[g] \in H \ F
      BY <1>8, <3>1 DEF QMemHas
    <3>3. l.size[poolAt[g]] = poolMem.size[poolAt[g]] /\ poolAt[g] \in l.used
      BY <1>6, <3>2
    <3>4. \A k \in Handle : k # g => a[k] # a[g]
      BY <1>11, <2>2, <3>1, <3>2 DEF QMemHas
    <3> QED BY <3>1, <3>3, <3>4 DEF QMemHas
  <2> QED BY <2>1, <2>2
<1>13. QMemServes(l, K, a)
  <2>1. QMemLists(l, K, G, l.free) /\ QMemApart(l, G)
    BY <1>3, <1>6
  <2> HIDE DEF F, H
  <2> QED BY <1>9, <1>11, <1>12, <2>1 DEF QMemServes
<1>15. l.used = (poolMem.used \ {poolAt[h]}) \union ({b} \ {Pool!None})
  <2>1. Pool!None \notin poolMem.used
    BY <1>3, QMemCells
  <2> QED BY <2>1, <1>6, <1>10
<1>16. ASSUME NEW g \in Handle, g # h, poolAt[g] # Pool!None
       PROVE  l.size[poolAt[g]] = poolMem.size[poolAt[g]]
  <2>1. poolAt[g] \in H \ F
    BY <1>3, <1>8, <1>16 DEF QMemHas
  <2> QED BY <2>1, <1>6
<1>17. QMemGives(l, K, h, b)
  BY <1>13, <1>14, <1>15, <1>16 DEF QMemGives, a
<1> QED BY <1>10, <1>17 DEF l, fit

\* Who gives a block back has none.
LEMMA QMemFreeGives ==
  ASSUME QMemIInv, NEW h \in Handle, poolAt[h] # Pool!None, poolAt[h] \in poolMem.used
  PROVE  \E K : QMemGives(Pool!Insert([poolMem EXCEPT !.used = @ \ {poolAt[h]}, !.free = @ + poolMem.size[poolAt[h]]], poolAt[h]),
                         K, h, Pool!None)
<1> DEFINE b == poolAt[h]
           u == poolMem.used \ {b}
           v == poolMem.free + poolMem.size[b]
           m == [poolMem EXCEPT !.used = u, !.free = v]
           l == Pool!Insert(m, b)
           H == QMemHeads(poolMem)
           F == H \ (poolMem.used \union {Pool!End})
           a == [poolAt EXCEPT ![h] = Pool!None]
<1>1. b # Pool!None /\ b \in poolMem.used
  OBVIOUS
<1>2. poolAt \in [Handle -> Pool!Cell \union {Pool!None}]
  BY QMemStateIs
<1>3. /\ poolMem \in QMemMemory /\ QMemShape(poolMem, H) /\ QMemLinked(poolMem, F) /\ F \subseteq H \ {Pool!End} /\ H \subseteq Pool!Cell
      /\ QMemLists(poolMem, H, F, poolMem.free) /\ poolMem.used \subseteq H \ {Pool!End} /\ QMemApart(poolMem, F)
      /\ \A g \in Handle : poolAt[g] # Pool!None => QMemHas(poolMem, poolAt, g)
  <2>1. QMemServes(poolMem, H, poolAt)
    BY QMemStateIs
  <2> HIDE DEF H
  <2>2. poolMem \in QMemMemory /\ QMemShape(poolMem, H) /\ QMemLinked(poolMem, F) /\ F \subseteq H \ {Pool!End} /\ H \subseteq Pool!Cell
    BY <2>1, QMemServesLists
  <2>3. /\ QMemLists(poolMem, H, F, poolMem.free) /\ poolMem.used \subseteq H \ {Pool!End} /\ QMemApart(poolMem, F)
        /\ \A g \in Handle : poolAt[g] # Pool!None => QMemHas(poolMem, poolAt, g)
    BY <2>1 DEF QMemServes
  <2> QED BY <2>2, <2>3
<1>5. b \in H /\ b \notin F /\ b # Pool!End /\ poolMem.size[b] \in Nat /\ poolMem.free \in Nat /\ v \in Nat /\ u \subseteq Pool!Cell
  BY <1>1, <1>3, QMemShapeIs, QMemMemoryIs
<1> HIDE DEF b, H, F, u, v, m, l, a
<1>6. /\ m.next = poolMem.next /\ m.size = poolMem.size /\ m.used = u /\ m.free = v /\ m.data = poolMem.data
      /\ m = [next |-> m.next, size |-> m.size, used |-> m.used, free |-> m.free, data |-> m.data]
  <2>1. m = [poolMem EXCEPT !.used = u, !.free = v]
    BY DEF m
  <2>2. /\ m.next = poolMem.next /\ m.size = poolMem.size /\ m.used = u /\ m.free = v /\ m.data = poolMem.data
    BY ONLY <1>3, <2>1 DEF QMemMemory
  <2>3. m = [next |-> m.next, size |-> m.size, used |-> m.used, free |-> m.free, data |-> m.data]
    BY ONLY <1>3, <2>1 DEF QMemMemory
  <2> QED BY <2>2, <2>3
<1>7. m \in QMemMemory
  BY <1>3, <1>5, <1>6, QMemMemoryIs DEF QMemMemory
<1>8. QMemLists(m, H, F, poolMem.free)
  BY <1>3, <1>6, <1>7, QMemSameLists
<1>9. QMemInsertDone(l, m, H, F, poolMem.free, b)
  BY <1>5, <1>8, QMemInsertLists DEF l
<1>10. PICK K, G : /\ QMemLists(l, K, G, poolMem.free + m.size[b]) /\ K \ G = (H \ F) \ {b}
                   /\ \A e \in K \ G : l.size[e] = m.size[e]
                   /\ QMemApart(m, F) => QMemApart(l, G)
  BY <1>9 DEF QMemInsertDone, QMemInserted
<1>11. l.used = u /\ l.free = v
  BY <1>6, <1>9 DEF QMemInsertDone
<1>12. QMemLists(l, K, G, l.free) /\ QMemApart(l, G)
  <2>1. QMemApart(m, F)
    BY <1>3, <1>6 DEF QMemApart
  <2>2. poolMem.free + m.size[b] = l.free
    BY <1>6, <1>11 DEF v
  <2> QED BY <1>10, <2>1, <2>2
<1>13. G \subseteq K \ {Pool!End} /\ K \subseteq Pool!Cell /\ Pool!End \in K
  BY <1>10, QMemShapeIs DEF QMemLists
<1>14. l.used \subseteq K \ {Pool!End} /\ G = K \ (l.used \union {Pool!End}) /\ u \subseteq K \ G
  <2>1. H \ F = poolMem.used \union {Pool!End}
    BY <1>3, QMemShapeIs DEF F
  <2> QED BY <1>3, <1>5, <1>10, <1>11, <1>13, <2>1 DEF u
<1>15. a \in [Handle -> Pool!Cell \union {Pool!None}] /\ a[h] = Pool!None /\ \A g \in Handle : g # h => a[g] = poolAt[g]
  BY <1>2 DEF a
<1>16. ASSUME NEW g \in Handle, a[g] # Pool!None PROVE QMemHas(l, a, g)
  <2>1. g # h /\ a[g] = poolAt[g] /\ QMemHas(poolMem, poolAt, g)
    BY <1>3, <1>15, <1>16
  <2>2. poolAt[g] \in u
    BY <1>1, <2>1 DEF QMemHas, u, b
  <2>3. poolAt[g] \in l.used /\ l.size[poolAt[g]] = poolMem.size[poolAt[g]]
    BY <1>6, <1>10, <1>11, <1>14, <2>2
  <2>4. \A k \in Handle : k # g => a[k] # a[g]
    BY <1>15, <1>16, <2>1 DEF QMemHas
  <2> QED BY <2>1, <2>3, <2>4 DEF QMemHas
<1>17. QMemServes(l, K, a)
  BY <1>12, <1>14, <1>15, <1>16 DEF QMemServes
<1>18. l.data = poolMem.data
  BY <1>6, <1>9 DEF QMemInsertDone
<1>19. l.used = (poolMem.used \ {poolAt[h]}) \union ({Pool!None} \ {Pool!None})
  BY <1>11 DEF u, b
<1>20. ASSUME NEW g \in Handle, g # h, poolAt[g] # Pool!None
       PROVE  l.size[poolAt[g]] = poolMem.size[poolAt[g]]
  <2>1. QMemHas(poolMem, poolAt, g)
    BY <1>3, <1>20
  <2>2. poolAt[g] \in u
    BY <1>20, <2>1 DEF QMemHas, u, b
  <2> QED BY <1>6, <1>10, <1>14, <2>2
<1>21. QMemGives(l, K, h, Pool!None)
  BY <1>17, <1>18, <1>19, <1>20 DEF QMemGives, a
<1> QED BY <1>21 DEF l, m, u, v, b

LEMMA QMemAllocateSound ==
  ASSUME QMemIInv, NEW h \in Handle, NEW s \in PoolSizes, Pool!Allocate(h, s)
  PROVE  QMemIInv'
<1> DEFINE n == Pool!Units(s)
           fit == Pool!FirstFit(poolMem, n)
<1>1. poolAt[h] = Pool!None /\ s > 0 /\ poolUp' = TRUE /\ n \in Nat
  BY QMemUnitsNat DEF Pool!Allocate
<1>2. Pool!Now = poolMem /\ poolAt \in [Handle -> Pool!Cell \union {Pool!None}]
  BY QMemStateIs
<1>3. CASE n <= poolMem.free /\ fit[2] # Pool!End
  <2>1. Pool!Owned(Pool!Take(poolMem, fit[1], fit[2], n), h, fit[2])
    BY <1>2, <1>3 DEF Pool!Allocate
  <2>2. fit[2] \in Pool!Cell /\ \E K : QMemGives(Pool!Take(poolMem, fit[1], fit[2], n), K, h, fit[2])
    BY <1>1, <1>3, QMemAllocateGives
  <2> HIDE DEF fit, n
  <2>3. PICK K : QMemServes(Pool!Take(poolMem, fit[1], fit[2], n), K, [poolAt EXCEPT ![h] = fit[2]])
    BY <2>2 DEF QMemGives
  <2> QED BY <1>1, <1>2, <2>1, <2>2, <2>3, QMemOwnedSound
<1>4. CASE ~(n <= poolMem.free /\ fit[2] # Pool!End)
  <2>1. poolMem' = Pool!Now /\ poolDenied' = <<h, n>> /\ poolAt' = poolAt
    BY <1>2, <1>4 DEF Pool!Allocate
  <2>2. poolDenied' \in {<<>>} \union (Handle \X Nat)
    BY <1>1, <2>1
  <2> QED BY <1>1, <2>1, <2>2, QMemSameSound
<1> QED BY <1>3, <1>4

LEMMA QMemFreeSound ==
  ASSUME QMemIInv, NEW h \in Handle, Pool!Free(h)
  PROVE  QMemIInv'
<1> DEFINE l == Pool!Insert([poolMem EXCEPT !.used = @ \ {poolAt[h]}, !.free = @ + poolMem.size[poolAt[h]]], poolAt[h])
<1>1. poolAt[h] # Pool!None /\ poolAt[h] \in poolMem.used /\ Pool!Owned(l, h, Pool!None) /\ poolUp' = poolUp
  BY DEF Pool!Free
<1>2. poolAt \in [Handle -> Pool!Cell \union {Pool!None}] /\ poolUp \in BOOLEAN
  BY QMemStateIs
<1>3. poolUp' = TRUE
  <2>1. Pool!Fresh.used = {}
    BY DEF Pool!Fresh
  <2> QED BY <1>1, <1>2, <2>1 DEF QMemIInv
<1>4. PICK K : QMemGives(l, K, h, Pool!None)
  BY <1>1, QMemFreeGives
<1> HIDE DEF l
<1>5. QMemServes(l, K, [poolAt EXCEPT ![h] = Pool!None])
  BY <1>4 DEF QMemGives
<1>6. Pool!None \in Pool!Cell \union {Pool!None}
  OBVIOUS
<1> QED BY <1>1, <1>2, <1>3, <1>5, <1>6, QMemOwnedSound

LEMMA QMemInductive == QMemIInv /\ [Pool!Next]_Pool!vars => QMemIInv'
<1> SUFFICES ASSUME QMemIInv, [Pool!Next]_Pool!vars PROVE QMemIInv'
  OBVIOUS
<1>1. CASE UNCHANGED Pool!vars
  <2>1. poolUp' = poolUp /\ poolMem' = poolMem /\ poolAt' = poolAt /\ poolDenied' = poolDenied
    BY <1>1 DEF Pool!vars
  <2> QED BY <2>1 DEF QMemIInv, Pool!TypeOK
<1>2. CASE Pool!AllocateNothing
  BY <1>2, QMemSameSound DEF Pool!AllocateNothing
<1>3. CASE Pool!Next
  BY <1>2, <1>3, QMemPoolSetupSound, QMemAllocateSound, QMemFreeSound DEF Pool!Next
<1> QED BY <1>1, <1>3

LEMMA QMemInvariance == Pool!Spec => []QMemIInv
BY QMemInitSound, QMemInductive, PTL DEF Pool!Spec


LEMMA QMemIntegritySound == QMemIInv => Pool!Integrity /\ Pool!Coalesced
<1> SUFFICES ASSUME QMemIInv PROVE Pool!Integrity /\ Pool!Coalesced
  OBVIOUS
<1> DEFINE H == QMemHeads(poolMem)
           F == H \ (poolMem.used \union {Pool!End})
           l == Pool!Listed(poolMem)
           S(s) == s = [i \in 0 .. PoolCells |-> IF i = 0 THEN 0 ELSE s[i - 1] + poolMem.size[l[i]]]
<1>1. /\ poolMem \in QMemMemory /\ QMemShape(poolMem, H) /\ QMemLinked(poolMem, F) /\ F \subseteq H \ {Pool!End} /\ H \subseteq Pool!Cell
      /\ QMemLists(poolMem, H, F, poolMem.free) /\ poolMem.used \subseteq H \ {Pool!End} /\ QMemApart(poolMem, F)
      /\ \A g \in Handle : poolAt[g] # Pool!None => QMemHas(poolMem, poolAt, g)
  <2>1. QMemServes(poolMem, H, poolAt)
    BY QMemStateIs
  <2> HIDE DEF H
  <2>2. poolMem \in QMemMemory /\ QMemShape(poolMem, H) /\ QMemLinked(poolMem, F) /\ F \subseteq H \ {Pool!End} /\ H \subseteq Pool!Cell
    BY <2>1, QMemServesLists
  <2>3. /\ QMemLists(poolMem, H, F, poolMem.free) /\ poolMem.used \subseteq H \ {Pool!End} /\ QMemApart(poolMem, F)
        /\ \A g \in Handle : poolAt[g] # Pool!None => QMemHas(poolMem, poolAt, g)
    BY <2>1 DEF QMemServes
  <2> QED BY <2>2, <2>3
<1>2. Pool!Walked(poolMem) = H
  BY <1>1, QMemWalkedIs
<1>3. /\ l[0] = Pool!Start
      /\ \A i \in 0 .. PoolCells - 1 : l[i + 1] = IF l[i] = Pool!End THEN Pool!End ELSE poolMem.next[l[i]]
      /\ \A i \in 1 .. PoolCells : l[i] \in F \union {Pool!End} /\ l[i] >= i - 1
      /\ l[PoolCells] = Pool!End
  <2> HIDE DEF F, H
  <2> QED BY <1>1, QMemListedIs, QMemListEnds
<1>4. /\ \A f \in F : f \in Nat /\ f < Pool!End /\ f # Pool!End
      /\ \A f \in F \union {Pool!Start} : poolMem.next[f] \in F \union {Pool!End} /\ poolMem.next[f] \in Nat /\ f < poolMem.next[f]
      /\ \A f \in F \union {Pool!End} : poolMem.size[f] \in Nat
      /\ Pool!End \in H /\ poolMem.size[Pool!End] = 0
  <2>1. /\ \A f \in F : f \in Nat /\ f < Pool!End /\ f # Pool!End
        /\ \A f \in F \union {Pool!Start} : poolMem.next[f] \in F \union {Pool!End} /\ poolMem.next[f] \in Nat /\ f < poolMem.next[f]
    <3> HIDE DEF F, H
    <3> QED BY <1>1, QMemLinkedIs
  <2>2. Pool!End \in H /\ poolMem.size[Pool!End] = 0 /\ \A f \in H : poolMem.size[f] \in Nat
    BY <1>1, QMemShapeIs DEF QMemShape
  <2> QED BY <2>1, <2>2
<1>5. PICK Q : QMemCounted(poolMem, F, Q, poolMem.free)
  <2> HIDE DEF F, H
  <2> QED BY <1>1 DEF QMemLists
<1>6. /\ \A f \in F \union {Pool!End} : Q[f] \in Nat
      /\ Q[poolMem.next[Pool!Start]] = 0 /\ Q[Pool!End] = poolMem.free
      /\ \A f \in F : Q[poolMem.next[f]] = Q[f] + poolMem.size[f]
  <2> HIDE DEF F, H
  <2> QED BY <1>5 DEF QMemCounted
<1>7. \A f \in F : \E i \in 1 .. PoolCells : l[i] = f
  <2> HIDE DEF F, H
  <2> QED BY <1>1, QMemListReaches
<1>8. {l[i] : i \in 1 .. PoolCells} \ {Pool!End} = F
  <2>1. ASSUME NEW i \in 1 .. PoolCells, l[i] # Pool!End PROVE l[i] \in F
    BY <1>3, <2>1
  <2>2. \A f \in F : f # Pool!End
    BY <1>4
  <2> HIDE DEF F, l
  <2> QED BY <1>7, <2>1, <2>2
<1> HIDE DEF F, H, l
<1>9. ASSUME NEW i \in 0 .. PoolCells - 1 PROVE l[i] < l[i + 1] \/ l[i] = Pool!End
  <2>1. CASE l[i] = Pool!End
    BY <2>1
  <2>2. CASE l[i] # Pool!End
    <3>1. l[i] \in F \union {Pool!Start}
      <4>1. CASE i = 0
        BY <1>3, <4>1
      <4>2. CASE i # 0
        <5>1. i \in 1 .. PoolCells
          BY <4>2, QMemCells
        <5> QED BY <1>3, <2>2, <5>1
      <4> QED BY <4>1, <4>2
    <3> QED BY <1>3, <1>4, <2>2, <3>1
  <2> QED BY <2>1, <2>2
<1> DEFINE t == [i \in 0 .. PoolCells |-> IF i = 0 THEN 0 ELSE Q[l[i]] + poolMem.size[l[i]]]
<1>10. ASSUME NEW i \in 0 .. PoolCells
       PROVE  t[i] = IF i = 0 THEN 0 ELSE t[i - 1] + poolMem.size[l[i]]
  <2>1. CASE i = 0
    BY <2>1
  <2>2. CASE i = 1
    <3>1. 0 \in 0 .. PoolCells - 1 /\ 0 \in 0 .. PoolCells /\ 1 \in 1 .. PoolCells /\ 1 \in 0 .. PoolCells
      BY QMemCells
    <3>2. l[0 + 1] = poolMem.next[Pool!Start]
      <4>1. Pool!Start # Pool!End
        BY QMemCells
      <4> QED BY <1>3, <3>1, <4>1
    <3>3. Q[l[1]] = 0 /\ poolMem.size[l[1]] \in Nat
      BY <1>3, <1>4, <1>6, <3>1, <3>2
    <3>4. t[0] = 0 /\ t[1] = Q[l[1]] + poolMem.size[l[1]]
      BY <3>1
    <3> QED BY <2>2, <3>3, <3>4
  <2>3. CASE i # 0 /\ i # 1
    <3>1. /\ i - 1 \in 1 .. PoolCells /\ i - 1 \in 0 .. PoolCells - 1 /\ i \in 1 .. PoolCells
          /\ (i - 1) + 1 = i /\ i - 1 \in 0 .. PoolCells /\ i - 1 # 0
      BY <2>3, QMemCells
    <3>2. t[i] = Q[l[i]] + poolMem.size[l[i]] /\ t[i - 1] = Q[l[i - 1]] + poolMem.size[l[i - 1]]
      BY <2>3, <3>1
    <3>3. l[i] = IF l[i - 1] = Pool!End THEN Pool!End ELSE poolMem.next[l[i - 1]]
      BY <1>3, <3>1
    <3>4. l[i - 1] \in F \union {Pool!End}
      BY <1>3, <3>1
    <3>5. Q[l[i]] = Q[l[i - 1]] + poolMem.size[l[i - 1]]
      BY <1>4, <1>6, <3>3, <3>4
    <3> QED BY <2>3, <3>2, <3>5
  <2> QED BY <2>1, <2>2, <2>3
<1>11. S(t)
  <2>1. t = [i \in 0 .. PoolCells |-> t[i]]
    OBVIOUS
  <2> HIDE DEF t
  <2> QED BY <1>10, <2>1
<1> DEFINE sum == CHOOSE s : S(s)
<1>12. S(sum)
  <2> HIDE DEF S
  <2> QED BY <1>11
<1> HIDE DEF sum
<1>13. sum[PoolCells] = poolMem.free
  <2> DEFINE D == {k \in Nat : k \in 0 .. PoolCells => sum[k] = t[k]}
  <2>1. D = Nat
    <3>1. D \in SUBSET Nat
      OBVIOUS
    <3>2. 0 \in D
      <4>1. 0 \in 0 .. PoolCells
        BY QMemCells
      <4> QED BY <1>12, <4>1
    <3>3. ASSUME NEW k \in D PROVE k + 1 \in D
      <4>1. SUFFICES ASSUME k + 1 \in 0 .. PoolCells PROVE sum[k + 1] = t[k + 1]
        OBVIOUS
      <4>2. k \in Nat /\ k \in 0 .. PoolCells /\ k + 1 # 0 /\ (k + 1) - 1 = k
        BY <4>1, QMemCells
      <4>3. sum[k] = t[k]
        BY <4>2
      <4> HIDE DEF t
      <4>4. sum[k + 1] = sum[k] + poolMem.size[l[k + 1]]
        BY <1>12, <4>1, <4>2
      <4>5. t[k + 1] = t[k] + poolMem.size[l[k + 1]]
        BY <1>10, <4>1, <4>2
      <4> QED BY <4>3, <4>4, <4>5
    <3> HIDE DEF D
    <3> QED BY <3>1, <3>2, <3>3, SetInduction
  <2>2. PoolCells \in Nat /\ PoolCells \in 0 .. PoolCells /\ PoolCells # 0
    BY QMemCells
  <2>3. sum[PoolCells] = t[PoolCells]
    BY <2>1, <2>2
  <2>4. t[PoolCells] = Q[Pool!End] + 0
    BY <1>3, <1>4, <2>2
  <2>5. Q[Pool!End] = poolMem.free /\ Q[Pool!End] \in Nat
    BY <1>6
  <2> QED BY <2>3, <2>4, <2>5
<1>14. Pool!Integrity
  <2>1. H \subseteq Pool!Cell /\ Pool!End \in H /\ F = H \ (poolMem.used \union {Pool!End})
    BY <1>1, <1>4 DEF F
  <2> HIDE DEF S, t
  <2>2. poolMem.free = (CHOOSE s : S(s))[PoolCells]
    BY <1>13 DEF sum
  <2> QED BY <1>2, <1>8, <1>9, <2>1, <2>2 DEF Pool!Integrity, l, S
<1>15. Pool!Coalesced
  <2>1. SUFFICES ASSUME NEW b \in F PROVE b + poolMem.size[b] \in poolMem.used \union {Pool!End}
    BY <1>2 DEF Pool!Coalesced, F
  <2>2. b + poolMem.size[b] \in H /\ b + poolMem.size[b] \notin F
    BY <1>1, <1>4, QMemShapeIs DEF QMemApart
  <2> QED BY <2>2 DEF F
<1> QED BY <1>14, <1>15

\* The list has the blocks that are not given out, once and in the order of
\* their addresses, and FreeBytesRemaining is what they have.
THEOREM QMemIntegrityHolds == Pool!Spec => []Pool!Integrity
<1>1. QMemIInv => Pool!Integrity
  BY QMemIntegritySound
<1> QED BY <1>1, QMemInvariance, PTL

\* qMemMang_InsertBlockIntoFreeList joins a block with its neighbours, so that
\* behind a free one is one given out or the end marker.
THEOREM QMemCoalescedHolds == Pool!Spec => []Pool!Coalesced
<1>1. QMemIInv => Pool!Coalesced
  BY QMemIntegritySound
<1> QED BY <1>1, QMemInvariance, PTL

-----------------------------------------------------------------------------
(***************************************************************************)
(* qmemmang's clients see a heap.                                          *)
(***************************************************************************)
\* What lies in the clients' blocks is theirs, and no one else is given any.
QMemWritten ==
  /\ \A h \in Handle : poolAt[h] # Pool!None =>
       \A c \in poolAt[h] + 1 .. poolAt[h] + poolMem.size[poolAt[h]] - 1 :
         poolMem.data[c] = <<h, c - poolAt[h] + 1>>
  /\ \A b \in poolMem.used : \E h \in Handle : poolAt[h] = b

\* How many units each client has in m, the structure among them.
QMemLong(m, a) == [h \in Handle |-> IF a[h] = Pool!None THEN 0 ELSE m.size[a[h]]]

\* Where Heap sees the blocks of the pool, and what is in them.
QMemSeesAt == [h \in Handle |-> poolAt[h] + 1]
QMemLen == QMemLong(poolMem, poolAt)
QMemSees == [h \in Handle |-> IF poolAt[h] = Pool!None THEN <<>>
                              ELSE [i \in 1 .. poolMem.size[poolAt[h]] |->
                                      IF i = 1 THEN <<h, 1>> ELSE poolMem.data[poolAt[h] + i - 1]]]

QMemView ==
  /\ QMemSeesAt \in [Handle -> Nat] /\ QMemLen \in [Handle -> Nat] /\ QMemSees = HeapContent(QMemLen)
  /\ HeapLies(QMemSeesAt, QMemLen, 1 .. PoolCells - 1)
  /\ \A h \in Handle : poolAt[h] # Pool!None =>
       \E s \in PoolSizes \ {0} : QMemLen[h] \in Pool!Units(s) .. Pool!Units(s) + Pool!MinBlockSize

LEMMA QMemBlockIs ==
  ASSUME QMemIInv, NEW h \in Handle
  PROVE  /\ QMemSeesAt[h] \in Nat /\ QMemLen[h] \in Nat
         /\ poolAt[h] = Pool!None => QMemSeesAt[h] = 0 /\ QMemLen[h] = 0
         /\ poolAt[h] # Pool!None =>
              /\ poolAt[h] \in QMemHeads(poolMem) /\ poolAt[h] \in Nat /\ poolAt[h] \in poolMem.used /\ poolAt[h] # Pool!End
              /\ poolMem.size[poolAt[h]] \in Nat /\ poolMem.size[poolAt[h]] > 0
              /\ poolAt[h] + poolMem.size[poolAt[h]] <= Pool!End
              /\ QMemSeesAt[h] = poolAt[h] + 1 /\ QMemLen[h] = poolMem.size[poolAt[h]]
<1>1. QMemSeesAt[h] = poolAt[h] + 1 /\ QMemLen[h] = IF poolAt[h] = Pool!None THEN 0 ELSE poolMem.size[poolAt[h]]
  BY DEF QMemSeesAt, QMemLen, QMemLong
<1>2. CASE poolAt[h] = Pool!None
  BY <1>1, <1>2 DEF Pool!None
<1>3. CASE poolAt[h] # Pool!None
  <2> DEFINE H == QMemHeads(poolMem)
  <2>1. QMemServes(poolMem, H, poolAt)
    BY QMemStateIs
  <2> HIDE DEF H
  <2>2. QMemShape(poolMem, H)
    BY <2>1, QMemServesLists
  <2>3. poolAt[h] \in poolMem.used /\ poolMem.used \subseteq H \ {Pool!End}
    BY <1>3, <2>1 DEF QMemServes, QMemHas
  <2>4. /\ poolAt[h] \in H /\ poolAt[h] # Pool!End /\ poolAt[h] \in Nat /\ poolMem.size[poolAt[h]] \in Nat
        /\ poolMem.size[poolAt[h]] > 0 /\ poolAt[h] + poolMem.size[poolAt[h]] <= Pool!End
    BY <2>2, <2>3, QMemShapeIs
  <2> QED BY <1>1, <1>3, <2>3, <2>4 DEF H
<1> QED BY <1>2, <1>3

LEMMA QMemBlocksApart ==
  ASSUME QMemIInv, NEW f \in Handle, NEW g \in Handle, f # g, poolAt[f] # Pool!None, poolAt[g] # Pool!None
  PROVE  poolAt[f] # poolAt[g] /\ (poolAt[f] + poolMem.size[poolAt[f]] <= poolAt[g] \/ poolAt[g] + poolMem.size[poolAt[g]] <= poolAt[f])
<1> DEFINE H == QMemHeads(poolMem)
<1>1. QMemServes(poolMem, H, poolAt)
  BY QMemStateIs
<1>2. /\ poolAt[f] \in H \ {Pool!End} /\ poolAt[g] \in H \ {Pool!End} /\ poolAt[f] \in Nat /\ poolAt[g] \in Nat
  BY QMemBlockIs
<1> HIDE DEF H
<1>3. poolAt[f] # poolAt[g]
  BY <1>1 DEF QMemServes, QMemHas
<1>4. QMemShape(poolMem, H)
  BY <1>1, QMemServesLists
<1> QED BY <1>2, <1>3, <1>4 DEF QMemShape

LEMMA QMemSeen == QMemIInv /\ QMemWritten => QMemView
<1> SUFFICES ASSUME QMemIInv, QMemWritten
             PROVE  QMemView
  OBVIOUS
<1>1. QMemSeesAt \in [Handle -> Nat] /\ QMemLen \in [Handle -> Nat]
  <2>1. \A h \in Handle : QMemSeesAt[h] \in Nat /\ QMemLen[h] \in Nat
    BY QMemBlockIs
  <2> QED BY <2>1 DEF QMemSeesAt, QMemLen, QMemLong
<1>2. ASSUME NEW h \in Handle
      PROVE  (IF poolAt[h] = Pool!None THEN <<>>
              ELSE [i \in 1 .. poolMem.size[poolAt[h]] |-> IF i = 1 THEN <<h, 1>> ELSE poolMem.data[poolAt[h] + i - 1]])
               = HeapWords(h, QMemLen[h])
  <2>1. CASE poolAt[h] = Pool!None
    BY <2>1, QMemBlockIs, HeapWordsAre
  <2>2. CASE poolAt[h] # Pool!None
    <3> DEFINE e == poolAt[h]
               k == poolMem.size[e]
    <3>1. e \in Nat /\ k \in Nat /\ QMemLen[h] = k
      BY <2>2, QMemBlockIs
    <3>2. \A c \in e + 1 .. e + k - 1 : poolMem.data[c] = <<h, c - e + 1>>
      BY <2>2 DEF QMemWritten
    <3> HIDE DEF e, k
    <3>3. ASSUME NEW i \in 1 .. k, i # 1
          PROVE  poolMem.data[e + i - 1] = <<h, i>>
      <4>1. e + i - 1 \in e + 1 .. e + k - 1 /\ (e + i - 1) - e + 1 = i
        BY <3>1, <3>3
      <4> QED BY <4>1, <3>2
    <3>4. [i \in 1 .. k |-> IF i = 1 THEN <<h, 1>> ELSE poolMem.data[e + i - 1]] = HeapWords(h, k)
      BY <3>3 DEF HeapWords
    <3> QED BY <3>1, <3>4, <2>2 DEF e, k
  <2> QED BY <2>1, <2>2
<1>3. QMemSees = HeapContent(QMemLen)
  BY <1>2 DEF QMemSees, HeapContent
<1>4. ASSUME NEW g \in Handle
      PROVE  QMemSeesAt[g] .. QMemSeesAt[g] + QMemLen[g] - 1 \subseteq 1 .. PoolCells - 1
  BY QMemBlockIs, QMemCells
<1>5. ASSUME NEW f \in Handle, NEW g \in Handle, f # g
      PROVE  (QMemSeesAt[f] .. QMemSeesAt[f] + QMemLen[f] - 1) \intersect (QMemSeesAt[g] .. QMemSeesAt[g] + QMemLen[g] - 1) = {}
  <2>1. CASE poolAt[f] = Pool!None \/ poolAt[g] = Pool!None
    BY <2>1, QMemBlockIs
  <2>2. CASE poolAt[f] # Pool!None /\ poolAt[g] # Pool!None
    BY <1>5, <2>2, QMemBlockIs, QMemBlocksApart
  <2> QED BY <2>1, <2>2
<1>6. HeapLies(QMemSeesAt, QMemLen, 1 .. PoolCells - 1)
  BY <1>4, <1>5 DEF HeapLies
<1>7. ASSUME NEW h \in Handle, poolAt[h] # Pool!None
      PROVE  \E s \in PoolSizes \ {0} : QMemLen[h] \in Pool!Units(s) .. Pool!Units(s) + Pool!MinBlockSize
  <2>1. QMemHas(poolMem, poolAt, h)
    BY <1>7, QMemStateIs DEF QMemServes
  <2> QED BY <2>1, <1>7, QMemBlockIs DEF QMemHas
<1> QED BY <1>1, <1>3, <1>6, <1>7 DEF QMemView

LEMMA QMemNeeds ==
  ASSUME NEW s \in PoolSizes, s # 0
  PROVE  Pool!Units(s) \in Pool!Clients!Needs /\ Pool!Units(s) \in Nat /\ Pool!Units(s) > 0
<1>1. s \in Nat /\ Pool!Units(s) \in Nat /\ Pool!Units(s) = 1 + (s + 7) \div 8
  BY QMemUnitsNat, QMemBounds DEF Pool!Units
<1>2. Pool!Units(s) \in 1 .. s + 1 /\ Pool!Units(s) * 8 - 8 >= s /\ (Pool!Units(s) - 1) * 8 - 8 < s
  BY <1>1
<1>3. Pool!Clients!Need(s) = Pool!Units(s)
  BY <1>1, <1>2, HeapNeed DEF Pool!Clients!Need
<1> QED BY <1>1, <1>2, <1>3 DEF Pool!Clients!Needs

QMemOnly(h) ==
  /\ QMemView /\ QMemView' /\ poolDenied' = <<>>
  /\ HeapSame(QMemSeesAt, QMemLen, QMemSeesAt', QMemLen', h)

LEMMA QMemGrants ==
  ASSUME NEW h \in Handle, QMemOnly(h), poolAt'[h] # Pool!None
  PROVE  Pool!Clients!Next
<1>1. PICK s \in PoolSizes \ {0} : QMemLen'[h] \in Pool!Units(s) .. Pool!Units(s) + Pool!MinBlockSize
  BY DEF QMemOnly, QMemView
<1>2. Pool!Units(s) \in Pool!Clients!Needs /\ Pool!Units(s) \in Nat /\ Pool!Units(s) > 0
  BY QMemNeeds
<1>3. /\ QMemSeesAt \in [Handle -> Nat] /\ QMemLen \in [Handle -> Nat] /\ QMemSees = HeapContent(QMemLen)
      /\ QMemSeesAt' \in [Handle -> Nat] /\ QMemLen' \in [Handle -> Nat] /\ QMemSees' = HeapContent(QMemLen')
      /\ HeapLies(QMemSeesAt', QMemLen', 1 .. PoolCells - 1) /\ poolDenied' = <<>>
      /\ HeapSame(QMemSeesAt, QMemLen, QMemSeesAt', QMemLen', h)
  BY DEF QMemOnly, QMemView
<1>4. PICK n \in Nat : n = QMemLen'[h]
  BY <1>3
<1>5. PICK b \in Nat : b = QMemSeesAt'[h]
  BY <1>3
<1>6. n \in Pool!Units(s) .. Pool!Units(s) + Pool!MinBlockSize /\ n > 0
  BY <1>1, <1>2, <1>4 DEF Pool!MinBlockSize
<1>7. /\ QMemSeesAt' = HeapPut(QMemSeesAt, h, b)
      /\ HeapContent(QMemLen') = HeapPut(HeapContent(QMemLen), h, HeapLonger(HeapContent(QMemLen)[h], h, n))
      /\ b \in HeapRooms(QMemSeesAt, HeapContent(QMemLen), 1 .. PoolCells - 1, h, n)
  <2>1. h \in Handle /\ QMemLen'[h] > 0
    BY <1>4, <1>6
  <2>2. /\ QMemSeesAt' = HeapPut(QMemSeesAt, h, QMemSeesAt'[h])
        /\ HeapContent(QMemLen') = HeapPut(HeapContent(QMemLen), h, HeapLonger(HeapContent(QMemLen)[h], h, QMemLen'[h]))
        /\ QMemSeesAt'[h] \in HeapRooms(QMemSeesAt, HeapContent(QMemLen), 1 .. PoolCells - 1, h, QMemLen'[h])
    BY ONLY <1>3, <2>1, HeapGranted
  <2> QED BY <1>4, <1>5, <2>2, Zenon
<1>8. /\ QMemSees' = HeapPut(QMemSees, h, HeapLonger(QMemSees[h], h, n))
      /\ b \in HeapRooms(QMemSeesAt, QMemSees, 1 .. PoolCells - 1, h, n)
  BY <1>3, <1>7, Zenon
<1>9. Pool!Clients!Rooms(h, n) = HeapRooms(QMemSeesAt, QMemSees, 1 .. PoolCells - 1, h, n)
  BY Zenon DEF QMemSeesAt, QMemSees, Pool!Clients!Rooms, Pool!Clients!Extent, HeapRooms, HeapExtent
<1>10. b \in Pool!Clients!Rooms(h, n)
  BY <1>8, <1>9, Zenon
<1>11. Pool!Clients!Grant(h, n)
  BY <1>3, <1>7, <1>8, <1>10, Zenon DEF QMemSeesAt, QMemSees, HeapPut, HeapLonger, Pool!Clients!Grant
<1> QED BY <1>2, <1>6, <1>11, Zenon DEF Pool!Clients!Next

LEMMA QMemFreed ==
  ASSUME NEW h \in Handle, QMemOnly(h), poolAt'[h] = Pool!None
  PROVE  Pool!Clients!Next
<1>1. /\ QMemSeesAt \in [Handle -> Nat] /\ QMemLen \in [Handle -> Nat] /\ QMemSees = HeapContent(QMemLen)
      /\ QMemSeesAt' \in [Handle -> Nat] /\ QMemLen' \in [Handle -> Nat] /\ QMemSees' = HeapContent(QMemLen')
      /\ poolDenied' = <<>>
      /\ HeapSame(QMemSeesAt, QMemLen, QMemSeesAt', QMemLen', h)
  BY DEF QMemOnly, QMemView
<1>2. QMemSeesAt'[h] = 0 /\ QMemLen'[h] = 0
  BY DEF QMemSeesAt, QMemLen, QMemLong, Pool!None
<1>3. QMemSeesAt' = HeapPut(QMemSeesAt, h, 0) /\ QMemSees' = HeapPut(QMemSees, h, <<>>)
  <2>1. HeapGone(QMemSeesAt, QMemLen, QMemSeesAt', QMemLen', h)
    BY <1>1, <1>2 DEF HeapGone
  <2>2. /\ QMemSeesAt' = HeapPut(QMemSeesAt, h, QMemSeesAt'[h])
        /\ HeapContent(QMemLen') = HeapPut(HeapContent(QMemLen), h, <<>>)
    BY ONLY <2>1, HeapTaken
  <2> QED BY <1>1, <1>2, <2>2, Zenon
<1>4. Pool!Clients!Free(h)
  BY <1>1, <1>3, Zenon DEF QMemSeesAt, QMemSees, HeapPut, Pool!Clients!Free
<1> QED BY <1>4 DEF Pool!Clients!Next

LEMMA QMemMoves ==
  ASSUME NEW h \in Handle, QMemIInv, QMemIInv', QMemWritten, QMemWritten', poolDenied' = <<>>,
         HeapSame(QMemSeesAt, QMemLen, QMemSeesAt', QMemLen', h)
  PROVE  Pool!Clients!Next
<1>1. QMemView /\ QMemView'
  BY QMemSeen, PTL
<1>2. QMemOnly(h)
  BY <1>1 DEF QMemOnly
<1> QED BY <1>2, QMemGrants, QMemFreed

LEMMA QMemOwnedSeen ==
  ASSUME QMemIInv, QMemIInv', QMemWritten, NEW h \in Handle, NEW b \in Pool!Cell \union {Pool!None},
         NEW m, NEW H, QMemGives(m, H, h, b), Pool!Owned(m, h, b)
  PROVE  QMemWritten' /\ Pool!Clients!Next
<1> DEFINE a == [poolAt EXCEPT ![h] = b]
           body(g) == IF a[g] = Pool!None THEN {} ELSE a[g] + 1 .. a[g] + m.size[a[g]] - 1
           all == UNION {body(g) : g \in Handle}
           heads == H \union {Pool!Start}
           value(c) == IF c \in body(h) THEN <<h, c - b + 1>>
                       ELSE IF c \in all \ heads THEN m.data[c] ELSE Nobody
<1>1. a[h] = b /\ \A g \in Handle : g # h => a[g] = poolAt[g]
  BY QMemStateIs
<1>2. /\ QMemServes(m, H, a) /\ m.data = poolMem.data
      /\ m.used = (poolMem.used \ {poolAt[h]}) \union ({b} \ {Pool!None})
      /\ \A g \in Handle : g # h /\ poolAt[g] # Pool!None => m.size[poolAt[g]] = poolMem.size[poolAt[g]]
  BY DEF QMemGives
<1> HIDE DEF a
<1>3. m \in QMemMemory /\ QMemShape(m, H) /\ H \subseteq Pool!Cell
  BY <1>2, QMemServesLists
<1>4. Pool!Walked(m) = H
  BY <1>3, QMemWalkedIs
<1>5. /\ poolAt' = a /\ poolDenied' = <<>> /\ poolMem'.used = m.used
      /\ poolMem'.data = [c \in Pool!Cell |-> value(c)]
      /\ \A c \in Pool!Cell : c \in H => poolMem'.size[c] = m.size[c]
  <2> DEFINE next == [c \in DOMAIN m.next |-> IF c \in heads THEN m.next[c] ELSE Pool!None]
             size == [c \in DOMAIN m.size |-> IF c \in heads THEN m.size[c] ELSE Pool!None]
             data == [c \in Pool!Cell |-> value(c)]
  <2>1. poolAt' = a /\ poolDenied' = <<>> /\ poolMem' = [m EXCEPT !.next = next, !.size = size, !.data = data]
    BY <1>4 DEF Pool!Owned, a
  <2>2. \A c \in Pool!Cell : c \in H => size[c] = m.size[c]
    BY <1>3, QMemCells DEF QMemMemory
  <2> HIDE DEF next, size, data
  <2>3. poolMem'.size = size /\ poolMem'.data = data /\ poolMem'.used = m.used
    BY ONLY <1>3, <2>1 DEF QMemMemory
  <2> QED BY <2>1, <2>2, <2>3 DEF data
<1>6. ASSUME NEW g \in Handle, a[g] # Pool!None
      PROVE  /\ a[g] \in m.used /\ a[g] \in H \ {Pool!End} /\ a[g] \in Nat /\ m.size[a[g]] \in Nat /\ a[g] \in Pool!Cell
             /\ poolMem'.size[a[g]] = m.size[a[g]]
             /\ \A c \in a[g] + 1 .. a[g] + m.size[a[g]] - 1 : c \in Pool!Cell /\ c \in all \ heads
  <2>1. a[g] \in m.used /\ m.used \subseteq H \ {Pool!End}
    BY <1>2, <1>6 DEF QMemServes, QMemHas
  <2>2. a[g] \in H \ {Pool!End} /\ a[g] \in Nat /\ m.size[a[g]] \in Nat /\ a[g] \in Pool!Cell /\ a[g] + m.size[a[g]] <= Pool!End
    BY <1>3, <2>1, QMemShapeIs
  <2>3. poolMem'.size[a[g]] = m.size[a[g]]
    BY <1>5, <2>2
  <2>4. ASSUME NEW c \in a[g] + 1 .. a[g] + m.size[a[g]] - 1
        PROVE  c \in Pool!Cell /\ c \in all \ heads
    <3>1. c \in Nat /\ a[g] < c /\ ~(a[g] + m.size[a[g]] <= c) /\ c <= Pool!End
      BY <2>2, <2>4, QMemCells
    <3>2. c \in Pool!Cell /\ c # Pool!Start
      BY <3>1, QMemCells
    <3>3. c \notin H
      BY <3>1, <2>2, <1>3 DEF QMemShape
    <3>4. c \in body(g)
      BY <1>6, <2>4
    <3> HIDE DEF body
    <3>5. body(g) \in {body(f) : f \in Handle}
      OBVIOUS
    <3>6. c \in all
      BY <3>4, <3>5
    <3> QED BY <3>2, <3>3, <3>6
  <2> QED BY <2>1, <2>2, <2>3, <2>4
<1>7. ASSUME NEW g \in Handle, a[g] # Pool!None, NEW c \in a[g] + 1 .. a[g] + poolMem'.size[a[g]] - 1
      PROVE  poolMem'.data[c] = <<g, c - a[g] + 1>>
  <2>1. c \in a[g] + 1 .. a[g] + m.size[a[g]] - 1
    BY <1>6, <1>7
  <2>2. c \in Pool!Cell /\ c \in all \ heads
    BY <1>6, <1>7, <2>1
  <2>3. poolMem'.data[c] = value(c)
    BY <1>5, <2>2
  <2>4. CASE g = h
    <3>1. c \in body(h)
      BY <2>1, <2>4, <1>7
    <3> HIDE DEF body, all, heads
    <3> QED BY <2>3, <2>4, <3>1, <1>1
  <2>5. CASE g # h
    <3>1. c \notin body(h)
      <4>1. SUFFICES ASSUME c \in body(h)
                     PROVE  FALSE
        OBVIOUS
      <4>2. a[h] # Pool!None /\ c \in a[h] + 1 .. a[h] + m.size[a[h]] - 1
        BY <4>1
      <4>3. a[g] # a[h]
        BY <2>5, <1>7, <1>2 DEF QMemServes, QMemHas
      <4>4. a[g] + m.size[a[g]] <= a[h] \/ a[h] + m.size[a[h]] <= a[g]
        BY <4>2, <4>3, <1>3, <1>6, <1>7 DEF QMemShape
      <4> QED BY <4>2, <4>4, <2>1, <1>6, <1>7
    <3>2. a[g] = poolAt[g] /\ m.size[poolAt[g]] = poolMem.size[poolAt[g]]
      BY <2>5, <1>1, <1>2, <1>7
    <3>3. poolMem.data[c] = <<g, c - a[g] + 1>>
      BY <3>2, <2>1, <1>7 DEF QMemWritten
    <3> HIDE DEF body, all, heads
    <3> QED BY <2>2, <2>3, <3>1, <3>3, <1>2
  <2> QED BY <2>4, <2>5
<1> HIDE DEF value
<1>8. ASSUME NEW u \in m.used
      PROVE  \E g \in Handle : a[g] = u
  <2>1. CASE u = b
    BY <2>1, <1>1
  <2>2. CASE u # b
    <3>1. u \in poolMem.used /\ u # poolAt[h]
      BY <2>2, <1>2, <1>8
    <3>2. PICK g \in Handle : poolAt[g] = u
      BY <3>1 DEF QMemWritten
    <3> QED BY <3>1, <3>2, <1>1
  <2> QED BY <2>1, <2>2
<1>9. QMemWritten'
  BY <1>5, <1>7, <1>8 DEF QMemWritten
<1>10. ASSUME NEW g \in Handle \ {h}
       PROVE  QMemSeesAt'[g] = QMemSeesAt[g] /\ QMemLen'[g] = QMemLen[g]
  <2>1. a[g] = poolAt[g]
    BY <1>1
  <2>2. poolAt[g] # Pool!None => poolMem'.size[poolAt[g]] = poolMem.size[poolAt[g]]
    BY <2>1, <1>2, <1>6
  <2> QED BY <2>1, <2>2, <1>5 DEF QMemSeesAt, QMemLen, QMemLong
<1>11. HeapSame(QMemSeesAt, QMemLen, QMemSeesAt', QMemLen', h)
  BY <1>10 DEF HeapSame
<1> QED BY <1>5, <1>9, <1>11, QMemMoves

\* How little there is of a block that is counted.
LEMMA QMemCountedBounds ==
  ASSUME NEW m, NEW H, NEW F, NEW T, QMemLists(m, H, F, T), NEW f \in F
  PROVE  m.size[f] <= T
<1>1. PICK Q : QMemCounted(m, F, Q, T)
  BY DEF QMemLists
<1>2. f < Pool!End /\ m.size[f] \in Nat
  BY QMemLinkedIs, QMemShapeIs DEF QMemLists
<1>3. Q[f] + m.size[f] <= Q[Pool!End] /\ Q[f] \in Nat /\ Q[Pool!End] = T /\ Q[Pool!End] \in Nat
  BY <1>1, <1>2 DEF QMemCounted
<1> QED BY <1>2, <1>3

\* Where n units are free and lie together there is a block of them.
LEMMA QMemNoRoom ==
  ASSUME QMemIInv, QMemWritten, NEW h \in Handle, poolAt[h] = Pool!None, NEW n \in Nat, n > 0,
         NEW b \in Nat, HeapFits(QMemSeesAt, QMemLen, 1 .. PoolCells - 1, h, b, n)
  PROVE  \E e \in QMemHeads(poolMem) \ (poolMem.used \union {Pool!End}) : poolMem.size[e] >= n
<1> DEFINE H == QMemHeads(poolMem)
           F == H \ (poolMem.used \union {Pool!End})
           x == b - 1
<1> SUFFICES ASSUME \A e \in F : ~(poolMem.size[e] >= n)
             PROVE  FALSE
  OBVIOUS
<1>1. QMemServes(poolMem, H, poolAt)
  BY QMemStateIs
<1>2. ASSUME NEW u \in poolMem.used
      PROVE  \E g \in Handle \ {h} : poolAt[g] = u /\ poolAt[g] # Pool!None
  <2>1. PICK g \in Handle : poolAt[g] = u
    BY <1>2 DEF QMemWritten
  <2>2. u # Pool!None
    BY <1>1, <1>2, QMemStateIs, QMemMemoryIs, QMemCells
  <2> QED BY <2>1, <2>2
<1> HIDE DEF H
<1>3. QMemShape(poolMem, H) /\ poolMem.used \subseteq H \ {Pool!End} /\ QMemApart(poolMem, F) /\ H \subseteq Pool!Cell
  BY <1>1, QMemServesLists DEF QMemServes
<1>4. b >= 1 /\ b + n - 1 <= PoolCells - 1 /\ \A g \in Handle \ {h} : \A c \in b .. b + n - 1 : c \notin QMemSeesAt[g] .. QMemSeesAt[g] + QMemLen[g] - 1
  <2>1. b .. b + n - 1 \subseteq 1 .. PoolCells - 1
    BY DEF HeapFits
  <2>2. b \in b .. b + n - 1 /\ b + n - 1 \in b .. b + n - 1
    OBVIOUS
  <2>3. b \in 1 .. PoolCells - 1 /\ b + n - 1 \in 1 .. PoolCells - 1
    BY <2>1, <2>2
  <2> QED BY <2>3, QMemCells DEF HeapFits
<1>5. x \in Nat /\ x + n <= Pool!End /\ x < Pool!End
  BY <1>4, QMemCells
<1> DEFINE below == {k \in H : k <= x}
<1>6. PICK e \in below : \A k \in below : k <= e
  <2>1. below \in SUBSET (0 .. Pool!End) /\ Pool!End \in Nat
    BY <1>3, QMemCells
  <2>2. 0 \in below
    BY <1>3, <1>5, QMemShapeIs
  <2> HIDE DEF below
  <2> QED BY <2>1, <2>2, Greatest
<1> DEFINE y == e + poolMem.size[e]
<1>7. /\ e \in H /\ e \in Nat /\ e <= x /\ e # Pool!End /\ poolMem.size[e] \in Nat
      /\ y \in H /\ y \in Nat /\ x < y /\ y <= Pool!End
  <2>1. e \in H /\ e \in Nat /\ e <= x /\ e # Pool!End
    <3>1. e \in H /\ e <= x
      BY <1>6
    <3>2. e \in Nat
      BY <1>3, <3>1, QMemShapeIs
    <3>3. e # Pool!End
      BY <1>5, <3>1, <3>2, QMemCells
    <3> QED BY <3>1, <3>2, <3>3
  <2>2. poolMem.size[e] \in Nat /\ poolMem.size[e] > 0 /\ y \in H /\ y \in Nat /\ y <= Pool!End
    BY <1>3, <2>1, QMemShapeIs
  <2>3. ~(y <= x)
    <3>1. SUFFICES ASSUME y <= x PROVE FALSE
      OBVIOUS
    <3>2. y \in below
      BY <2>2, <3>1
    <3>3. y <= e
      BY <3>2, <1>6
    <3> QED BY <3>3, <2>1, <2>2
  <2> QED BY <2>1, <2>2, <2>3, <1>5
<1> HIDE DEF below
<1>8. e \notin poolMem.used
  <2>1. SUFFICES ASSUME e \in poolMem.used PROVE FALSE
    OBVIOUS
  <2>2. PICK g \in Handle \ {h} : poolAt[g] = e /\ poolAt[g] # Pool!None
    BY <1>2, <2>1
  <2>3. QMemSeesAt[g] = e + 1 /\ QMemLen[g] = poolMem.size[e]
    BY <2>2, QMemBlockIs
  <2>4. b \in QMemSeesAt[g] .. QMemSeesAt[g] + QMemLen[g] - 1 /\ b \in b .. b + n - 1
    BY <2>3, <1>7
  <2> QED BY <2>4, <1>4
<1>9. e \in F
  BY <1>7, <1>8
<1>10. poolMem.size[e] < n
  BY <1>7, <1>9
<1>11. y # Pool!End /\ y < x + n
  BY <1>5, <1>7, <1>10
<1>12. y \in poolMem.used
  <2>1. y \notin F
    BY <1>3, <1>9 DEF QMemApart
  <2> QED BY <2>1, <1>7, <1>11
<1>13. PICK g \in Handle \ {h} : poolAt[g] = y /\ poolAt[g] # Pool!None
  BY <1>2, <1>12
<1>14. QMemSeesAt[g] = y + 1 /\ QMemLen[g] \in Nat /\ QMemLen[g] > 0
  BY <1>13, QMemBlockIs
<1> HIDE DEF y
<1>15. y + 1 \in QMemSeesAt[g] .. QMemSeesAt[g] + QMemLen[g] - 1 /\ y + 1 \in b .. b + n - 1
  BY <1>7, <1>11, <1>14
<1> QED BY <1>4, <1>15

LEMMA QMemDenies ==
  ASSUME QMemIInv, QMemWritten, NEW h \in Handle, NEW s \in PoolSizes, s > 0, poolAt[h] = Pool!None,
         ~(Pool!Units(s) <= poolMem.free /\ Pool!FirstFit(poolMem, Pool!Units(s))[2] # Pool!End),
         poolMem' = poolMem, poolAt' = poolAt, poolDenied' = <<h, Pool!Units(s)>>
  PROVE  QMemWritten' /\ Pool!Clients!Next
<1> DEFINE H == QMemHeads(poolMem)
           F == H \ (poolMem.used \union {Pool!End})
<1>1. PICK n \in Pool!Clients!Needs : n = Pool!Units(s) /\ n \in Nat /\ n > 0
  BY QMemNeeds
<1>2. QMemServes(poolMem, H, poolAt)
  BY QMemStateIs
<1> HIDE DEF H
<1>3. QMemLists(poolMem, H, F, poolMem.free) /\ QMemShape(poolMem, H) /\ poolMem.free \in Nat
  <2>1. QMemLists(poolMem, H, F, poolMem.free)
    BY <1>2 DEF QMemServes
  <2>2. QMemShape(poolMem, H) /\ poolMem.free \in Nat
    BY <1>2, QMemServesLists
  <2> QED BY <2>1, <2>2
<1>4. \A e \in F : poolMem.size[e] < n
  <2> HIDE DEF F
  <2>1. \A e \in F : poolMem.size[e] <= poolMem.free /\ poolMem.size[e] \in Nat
    <3>1. F \subseteq H
      BY <1>3 DEF QMemLists
    <3> QED BY <1>3, <3>1, QMemCountedBounds, QMemShapeIs
  <2>2. CASE ~(n <= poolMem.free)
    BY <1>1, <1>3, <2>1, <2>2
  <2>3. CASE Pool!FirstFit(poolMem, n)[2] = Pool!End
    <3>1. QMemShape(poolMem, H) /\ F \subseteq H \ {Pool!End} /\ QMemLinked(poolMem, F)
      BY <1>3 DEF QMemLists
    <3>2. LET fit == Pool!FirstFit(poolMem, n)
          IN  IF fit[2] = Pool!End THEN \A f \in F : poolMem.size[f] < n
              ELSE /\ fit[2] \in F /\ poolMem.size[fit[2]] >= n
                   /\ fit[1] \in F \union {Pool!Start} /\ poolMem.next[fit[1]] = fit[2]
      BY <1>1, <3>1, QMemFirstFitIs
    <3> QED BY <2>3, <3>2
  <2> QED BY <1>1, <2>2, <2>3
<1>5. ASSUME NEW b \in Nat, HeapFits(QMemSeesAt, QMemLen, 1 .. PoolCells - 1, h, b, n)
      PROVE  FALSE
  <2>1. PICK e \in F : poolMem.size[e] >= n
    BY <1>1, <1>5, QMemNoRoom DEF H
  <2>2. poolMem.size[e] \in Nat
    BY <1>3, QMemShapeIs
  <2> QED BY <1>1, <1>4, <2>1, <2>2
<1>6. QMemView
  BY QMemSeen
<1>7. HeapRooms(QMemSeesAt, HeapContent(QMemLen), 1 .. PoolCells - 1, h, n) = {}
  <2>1. ASSUME NEW b \in HeapRooms(QMemSeesAt, HeapContent(QMemLen), 1 .. PoolCells - 1, h, n)
        PROVE  FALSE
    <3>1. b \in Nat
      BY <2>1, QMemCells DEF HeapRooms
    <3>2. QMemSeesAt \in [Handle -> Nat] /\ QMemLen \in [Handle -> Nat]
      BY <1>6 DEF QMemView
    <3> QED BY <1>1, <1>5, <2>1, <3>1, <3>2, HeapRoomIs
  <2> QED BY <2>1
<1>8. Pool!Clients!Rooms(h, n) = {}
  <2>1. Pool!Clients!Rooms(h, n) = HeapRooms(QMemSeesAt, QMemSees, 1 .. PoolCells - 1, h, n)
    BY Zenon DEF QMemSeesAt, QMemSees, Pool!Clients!Rooms, Pool!Clients!Extent, HeapRooms, HeapExtent
  <2> QED BY <2>1, <1>6, <1>7, Zenon DEF QMemView
<1>9. QMemWritten' /\ QMemSeesAt' = QMemSeesAt /\ QMemSees' = QMemSees
  BY DEF QMemWritten, QMemSeesAt, QMemSees
<1>10. Pool!Clients!Deny(h, n)
  BY <1>1, <1>8, <1>9, Zenon DEF QMemSeesAt, QMemSees, Pool!Clients!Deny
<1> QED BY <1>9, <1>10 DEF Pool!Clients!Next

LEMMA QMemNothingSeen ==
  ASSUME \A h \in Handle : poolAt[h] = Pool!None, poolMem.used = {}
  PROVE  QMemWritten /\ QMemSeesAt = [h \in Handle |-> 0] /\ QMemSees = [h \in Handle |-> <<>>]
<1>1. Pool!None + 1 = 0
  BY DEF Pool!None
<1> QED BY <1>1 DEF QMemWritten, QMemSeesAt, QMemSees

LEMMA QMemInitSeen == Pool!Init => QMemWritten /\ Pool!Clients!Init
<1> SUFFICES ASSUME Pool!Init
             PROVE  QMemWritten /\ Pool!Clients!Init
  OBVIOUS
<1>1. poolDenied = <<>> /\ (\A h \in Handle : poolAt[h] = Pool!None) /\ poolMem.used = {}
  BY DEF Pool!Init, Pool!Fresh
<1>2. QMemWritten /\ QMemSeesAt = [h \in Handle |-> 0] /\ QMemSees = [h \in Handle |-> <<>>]
  BY <1>1, QMemNothingSeen
<1> QED BY <1>1, <1>2, Zenon DEF QMemSeesAt, QMemSees, Pool!Clients!Init

LEMMA QMemSetupSeen == Pool!PoolSetup => QMemWritten' /\ Pool!Clients!Next
<1> SUFFICES ASSUME Pool!PoolSetup
             PROVE  QMemWritten' /\ Pool!Clients!Next
  OBVIOUS
<1>1. poolDenied' = <<>> /\ (\A h \in Handle : poolAt[h] = Pool!None)' /\ (poolMem.used = {})'
  BY DEF Pool!PoolSetup, Pool!Fresh
<1>2. (QMemWritten /\ QMemSeesAt = [h \in Handle |-> 0] /\ QMemSees = [h \in Handle |-> <<>>])'
  BY <1>1, QMemNothingSeen, PTL
<1>3. Pool!Clients!Forget
  BY <1>1, <1>2, Zenon DEF QMemSeesAt, QMemSees, Pool!Clients!Forget
<1> QED BY <1>2, <1>3 DEF Pool!Clients!Next

LEMMA QMemAllocateNothingSeen ==
  ASSUME QMemIInv, QMemIInv', QMemWritten, Pool!AllocateNothing
  PROVE  QMemWritten' /\ Pool!Clients!Next
<1>1. poolMem' = poolMem /\ poolAt' = poolAt /\ poolDenied' = <<>>
  BY QMemStateIs DEF Pool!AllocateNothing
<1>2. QMemWritten' /\ QMemSeesAt' = QMemSeesAt /\ QMemLen' = QMemLen
  BY <1>1 DEF QMemWritten, QMemSeesAt, QMemLen, QMemLong
<1>3. CASE Handle = {}
  <2>1. QMemSeesAt' = [h \in Handle |-> 0] /\ QMemSees' = [h \in Handle |-> <<>>]
    BY <1>3 DEF QMemSeesAt, QMemSees
  <2>2. Pool!Clients!Forget
    BY <1>1, <2>1, Zenon DEF QMemSeesAt, QMemSees, Pool!Clients!Forget
  <2> QED BY <1>2, <2>2 DEF Pool!Clients!Next
<1>4. ASSUME NEW h \in Handle
      PROVE  Pool!Clients!Next
  <2>1. HeapSame(QMemSeesAt, QMemLen, QMemSeesAt', QMemLen', h)
    BY <1>2 DEF HeapSame
  <2> QED BY <1>1, <1>2, <2>1, QMemMoves
<1> QED BY <1>2, <1>3, <1>4

LEMMA QMemStepsSeen ==
  QMemIInv /\ QMemIInv' /\ QMemWritten /\ [Pool!Next]_Pool!vars => QMemWritten' /\ [Pool!Clients!Next]_Pool!Clients!heap
<1> SUFFICES ASSUME QMemIInv, QMemIInv', QMemWritten, [Pool!Next]_Pool!vars
             PROVE  QMemWritten' /\ [Pool!Clients!Next]_Pool!Clients!heap
  OBVIOUS
<1>1. CASE UNCHANGED Pool!vars
  <2>1. poolMem' = poolMem /\ poolAt' = poolAt /\ poolDenied' = poolDenied
    BY <1>1 DEF Pool!vars
  <2>2. QMemWritten' /\ QMemSeesAt' = QMemSeesAt /\ QMemSees' = QMemSees
    BY <2>1 DEF QMemWritten, QMemSeesAt, QMemSees
  <2>3. UNCHANGED Pool!Clients!heap
    BY <2>1, <2>2, Zenon DEF QMemSeesAt, QMemSees, Pool!Clients!heap
  <2> QED BY <2>2, <2>3
<1>2. ASSUME NEW h \in Handle, Pool!Free(h)
      PROVE  QMemWritten' /\ Pool!Clients!Next
  <2> DEFINE m == Pool!Insert([poolMem EXCEPT !.used = @ \ {poolAt[h]}, !.free = @ + poolMem.size[poolAt[h]]], poolAt[h])
  <2>1. poolAt[h] # Pool!None /\ poolAt[h] \in poolMem.used /\ Pool!Owned(m, h, Pool!None)
    BY <1>2 DEF Pool!Free
  <2>2. PICK K : QMemGives(m, K, h, Pool!None)
    BY <2>1, QMemFreeGives
  <2> HIDE DEF m
  <2>3. Pool!None \in Pool!Cell \union {Pool!None}
    OBVIOUS
  <2> QED BY <2>1, <2>2, <2>3, QMemOwnedSeen
<1>3. ASSUME NEW h \in Handle, NEW s \in PoolSizes, Pool!Allocate(h, s)
      PROVE  QMemWritten' /\ Pool!Clients!Next
  <2> DEFINE n == Pool!Units(s)
             fit == Pool!FirstFit(poolMem, n)
             m == Pool!Take(poolMem, fit[1], fit[2], n)
  <2>1. poolAt[h] = Pool!None /\ s > 0 /\ Pool!Now = poolMem
    BY <1>3, QMemStateIs DEF Pool!Allocate
  <2>2. CASE n <= poolMem.free /\ fit[2] # Pool!End
    <3>1. Pool!Owned(m, h, fit[2])
      BY <1>3, <2>1, <2>2 DEF Pool!Allocate
    <3>2. fit[2] \in Pool!Cell /\ \E K : QMemGives(m, K, h, fit[2])
      BY <2>1, <2>2, QMemAllocateGives
    <3> HIDE DEF m, fit
    <3>3. fit[2] \in Pool!Cell \union {Pool!None}
      BY <3>2
    <3> QED BY <3>1, <3>2, <3>3, QMemOwnedSeen
  <2>3. CASE ~(n <= poolMem.free /\ fit[2] # Pool!End)
    <3>1. poolMem' = poolMem /\ poolDenied' = <<h, n>> /\ poolAt' = poolAt
      BY <1>3, <2>1, <2>3 DEF Pool!Allocate
    <3> QED BY <2>1, <2>3, <3>1, QMemDenies
  <2> QED BY <2>2, <2>3
<1> QED BY <1>1, <1>2, <1>3, QMemSetupSeen, QMemAllocateNothingSeen DEF Pool!Next

\* The clients of qmemmang see a heap: what each has written stays in its block,
\* blocks do not overlap, and NULL is returned only if nowhere in the pool there
\* are so many units together (qmemmang.c:221-305).
THEOREM QMemImplementsHeap == Pool!Spec => Pool!ImplementsHeap
<1>1. Pool!Init => QMemIInv /\ QMemWritten /\ Pool!Clients!Init
  BY QMemInitSound, QMemInitSeen
<1>2. QMemIInv /\ [Pool!Next]_Pool!vars => QMemIInv'
  BY QMemInductive
<1>3. QMemIInv /\ QMemIInv' /\ QMemWritten /\ [Pool!Next]_Pool!vars =>
        QMemWritten' /\ [Pool!Clients!Next]_Pool!Clients!heap
  BY QMemStepsSeen
<1> QED BY <1>1, <1>2, <1>3, PTL DEF Pool!Spec, Pool!ImplementsHeap, Pool!Clients!Spec

-----------------------------------------------------------------------------
(***************************************************************************)
(* umm_malloc.  Some function g leads from each block to the next, which   *)
(* fill the heap; the free ones are a ring in both directions, on which a  *)
(* rank grows from block 0 on, so that a walk comes by all of them and     *)
(* ends.                                                                   *)
(***************************************************************************)
LEMMA UmmBounds ==
  /\ NumBlocks \in Nat /\ 3 <= NumBlocks /\ NumBlocks < 32768 /\ UmmSizes \subseteq Nat /\ Nums \subseteq Nat
  /\ \A size \in UmmSizes : Umm!Blocks(size) > 0 /\ \A num \in Nums : Umm!Blocks(num * size) > 0
BY HeapsAssumption DEF Umm!BlocksAssumption

\* The type of the memory inside of an operation.
UmmIsMemory(m) ==
  /\ m = [next |-> m.next, prev |-> m.prev, nfree |-> m.nfree, pfree |-> m.pfree, data |-> m.data]
  /\ m.next \in [Umm!Block -> Nat] /\ m.prev \in [Umm!Block -> Umm!Block \union {Umm!Junk}]
  /\ m.nfree \in [Umm!Block -> Umm!Block \union {Umm!Junk}] /\ m.pfree \in [Umm!Block -> Umm!Block \union {Umm!Junk}]

UmmMarkOf(b, F) == IF b \in F THEN Umm!Mask ELSE 0

\* The blocks begin at H and F of them are free; g says which one follows.
UmmShape(next, prev, H, F, g) ==
  /\ g \in [Umm!Block -> Umm!Block] /\ Tiles(H, g, 0, Umm!Last) /\ F \subseteq H \ {0, Umm!Last}
  /\ next[Umm!Last] = 0
  /\ \A b \in H \ {Umm!Last} : next[b] = g[b] + UmmMarkOf(b, F) /\ prev[g[b]] = b

\* No two free blocks follow one another.
UmmApart(F, g) == \A b \in F : g[b] \notin F

\* r grows along the list that begins and ends with 0.
UmmRanks(nfree, F, r) ==
  \A b \in F \union {0} : nfree[b] # 0 => r[b] < r[nfree[b]]

\* From 0 on one comes by nfree, and backwards by pfree, to all of F.
UmmRing(nfree, pfree, F) ==
  /\ \A b \in F \union {0} :
       /\ nfree[b] \in F \union {0} /\ pfree[b] \in F \union {0}
       /\ pfree[nfree[b]] = b /\ nfree[pfree[b]] = b
  /\ \E r \in [Umm!Block -> Nat] : UmmRanks(nfree, F, r)

\* The memory m has the blocks H, of which F are on the free list.
UmmGood(m, H, F, g) ==
  /\ UmmIsMemory(m) /\ UmmShape(m.next, m.prev, H, F, g) /\ UmmApart(F, g) /\ UmmRing(m.nfree, m.pfree, F)

\* Each client has a block of its own among those in use.
UmmHeld(a, U) ==
  /\ a \in [Handle -> Umm!Block \ {Umm!Last}]
  /\ \A h \in Handle : a[h] # 0 => a[h] \in U \ {0, Umm!Last}
                                  /\ \A k \in Handle : k # h => a[k] # a[h]

-----------------------------------------------------------------------------
LEMMA UmmConsts ==
  /\ Umm!Last \in Nat /\ Umm!Last >= 2 /\ Umm!Last + 1 < Umm!Mask /\ Umm!Last + 1 = NumBlocks /\ NumBlocks \in Nat
  /\ Umm!Block = 0 .. Umm!Last /\ Umm!Block \subseteq Nat /\ 0 \in Umm!Block /\ Umm!Last \in Umm!Block /\ Umm!Last # 0
  /\ Umm!Junk \in Nat /\ Umm!Junk \notin Umm!Block /\ Umm!Mask = 32768 /\ Umm!Mask \in Nat
<1>1. NumBlocks \in Nat /\ 3 <= NumBlocks /\ NumBlocks <= 32767
  BY UmmBounds
<1> QED BY ONLY <1>1, SMTT(20) DEF Umm!Last, Umm!Mask, Umm!Junk, Umm!Block

LEMMA UmmNoMaskIs ==
  ASSUME NEW b \in Umm!Block
  PROVE  /\ Umm!NoMask(b) = b /\ Umm!NoMask(b + Umm!Mask) = b /\ ~(b >= Umm!Mask) /\ b + Umm!Mask >= Umm!Mask
         /\ b \in Nat /\ b <= Umm!Last /\ b + Umm!Mask \in Nat
<1>1. b \in Nat /\ b <= Umm!Last /\ b < 32768 /\ Umm!Mask = 32768
  BY UmmConsts
<1>2. Umm!NoMask(b) = b /\ Umm!NoMask(b + Umm!Mask) = b
  <2>1. b % 32768 = b /\ (b + 32768) % 32768 = b
    BY <1>1
  <2> QED BY <1>1, <2>1 DEF Umm!NoMask
<1> QED BY <1>1, <1>2

LEMMA UmmShapeIs ==
  ASSUME NEW nx, NEW pv, NEW H, NEW F, NEW g, UmmShape(nx, pv, H, F, g)
  PROVE  /\ H \subseteq Umm!Block /\ 0 \in H /\ Umm!Last \in H /\ F \subseteq H /\ 0 \notin F /\ Umm!Last \notin F
         /\ g \in [Umm!Block -> Umm!Block]
         /\ \A b \in H \ {Umm!Last} :
              /\ b \in Umm!Block /\ g[b] \in H /\ g[b] \in Umm!Block /\ b < g[b] /\ g[b] # 0 /\ pv[g[b]] = b
              /\ \A f \in H : b < f => g[b] <= f
              /\ nx[b] = g[b] + UmmMarkOf(b, F) /\ Umm!NoMask(nx[b]) = g[b]
              /\ nx[b] >= Umm!Mask <=> b \in F
              /\ b \notin F => nx[b] = g[b]
         /\ ~(nx[Umm!Last] >= Umm!Mask) /\ nx[Umm!Last] = 0 /\ Umm!NoMask(nx[Umm!Last]) = 0
<1>1. /\ H \subseteq Umm!Block /\ 0 \in H /\ Umm!Last \in H /\ F \subseteq H /\ 0 \notin F /\ Umm!Last \notin F
      /\ g \in [Umm!Block -> Umm!Block]
  BY UmmConsts DEF UmmShape, Tiles
<1>2. ASSUME NEW b \in H \ {Umm!Last}
      PROVE  /\ b \in Umm!Block /\ g[b] \in H /\ g[b] \in Umm!Block /\ b < g[b] /\ g[b] # 0 /\ pv[g[b]] = b
             /\ \A f \in H : b < f => g[b] <= f
             /\ nx[b] = g[b] + UmmMarkOf(b, F) /\ Umm!NoMask(nx[b]) = g[b]
             /\ nx[b] >= Umm!Mask <=> b \in F
             /\ b \notin F => nx[b] = g[b]
  <2>1. /\ b \in Umm!Block /\ g[b] \in H /\ g[b] \in Umm!Block /\ b < g[b] /\ pv[g[b]] = b
        /\ \A f \in H : b < f => g[b] <= f
        /\ nx[b] = g[b] + UmmMarkOf(b, F)
    BY <1>1 DEF UmmShape, Tiles
  <2>2. g[b] # 0
    BY <2>1, UmmConsts
  <2>3. /\ Umm!NoMask(g[b]) = g[b] /\ Umm!NoMask(g[b] + Umm!Mask) = g[b] /\ ~(g[b] >= Umm!Mask)
        /\ g[b] + Umm!Mask >= Umm!Mask /\ g[b] \in Nat
    BY <2>1, UmmNoMaskIs
  <2>4. CASE b \in F
    BY <2>1, <2>2, <2>3, <2>4 DEF UmmMarkOf
  <2>5. CASE b \notin F
    <3>1. nx[b] = g[b]
      BY <2>1, <2>3, <2>5 DEF UmmMarkOf
    <3> QED BY <2>1, <2>2, <2>3, <2>5, <3>1
  <2> QED BY <2>4, <2>5
<1>3. ~(nx[Umm!Last] >= Umm!Mask) /\ nx[Umm!Last] = 0 /\ Umm!NoMask(nx[Umm!Last]) = 0
  BY UmmConsts, UmmNoMaskIs DEF UmmShape
<1> QED BY <1>1, <1>2, <1>3

\* The block before another one.
LEMMA UmmPrevIs ==
  ASSUME NEW nx, NEW pv, NEW H, NEW F, NEW g, UmmShape(nx, pv, H, F, g), NEW c \in H, c # 0
  PROVE  pv[c] \in H \ {Umm!Last} /\ pv[c] < c /\ g[pv[c]] = c /\ pv[c] \in Umm!Block
<1>1. PICK p \in H \ {Umm!Last} : p < c /\ g[p] = c
  <2>1. Tiles(H, g, 0, Umm!Last) /\ 0 \in Nat /\ Umm!Last \in Nat
    BY UmmConsts DEF UmmShape
  <2> QED BY ONLY <2>1, c \in H, c # 0, Predecessor
<1>2. pv[c] = p /\ p \in Umm!Block
  BY <1>1, UmmShapeIs
<1> QED BY <1>1, <1>2
-----------------------------------------------------------------------------
(* The steps between the shapes of the memory. *)

\* The headers ny and py, which were nx and pv, say that the block c of H is
\* split at b; K says whether what is behind b is free.
UmmCut(nx, pv, ny, py, H, g, e, c, b, K) ==
  /\ c \in H /\ c # Umm!Last /\ b \in Umm!Block /\ c < b /\ b < g[c] /\ K \in SUBSET {b}
  /\ ny[c] = b /\ ny[b] = g[c] + UmmMarkOf(b, K) /\ py[b] = c /\ py[g[c]] = b
  /\ \A x \in H \ {c} : ny[x] = nx[x]
  /\ \A x \in H \ {g[c]} : py[x] = pv[x]
  /\ e = [g EXCEPT ![c] = b, ![b] = g[c]]

LEMMA UmmSplitShape ==
  ASSUME NEW nx, NEW pv, NEW H, NEW F, NEW g, UmmShape(nx, pv, H, F, g),
         NEW c, NEW b, NEW K, NEW ny, NEW py, NEW e, UmmCut(nx, pv, ny, py, H, g, e, c, b, K)
  PROVE  UmmShape(ny, py, H \union {b}, (F \ {c}) \union K, e)
<1>0. /\ c \in H /\ c # Umm!Last /\ b \in Umm!Block /\ c < b /\ b < g[c] /\ K \in SUBSET {b}
      /\ ny[c] = b /\ ny[b] = g[c] + UmmMarkOf(b, K) /\ py[b] = c /\ py[g[c]] = b
      /\ \A x \in H \ {c} : ny[x] = nx[x]
      /\ \A x \in H \ {g[c]} : py[x] = pv[x]
      /\ e = [g EXCEPT ![c] = b, ![b] = g[c]]
  BY DEF UmmCut
<1> DEFINE G == (F \ {c}) \union K
<1>1. /\ H \subseteq Umm!Block /\ 0 \in H /\ Umm!Last \in H /\ F \subseteq H /\ 0 \notin F /\ Umm!Last \notin F
      /\ g \in [Umm!Block -> Umm!Block]
      /\ \A x \in H \ {Umm!Last} : /\ x \in Umm!Block /\ g[x] \in H /\ g[x] \in Umm!Block /\ x < g[x] /\ pv[g[x]] = x
                                   /\ \A f \in H : x < f => g[x] <= f
                                   /\ nx[x] = g[x] + UmmMarkOf(x, F)
      /\ nx[Umm!Last] = 0
  BY UmmShapeIs
<1>2. /\ c \in Umm!Block /\ c \in Nat /\ b \in Nat /\ g[c] \in Nat /\ g[c] \in H /\ g[c] \in Umm!Block
      /\ c # b /\ c # g[c] /\ b # g[c] /\ b # 0 /\ b # Umm!Last /\ g[c] <= Umm!Last
      /\ \A x \in H : x \in Nat
  <2>1. \A x \in Umm!Block : x \in Nat /\ x <= Umm!Last /\ 0 <= x
    BY <1>0, UmmConsts
  <2>2. c \in Umm!Block /\ g[c] \in H /\ g[c] \in Umm!Block
    BY <1>0, <1>1
  <2>3. c \in Nat /\ b \in Nat /\ g[c] \in Nat /\ g[c] <= Umm!Last /\ Umm!Last \in Nat
    BY <1>0, <2>1, <2>2, UmmConsts
  <2>4. \A x \in H : x \in Nat
    BY <1>0, <1>1, <2>1
  <2> QED BY <1>0, <2>2, <2>3, <2>4
<1>3. b \notin H
  BY <1>0, <1>1, <1>2
<1>4. e[c] = b /\ e[b] = g[c] /\ e \in [Umm!Block -> Umm!Block] /\ \A x \in H \ {c} : e[x] = g[x]
  BY <1>0, <1>1, <1>2, <1>3
<1>5. G \subseteq (H \union {b}) \ {0, Umm!Last}
  BY <1>0, <1>1, <1>2
<1>6. \A x \in H \ {c} : UmmMarkOf(x, G) = UmmMarkOf(x, F)
  BY <1>0, <1>3 DEF UmmMarkOf
<1>7. UmmMarkOf(b, G) = UmmMarkOf(b, K) /\ UmmMarkOf(c, G) = 0
  BY <1>0, <1>1, <1>2, <1>3 DEF UmmMarkOf
<1> HIDE DEF G
<1>8. ASSUME NEW x \in (H \union {b}) \ {Umm!Last}
      PROVE  /\ e[x] \in H \union {b} /\ x < e[x]
             /\ \A f \in H \union {b} : x < f => e[x] <= f
             /\ ny[x] = e[x] + UmmMarkOf(x, G) /\ py[e[x]] = x
  <2>1. CASE x = c
    <3>1. \A f \in H \union {b} : c < f => b <= f
      BY <1>0, <1>1, <1>2
    <3> QED BY <1>0, <1>2, <1>4, <1>7, <2>1, <3>1
  <2>2. CASE x = b
    <3>1. \A f \in H \union {b} : b < f => g[c] <= f
      BY <1>0, <1>1, <1>2
    <3> QED BY <1>0, <1>2, <1>4, <1>7, <2>2, <3>1
  <2>3. CASE x # c /\ x # b
    <3>1. /\ x \in H \ {Umm!Last} /\ e[x] = g[x] /\ g[x] \in H /\ x < g[x] /\ x \in Nat /\ g[x] \in Nat
          /\ \A f \in H : x < f => g[x] <= f
      BY <1>0, <1>1, <1>2, <1>4, <2>3
    <3>2. x < b => g[x] <= b
      <4>1. CASE x < c
        BY <1>0, <1>2, <3>1, <4>1
      <4>2. CASE c < x
        <5>1. g[c] <= x
          BY <1>0, <1>1, <3>1, <4>2
        <5> QED BY <1>0, <1>2, <3>1, <5>1
      <4> QED BY <1>0, <1>2, <2>3, <3>1, <4>1, <4>2
    <3>3. g[x] # g[c]
      BY <1>0, <1>1, <2>3, <3>1
    <3>4. py[g[x]] = x
      BY <1>0, <1>1, <3>1, <3>3
    <3>5. ny[x] = g[x] + UmmMarkOf(x, G)
      BY <1>0, <1>1, <1>6, <2>3, <3>1
    <3> QED BY <1>0, <3>1, <3>2, <3>4, <3>5
  <2> QED BY <1>0, <2>1, <2>2, <2>3
<1>9. ny[Umm!Last] = 0
  BY <1>0, <1>1
<1>10. H \union {b} \subseteq 0 .. Umm!Last /\ 0 \in H \union {b} /\ Umm!Last \in H \union {b}
  <2>1. Umm!Block = 0 .. Umm!Last
    BY UmmConsts
  <2>2. H \subseteq Umm!Block /\ 0 \in H /\ Umm!Last \in H /\ b \in Umm!Block
    BY <1>0, <1>1
  <2> QED BY ONLY <2>1, <2>2
<1>11. UmmShape(ny, py, H \union {b}, G, e)
  BY <1>0, <1>4, <1>5, <1>8, <1>9, <1>10 DEF UmmShape, Tiles
<1> QED BY <1>11 DEF G

\* Block p takes in the block behind it, which is in use.
LEMMA UmmMergeShape ==
  ASSUME NEW nx, NEW pv, NEW H, NEW F, NEW g, UmmShape(nx, pv, H, F, g),
         NEW p \in H, p # Umm!Last, NEW n, n = g[p], n \notin F, n # Umm!Last,
         NEW ny, NEW py, ny[p] = g[n] + UmmMarkOf(p, F), py[g[n]] = p,
         \A x \in H \ {p, n} : ny[x] = nx[x], \A x \in H \ {g[n], n} : py[x] = pv[x]
  PROVE  LET e == [g EXCEPT ![p] = g[n]]
         IN  /\ UmmShape(ny, py, H \ {n}, F, e)
             /\ e[p] = g[n] /\ \A x \in H \ {p} : e[x] = g[x]
             /\ e \in [Umm!Block -> Umm!Block]
<1> DEFINE e == [g EXCEPT ![p] = g[n]]
           q == g[n]
<1>1. /\ H \subseteq Umm!Block /\ 0 \in H /\ Umm!Last \in H /\ F \subseteq H /\ 0 \notin F /\ Umm!Last \notin F
      /\ g \in [Umm!Block -> Umm!Block]
      /\ \A x \in H \ {Umm!Last} : /\ x \in Umm!Block /\ g[x] \in H /\ g[x] \in Umm!Block /\ x < g[x] /\ pv[g[x]] = x
                                   /\ \A f \in H : x < f => g[x] <= f
                                   /\ nx[x] = g[x] + UmmMarkOf(x, F)
      /\ nx[Umm!Last] = 0
  BY UmmShapeIs
<1>2. \A x \in H : x \in Nat /\ x <= Umm!Last
  BY <1>1, UmmConsts
<1>3. /\ n \in H /\ n \in Umm!Block /\ n \in Nat /\ p \in Nat /\ p \in Umm!Block /\ p < n
      /\ q \in H /\ q \in Umm!Block /\ q \in Nat /\ n < q /\ n # 0
  BY <1>1, <1>2
<1>4. e[p] = q /\ e \in [Umm!Block -> Umm!Block] /\ \A x \in H \ {p} : e[x] = g[x]
  BY <1>1, <1>3
<1>5. F \subseteq (H \ {n}) \ {0, Umm!Last}
  BY <1>1
<1> HIDE DEF e, q
<1>6. py[q] = p /\ ny[p] = q + UmmMarkOf(p, F) /\ g[n] = q
  BY DEF q
<1>8. ASSUME NEW x \in (H \ {n}) \ {Umm!Last}
      PROVE  /\ e[x] \in H \ {n} /\ x < e[x]
             /\ \A f \in H \ {n} : x < f => e[x] <= f
             /\ ny[x] = e[x] + UmmMarkOf(x, F) /\ py[e[x]] = x
  <2>1. CASE x = p
    <3>1. ASSUME NEW f \in H \ {n}, p < f PROVE q <= f
      <4>1. n <= f /\ n # f
        BY <1>1, <3>1
      <4>2. n < f
        BY <1>2, <1>3, <4>1
      <4> QED BY <1>1, <1>3, <1>6, <4>2
    <3> QED BY <1>3, <1>4, <1>6, <2>1, <3>1
  <2>2. CASE x # p
    <3>1. /\ x \in H \ {Umm!Last} /\ e[x] = g[x] /\ g[x] \in H /\ x < g[x]
          /\ \A f \in H : x < f => g[x] <= f
      BY <1>1, <1>4, <2>2
    <3>2. g[x] # n
      BY <1>1, <2>2, <3>1
    <3>3. g[x] # q
      BY <1>1, <1>3, <1>6, <3>1
    <3>4. py[g[x]] = x
      BY <1>1, <1>6, <3>1, <3>2, <3>3
    <3>5. ny[x] = g[x] + UmmMarkOf(x, F)
      BY <1>1, <2>2, <3>1
    <3> QED BY <3>1, <3>2, <3>4, <3>5
  <2> QED BY <2>1, <2>2
<1>9. ny[Umm!Last] = 0
  BY <1>1
<1>10. H \ {n} \subseteq 0 .. Umm!Last /\ 0 \in H \ {n} /\ Umm!Last \in H \ {n}
  <2>1. H \ {n} \subseteq Umm!Block /\ 0 \in H \ {n} /\ Umm!Last \in H \ {n}
    BY <1>1, <1>3
  <2> QED BY <2>1, UmmConsts
<1>11. UmmShape(ny, py, H \ {n}, F, e)
  BY <1>4, <1>5, <1>8, <1>9, <1>10 DEF UmmShape, Tiles
<1> QED BY <1>4, <1>6, <1>11 DEF e

\* Block c gets the mark, or loses it.
LEMMA UmmMarkShape ==
  ASSUME NEW nx, NEW pv, NEW H, NEW F, NEW g, UmmShape(nx, pv, H, F, g),
         NEW c \in H, c # 0, c # Umm!Last, NEW G, G \ {c} = F \ {c}, G \subseteq F \union {c},
         NEW ny, ny[c] = g[c] + UmmMarkOf(c, G), \A x \in H \ {c} : ny[x] = nx[x]
  PROVE  UmmShape(ny, pv, H, G, g)
<1>1. /\ H \subseteq Umm!Block /\ F \subseteq H /\ 0 \notin F /\ Umm!Last \notin F
      /\ \A x \in H \ {Umm!Last} : pv[g[x]] = x /\ nx[x] = g[x] + UmmMarkOf(x, F)
      /\ nx[Umm!Last] = 0 /\ Umm!Last \in H
  BY UmmShapeIs
<1>2. G \subseteq H \ {0, Umm!Last}
  BY <1>1
<1>3. \A x \in H \ {c} : UmmMarkOf(x, G) = UmmMarkOf(x, F)
  BY DEF UmmMarkOf
<1>4. \A x \in H \ {Umm!Last} : ny[x] = g[x] + UmmMarkOf(x, G)
  BY <1>1, <1>3
<1>5. ny[Umm!Last] = 0
  BY <1>1
<1> QED BY <1>1, <1>2, <1>4, <1>5 DEF UmmShape
-----------------------------------------------------------------------------
(* The steps of the free list. *)

LEMMA UmmRingIs ==
  ASSUME NEW nf, NEW pf, NEW F, UmmRing(nf, pf, F)
  PROVE  \A b \in F \union {0} :
           /\ nf[b] \in F \union {0} /\ pf[b] \in F \union {0}
           /\ pf[nf[b]] = b /\ nf[pf[b]] = b
BY DEF UmmRing

\* Block c is taken off the list.
LEMMA UmmRingRemove ==
  ASSUME NEW nf, NEW pf, NEW F, F \subseteq Umm!Block \ {0}, UmmRing(nf, pf, F), NEW c \in F,
         NEW mf, NEW qf, mf[pf[c]] = nf[c], qf[nf[c]] = pf[c],
         \A x \in Umm!Block \ {pf[c]} : mf[x] = nf[x], \A x \in Umm!Block \ {nf[c]} : qf[x] = pf[x]
  PROVE  UmmRing(mf, qf, F \ {c})
<1>0. /\ F \union {0} \subseteq Umm!Block
      /\ \A x \in F \union {0} : /\ nf[x] \in F \union {0} /\ pf[x] \in F \union {0}
                                /\ nf[x] \in Umm!Block /\ pf[x] \in Umm!Block
                                /\ pf[nf[x]] = x /\ nf[pf[x]] = x
  <2>1. F \union {0} \subseteq Umm!Block
    BY UmmConsts
  <2> QED BY <2>1, UmmRingIs
<1>1. PICK r \in [Umm!Block -> Nat] : UmmRanks(nf, F, r)
  BY DEF UmmRing
<1>2. \A b \in F \union {0} : r[b] \in Nat
  BY UmmConsts
<1>3. ASSUME NEW b \in (F \ {c}) \union {0}, mf[b] # 0 PROVE r[b] < r[mf[b]]
  <2>1. CASE b = pf[c]
    <3>1. nf[b] = c /\ mf[b] = nf[c] /\ c # 0 /\ nf[c] \in F \union {0}
      BY <2>1, UmmRingIs
    <3>2. r[b] < r[c] /\ r[c] < r[nf[c]]
      BY <1>1, <1>3, <3>1 DEF UmmRanks
    <3> QED BY <1>2, <3>1, <3>2
  <2>2. CASE b # pf[c]
    <3>1. b \in Umm!Block /\ mf[b] = nf[b]
      BY <2>2, UmmConsts
    <3> QED BY <1>1, <1>3, <3>1 DEF UmmRanks
  <2> QED BY <2>1, <2>2
<1>4. ASSUME NEW b \in (F \ {c}) \union {0}
      PROVE  mf[b] \in (F \ {c}) \union {0} /\ qf[mf[b]] = b
  <2>1. CASE b = pf[c]
    <3>1. nf[c] \in F \union {0} /\ nf[c] # c
      <4>1. nf[c] # 0 => r[c] < r[nf[c]]
        BY <1>1 DEF UmmRanks
      <4> QED BY <1>2, <4>1, UmmRingIs
    <3> QED BY <2>1, <3>1
  <2>2. CASE b # pf[c]
    <3>1. b \in Umm!Block /\ mf[b] = nf[b] /\ nf[b] \in F \union {0} /\ pf[nf[b]] = b
      BY <2>2, UmmRingIs, UmmConsts
    <3>2. nf[b] # c /\ nf[b] # nf[c] /\ nf[b] \in Umm!Block
      BY <1>0, <2>2, <3>1
    <3> QED BY <3>1, <3>2
  <2> QED BY <2>1, <2>2
<1>5. ASSUME NEW b \in (F \ {c}) \union {0}
      PROVE  qf[b] \in (F \ {c}) \union {0} /\ mf[qf[b]] = b
  <2>1. CASE b = nf[c]
    <3>1. pf[c] \in F \union {0} /\ pf[c] # c
      <4>1. nf[pf[c]] = c /\ pf[c] \in F \union {0} /\ c # 0
        BY UmmRingIs
      <4>2. r[pf[c]] < r[c]
        BY <1>1, <4>1 DEF UmmRanks
      <4> QED BY <1>2, <4>1, <4>2
    <3> QED BY <2>1, <3>1
  <2>2. CASE b # nf[c]
    <3>1. b \in Umm!Block /\ qf[b] = pf[b] /\ pf[b] \in F \union {0} /\ nf[pf[b]] = b
      BY <2>2, UmmRingIs, UmmConsts
    <3>2. pf[b] # c /\ pf[b] # pf[c] /\ pf[b] \in Umm!Block
      BY <1>0, <2>2, <3>1
    <3> QED BY <3>1, <3>2
  <2> QED BY <2>1, <2>2
<1>6. UmmRanks(mf, F \ {c}, r)
  BY <1>3 DEF UmmRanks
<1> QED BY <1>1, <1>4, <1>5, <1>6 DEF UmmRing

\* Block c is put in front of the list.
LEMMA UmmRingInsert ==
  ASSUME NEW nf, NEW pf, NEW F, F \subseteq Umm!Block \ {0}, UmmRing(nf, pf, F),
         NEW c \in Umm!Block, c # 0, c \notin F,
         NEW mf, NEW qf, mf[0] = c, mf[c] = nf[0], qf[c] = 0, qf[nf[0]] = c,
         \A x \in Umm!Block \ {0, c} : mf[x] = nf[x], \A x \in Umm!Block \ {nf[0], c} : qf[x] = pf[x]
  PROVE  UmmRing(mf, qf, F \union {c})
<1>0. /\ F \union {0} \subseteq Umm!Block
      /\ \A x \in F \union {0} : /\ nf[x] \in F \union {0} /\ pf[x] \in F \union {0}
                                /\ nf[x] \in Umm!Block /\ pf[x] \in Umm!Block
                                /\ pf[nf[x]] = x /\ nf[pf[x]] = x
  <2>1. F \union {0} \subseteq Umm!Block
    BY UmmConsts
  <2> QED BY <2>1, UmmRingIs
<1>1. PICK r \in [Umm!Block -> Nat] : UmmRanks(nf, F, r)
  BY DEF UmmRing
<1> DEFINE s == [b \in Umm!Block |-> IF b = 0 THEN 0 ELSE IF b = c THEN 1 ELSE r[b] + 2]
<1>2. s \in [Umm!Block -> Nat]
  BY <1>1
<1>3. ASSUME NEW b \in F \union {c, 0}, mf[b] # 0 PROVE s[b] < s[mf[b]]
  <2>1. CASE b = 0
    BY <2>1, UmmConsts
  <2>2. CASE b = c
    <3>1. mf[b] = nf[0] /\ nf[0] \in F \union {0}
      BY <2>2, UmmRingIs
    <3>2. nf[0] \in Umm!Block /\ nf[0] # c /\ nf[0] # 0
      BY <1>3, <3>1
    <3>3. s[b] = 1 /\ s[nf[0]] = r[nf[0]] + 2 /\ r[nf[0]] \in Nat
      BY <1>1, <2>2, <3>2
    <3> QED BY <3>1, <3>3
  <2>3. CASE b # 0 /\ b # c
    <3>1. b \in F /\ b \in Umm!Block /\ mf[b] = nf[b] /\ nf[b] \in F \union {0}
      BY <2>3, UmmRingIs
    <3>2. nf[b] \in Umm!Block /\ nf[b] # c /\ nf[b] # 0 /\ r[b] < r[nf[b]]
      BY <1>0, <1>1, <1>3, <2>3, <3>1 DEF UmmRanks
    <3>3. s[b] = r[b] + 2 /\ s[nf[b]] = r[nf[b]] + 2 /\ r[b] \in Nat /\ r[nf[b]] \in Nat
      BY <1>1, <2>3, <3>1, <3>2
    <3> QED BY <3>1, <3>2, <3>3
  <2> QED BY <2>1, <2>2, <2>3
<1>4. ASSUME NEW b \in F \union {c, 0}
      PROVE  mf[b] \in F \union {c, 0} /\ qf[mf[b]] = b
  <2>1. CASE b = 0
    BY <2>1
  <2>2. CASE b = c
    <3>1. nf[0] \in F \union {0}
      BY UmmRingIs
    <3> QED BY <2>2, <3>1
  <2>3. CASE b # 0 /\ b # c
    <3>1. b \in Umm!Block /\ mf[b] = nf[b] /\ nf[b] \in F \union {0} /\ pf[nf[b]] = b
      BY <2>3, UmmRingIs
    <3>2. nf[b] # nf[0] /\ nf[b] # c /\ nf[b] \in Umm!Block
      BY <1>0, <2>3, <3>1
    <3> QED BY <3>1, <3>2
  <2> QED BY <2>1, <2>2, <2>3
<1>5. ASSUME NEW b \in F \union {c, 0}
      PROVE  qf[b] \in F \union {c, 0} /\ mf[qf[b]] = b
  <2>1. CASE b = c
    BY <2>1
  <2>2. CASE b = nf[0]
    BY <2>2
  <2>3. CASE b # nf[0] /\ b # c
    <3>1. b \in Umm!Block /\ b \in F \union {0} /\ qf[b] = pf[b] /\ pf[b] \in F \union {0} /\ nf[pf[b]] = b
      BY <2>3, UmmRingIs, UmmConsts
    <3>2. pf[b] # 0 /\ pf[b] # c /\ pf[b] \in Umm!Block
      BY <1>0, <2>3, <3>1
    <3> QED BY <3>1, <3>2
  <2> QED BY <2>1, <2>2, <2>3
<1>6. (F \union {c}) \union {0} = F \union {c, 0}
  OBVIOUS
<1> HIDE DEF s
<1>7. UmmRanks(mf, F \union {c}, s)
  BY <1>3, <1>6 DEF UmmRanks
<1>8. \E t \in [Umm!Block -> Nat] : UmmRanks(mf, F \union {c}, t)
  BY <1>2, <1>7
<1> QED BY <1>4, <1>5, <1>6, <1>8 DEF UmmRing

\* Block b takes the place of c on the list.
LEMMA UmmRingReplace ==
  ASSUME NEW nf, NEW pf, NEW F, F \subseteq Umm!Block \ {0}, UmmRing(nf, pf, F), NEW c \in F,
         NEW b \in Umm!Block, b # 0, b \notin F,
         NEW mf, NEW qf, mf[pf[c]] = b, mf[b] = nf[c], qf[b] = pf[c], qf[nf[c]] = b,
         \A x \in Umm!Block \ {pf[c], b} : mf[x] = nf[x], \A x \in Umm!Block \ {nf[c], b} : qf[x] = pf[x]
  PROVE  UmmRing(mf, qf, (F \ {c}) \union {b})
<1> DEFINE G == (F \ {c}) \union {b}
<1>0. /\ F \union {0} \subseteq Umm!Block
      /\ \A x \in F \union {0} : /\ nf[x] \in F \union {0} /\ pf[x] \in F \union {0}
                                /\ nf[x] \in Umm!Block /\ pf[x] \in Umm!Block
                                /\ pf[nf[x]] = x /\ nf[pf[x]] = x
  <2>1. F \union {0} \subseteq Umm!Block
    BY UmmConsts
  <2> QED BY <2>1, UmmRingIs
<1>1. PICK r \in [Umm!Block -> Nat] : UmmRanks(nf, F, r)
  BY DEF UmmRing
<1> DEFINE s == [r EXCEPT ![b] = r[c]]
<1>2. s \in [Umm!Block -> Nat] /\ s[b] = r[c] /\ \A x \in F \union {0} : s[x] = r[x] /\ r[x] \in Nat
  BY <1>1, UmmConsts
<1>3. /\ nf[c] \in F \union {0} /\ nf[c] # c /\ pf[c] \in F \union {0} /\ pf[c] # c
      /\ nf[pf[c]] = c /\ pf[nf[c]] = c /\ c # 0 /\ r[pf[c]] < r[c]
      /\ nf[c] # 0 => r[c] < r[nf[c]]
  <2>1. nf[c] \in F \union {0} /\ pf[c] \in F \union {0} /\ nf[pf[c]] = c /\ pf[nf[c]] = c /\ c # 0
    BY UmmRingIs
  <2>2. (nf[c] # 0 => r[c] < r[nf[c]]) /\ r[pf[c]] < r[c]
    BY <1>1, <2>1 DEF UmmRanks
  <2> QED BY <1>2, <2>1, <2>2
<1> HIDE DEF s
<1>4. ASSUME NEW x \in G \union {0}
      PROVE  mf[x] \in G \union {0} /\ qf[mf[x]] = x /\ (mf[x] # 0 => s[x] < s[mf[x]])
  <2>1. CASE x = b
    BY <1>2, <1>3, <2>1
  <2>2. CASE x = pf[c]
    BY <1>2, <1>3, <2>2
  <2>3. CASE x # b /\ x # pf[c]
    <3>1. /\ x \in F \union {0} /\ x # c /\ x \in Umm!Block /\ mf[x] = nf[x] /\ nf[x] \in F \union {0}
          /\ pf[nf[x]] = x
      BY <2>3, UmmRingIs, UmmConsts
    <3>2. nf[x] # c /\ nf[x] # nf[c] /\ nf[x] # b /\ nf[x] \in Umm!Block
      BY <1>0, <1>3, <2>3, <3>1
    <3>3. nf[x] # 0 => r[x] < r[nf[x]]
      BY <1>1, <3>1 DEF UmmRanks
    <3> QED BY <1>2, <3>1, <3>2, <3>3
  <2> QED BY <2>1, <2>2, <2>3
<1>5. ASSUME NEW x \in G \union {0}
      PROVE  qf[x] \in G \union {0} /\ mf[qf[x]] = x
  <2>1. CASE x = b
    BY <1>3, <2>1
  <2>2. CASE x = nf[c]
    BY <1>3, <2>2
  <2>3. CASE x # b /\ x # nf[c]
    <3>1. /\ x \in F \union {0} /\ x # c /\ x \in Umm!Block /\ qf[x] = pf[x] /\ pf[x] \in F \union {0}
          /\ nf[pf[x]] = x
      BY <2>3, UmmRingIs, UmmConsts
    <3>2. pf[x] # c /\ pf[x] # pf[c] /\ pf[x] # b /\ pf[x] \in Umm!Block
      BY <1>0, <1>3, <2>3, <3>1
    <3> QED BY <3>1, <3>2
  <2> QED BY <2>1, <2>2, <2>3
<1> HIDE DEF G
<1>7. UmmRanks(mf, G, s)
  BY <1>4 DEF UmmRanks
<1>8. UmmRing(mf, qf, G)
  BY <1>2, <1>4, <1>5, <1>7 DEF UmmRing
<1> QED BY <1>8 DEF G

\* Only the links of the list matter.
LEMMA UmmRingSame ==
  ASSUME NEW nf, NEW pf, NEW F, UmmRing(nf, pf, F), NEW mf, NEW qf,
         \A x \in F \union {0} : mf[x] = nf[x] /\ qf[x] = pf[x]
  PROVE  UmmRing(mf, qf, F)
<1>1. PICK r \in [Umm!Block -> Nat] : UmmRanks(nf, F, r)
  BY DEF UmmRing
<1>2. UmmRanks(mf, F, r)
  BY <1>1 DEF UmmRanks
<1> QED BY <1>1, <1>2, UmmRingIs DEF UmmRing
-----------------------------------------------------------------------------
(* The functions, one by one. *)

LEMMA UmmLinkIs ==
  ASSUME NEW m, UmmIsMemory(m), NEW p \in Umm!Block, NEW n \in Umm!Block
  PROVE  LET l == Umm!Link(m, p, n)
         IN  /\ UmmIsMemory(l) /\ l.next = m.next /\ l.prev = m.prev
             /\ l.nfree = [m.nfree EXCEPT ![p] = n] /\ l.pfree = [m.pfree EXCEPT ![n] = p]
<1> DEFINE l == Umm!Link(m, p, n)
           nf == [m.nfree EXCEPT ![p] = n]
           pf == [m.pfree EXCEPT ![n] = p]
           da == [[m.data EXCEPT ![p] = Nobody] EXCEPT ![n] = Nobody]
<1>1. m = [next |-> m.next, prev |-> m.prev, nfree |-> m.nfree, pfree |-> m.pfree, data |-> m.data]
  BY DEF UmmIsMemory
<1>2. l = [m EXCEPT !.nfree = nf, !.pfree = pf, !.data = da]
  BY <1>1 DEF Umm!Link
<1>3. nf \in [Umm!Block -> Umm!Block \union {Umm!Junk}] /\ pf \in [Umm!Block -> Umm!Block \union {Umm!Junk}]
  BY DEF UmmIsMemory
<1> HIDE DEF l, nf, pf, da
<1>4. l = [next |-> m.next, prev |-> m.prev, nfree |-> nf, pfree |-> pf, data |-> da]
  BY <1>1, <1>2
<1>5. UmmIsMemory(l)
  BY <1>3, <1>4 DEF UmmIsMemory
<1>6. /\ UmmIsMemory(l) /\ l.next = m.next /\ l.prev = m.prev
      /\ l.nfree = nf /\ l.pfree = pf
  BY <1>4, <1>5
<1> QED BY <1>6 DEF l, nf, pf

\* New headers.
LEMMA UmmHeadersIs ==
  ASSUME NEW m, UmmIsMemory(m), NEW ny \in [Umm!Block -> Nat], NEW py \in [Umm!Block -> Umm!Block \union {Umm!Junk}],
         NEW da, NEW l,
         l = [next |-> ny, prev |-> py, nfree |-> m.nfree, pfree |-> m.pfree, data |-> da]
  PROVE  /\ UmmIsMemory(l) /\ l.next = ny /\ l.prev = py
         /\ l.nfree = m.nfree /\ l.pfree = m.pfree
BY DEF UmmIsMemory

LEMMA UmmGoodIs ==
  ASSUME NEW m, NEW H, NEW F, NEW g, UmmGood(m, H, F, g)
  PROVE  /\ UmmIsMemory(m) /\ m.next \in [Umm!Block -> Nat] /\ m.prev \in [Umm!Block -> Umm!Block \union {Umm!Junk}]
         /\ m.nfree \in [Umm!Block -> Umm!Block \union {Umm!Junk}] /\ m.pfree \in [Umm!Block -> Umm!Block \union {Umm!Junk}]
         /\ F \subseteq Umm!Block \ {0}
         /\ \A b \in H : b \in Umm!Block /\ b \in Nat /\ (Umm!IsFree(m, b) <=> b \in F)
         /\ \A b \in F \union {0} : /\ m.nfree[b] \in F \union {0} /\ m.pfree[b] \in F \union {0}
                                  /\ m.nfree[b] \in Umm!Block /\ m.pfree[b] \in Umm!Block
<1>1. /\ UmmIsMemory(m) /\ m.next \in [Umm!Block -> Nat] /\ m.prev \in [Umm!Block -> Umm!Block \union {Umm!Junk}]
      /\ m.nfree \in [Umm!Block -> Umm!Block \union {Umm!Junk}] /\ m.pfree \in [Umm!Block -> Umm!Block \union {Umm!Junk}]
  BY DEF UmmGood, UmmIsMemory
<1>2. UmmShape(m.next, m.prev, H, F, g) /\ UmmRing(m.nfree, m.pfree, F)
  BY DEF UmmGood
<1>3. F \subseteq Umm!Block \ {0} /\ H \subseteq Umm!Block
  BY <1>2, UmmShapeIs
<1>4. ASSUME NEW b \in H PROVE b \in Umm!Block /\ b \in Nat /\ (Umm!IsFree(m, b) <=> b \in F)
  <2>1. b \in Umm!Block /\ b \in Nat
    BY <1>3, UmmConsts
  <2>2. b # Umm!Last => (m.next[b] >= Umm!Mask <=> b \in F)
    BY <1>2, UmmShapeIs
  <2>3. b = Umm!Last => ~(m.next[b] >= Umm!Mask) /\ b \notin F
    BY <1>2, UmmShapeIs
  <2> QED BY <2>1, <2>2, <2>3 DEF Umm!IsFree
<1>5. \A b \in F \union {0} : m.nfree[b] \in F \union {0} /\ m.pfree[b] \in F \union {0}
  BY <1>2, UmmRingIs
<1>6. F \union {0} \subseteq Umm!Block
  BY <1>3, UmmConsts
<1> QED BY <1>1, <1>3, <1>4, <1>5, <1>6

LEMMA UmmDisconnectGood ==
  ASSUME NEW m, NEW H, NEW F, NEW g, UmmGood(m, H, F, g), NEW c \in F
  PROVE  LET d == Umm!Disconnect(m, c)
         IN  /\ UmmGood(d, H, F \ {c}, g) /\ d.prev = m.prev /\ d.next[c] = g[c]
             /\ \A b \in H \ {c} : d.next[b] = m.next[b]
<1> DEFINE d == Umm!Disconnect(m, c)
           p == m.pfree[c]
           n == m.nfree[c]
           l == Umm!Link(m, p, n)
           ny == [m.next EXCEPT ![c] = Umm!NoMask(@)]
<1>1. /\ UmmIsMemory(m) /\ m.next \in [Umm!Block -> Nat] /\ p \in Umm!Block /\ n \in Umm!Block /\ c \in Umm!Block /\ c \in H
      /\ m.nfree \in [Umm!Block -> Umm!Block \union {Umm!Junk}] /\ m.pfree \in [Umm!Block -> Umm!Block \union {Umm!Junk}]
      /\ F \subseteq Umm!Block \ {0} /\ H \subseteq Umm!Block /\ c # 0 /\ c # Umm!Last
  <2>1. F \subseteq H /\ 0 \notin F /\ Umm!Last \notin F
    BY UmmShapeIs DEF UmmGood
  <2> QED BY <2>1, UmmGoodIs
<1>2. /\ UmmIsMemory(l) /\ l.next = m.next /\ l.prev = m.prev
      /\ l.nfree = [m.nfree EXCEPT ![p] = n] /\ l.pfree = [m.pfree EXCEPT ![n] = p]
  <2> HIDE DEF p, n
  <2> QED BY <1>1, UmmLinkIs
<1>3. UmmShape(m.next, m.prev, H, F, g) /\ UmmApart(F, g) /\ UmmRing(m.nfree, m.pfree, F)
  BY DEF UmmGood
<1>4. Umm!NoMask(m.next[c]) = g[c] /\ g[c] \in Umm!Block /\ g[c] \in Nat
  <2>1. \A b \in H \ {Umm!Last} : Umm!NoMask(m.next[b]) = g[b] /\ g[b] \in Umm!Block
    BY <1>3, UmmShapeIs
  <2> QED BY <1>1, <2>1, UmmConsts
<1>5. ny \in [Umm!Block -> Nat] /\ ny[c] = g[c] /\ \A b \in Umm!Block \ {c} : ny[b] = m.next[b]
  BY <1>1, <1>4
<1>6. d = [next |-> ny, prev |-> l.prev, nfree |-> l.nfree, pfree |-> l.pfree, data |-> l.data]
  <2>1. d = [l EXCEPT !.next = [l.next EXCEPT ![c] = Umm!NoMask(@)]]
    BY DEF Umm!Disconnect
  <2>2. d = [l EXCEPT !.next = ny]
    BY <1>2, <2>1
  <2>3. l = [next |-> l.next, prev |-> l.prev, nfree |-> l.nfree, pfree |-> l.pfree, data |-> l.data]
    BY <1>2 DEF UmmIsMemory
  <2> HIDE DEF d, l, ny
  <2> QED BY <2>2, <2>3
<1> HIDE DEF d, p, n, l, ny
<1>7. l.prev \in [Umm!Block -> Umm!Block \union {Umm!Junk}]
  BY <1>2 DEF UmmIsMemory
<1>8. UmmIsMemory(d) /\ d.next = ny /\ d.prev = l.prev /\ d.nfree = l.nfree /\ d.pfree = l.pfree
  BY <1>2, <1>5, <1>6, <1>7, UmmHeadersIs
<1>9. UmmShape(d.next, d.prev, H, F \ {c}, g)
  <2>1. ny[c] = g[c] + UmmMarkOf(c, F \ {c})
    BY <1>4, <1>5 DEF UmmMarkOf
  <2>2. \A x \in H \ {c} : ny[x] = m.next[x]
    BY <1>1, <1>5
  <2>3. UmmShape(ny, m.prev, H, F \ {c}, g)
    BY <1>1, <1>3, <2>1, <2>2, UmmMarkShape
  <2> QED BY <1>2, <1>8, <2>3
<1>10. UmmRing(d.nfree, d.pfree, F \ {c})
  <2>1. /\ l.nfree[p] = n /\ l.pfree[n] = p
        /\ \A x \in Umm!Block \ {p} : l.nfree[x] = m.nfree[x]
        /\ \A x \in Umm!Block \ {n} : l.pfree[x] = m.pfree[x]
    BY <1>1, <1>2
  <2>2. UmmRing(l.nfree, l.pfree, F \ {c})
    BY <1>1, <1>3, <2>1, UmmRingRemove DEF p, n
  <2> QED BY <1>8, <2>2
<1>11. UmmApart(F \ {c}, g)
  BY <1>3 DEF UmmApart
<1>12. d.prev = m.prev /\ d.next[c] = g[c] /\ \A b \in H \ {c} : d.next[b] = m.next[b]
  BY <1>1, <1>2, <1>5, <1>8
<1>13. UmmGood(d, H, F \ {c}, g)
  BY <1>8, <1>9, <1>10, <1>11 DEF UmmGood
<1> QED BY <1>12, <1>13 DEF d

\* Block p takes in the block n behind it, l being m with the new headers.
LEMMA UmmMergeGood ==
  ASSUME NEW m, NEW H, NEW F, NEW g, UmmGood(m, H, F, g),
         NEW p \in H, p # Umm!Last, NEW n, n = g[p], n \notin F, n # Umm!Last, p \in F => g[n] \notin F,
         NEW k, k = g[n] + UmmMarkOf(p, F), NEW l,
         l = [next |-> [m.next EXCEPT ![p] = k], prev |-> [m.prev EXCEPT ![g[n]] = p],
              nfree |-> m.nfree, pfree |-> m.pfree, data |-> m.data]
  PROVE  LET e == [g EXCEPT ![p] = g[n]]
         IN  /\ UmmGood(l, H \ {n}, F, e) /\ e[p] = g[n] /\ \A x \in H \ {p} : e[x] = g[x]
             /\ l.prev = [m.prev EXCEPT ![g[n]] = p]
<1> DEFINE e == [g EXCEPT ![p] = g[n]]
           ny == [m.next EXCEPT ![p] = k]
           py == [m.prev EXCEPT ![g[n]] = p]
<1>1. /\ UmmIsMemory(m) /\ m.next \in [Umm!Block -> Nat] /\ m.prev \in [Umm!Block -> Umm!Block \union {Umm!Junk}]
      /\ \A x \in H : x \in Umm!Block
  BY UmmGoodIs
<1>2. UmmShape(m.next, m.prev, H, F, g) /\ UmmApart(F, g) /\ UmmRing(m.nfree, m.pfree, F)
  BY DEF UmmGood
<1>3. \A x \in H \ {Umm!Last} : g[x] \in H /\ g[x] \in Umm!Block /\ x < g[x]
  BY <1>2, UmmShapeIs
<1>4. n \in H /\ g[n] \in H /\ g[n] \in Umm!Block /\ g[n] \in Nat /\ p \in Umm!Block /\ n \in Umm!Block /\ p # n
  BY <1>1, <1>3, UmmConsts
<1>5. k \in Nat
  BY <1>4, UmmConsts DEF UmmMarkOf
<1>6. ny \in [Umm!Block -> Nat] /\ ny[p] = k /\ \A x \in Umm!Block \ {p} : ny[x] = m.next[x]
  BY <1>1, <1>4, <1>5
<1>7. /\ py \in [Umm!Block -> Umm!Block \union {Umm!Junk}] /\ py[g[n]] = p
      /\ \A x \in Umm!Block \ {g[n]} : py[x] = m.prev[x]
  BY <1>1, <1>4
<1> HIDE DEF ny, py
<1>8. l = [next |-> ny, prev |-> py, nfree |-> m.nfree, pfree |-> m.pfree, data |-> m.data]
  BY DEF ny, py
<1>9. UmmIsMemory(l) /\ l.next = ny /\ l.prev = py /\ l.nfree = m.nfree /\ l.pfree = m.pfree
  BY ONLY <1>1, <1>6, <1>7, <1>8, UmmHeadersIs
<1>10. /\ UmmShape(ny, py, H \ {n}, F, e)
       /\ e[p] = g[n] /\ \A x \in H \ {p} : e[x] = g[x]
  <2>1. /\ ny[p] = g[n] + UmmMarkOf(p, F) /\ py[g[n]] = p
        /\ \A x \in H \ {p, n} : ny[x] = m.next[x]
        /\ \A x \in H \ {g[n], n} : py[x] = m.prev[x]
    BY <1>1, <1>6, <1>7
  <2>2. UmmShape(m.next, m.prev, H, F, g) /\ p \in H /\ p # Umm!Last /\ n = g[p] /\ n \notin F /\ n # Umm!Last
    BY <1>2
  <2> QED BY ONLY <2>1, <2>2, UmmMergeShape
<1> HIDE DEF e
<1>11. UmmApart(F, e)
  <2>1. \A x \in F : x \in H
    BY <1>2, UmmShapeIs
  <2> QED BY <1>2, <1>10, <2>1 DEF UmmApart
<1>12. UmmGood(l, H \ {n}, F, e)
  BY <1>2, <1>9, <1>10, <1>11 DEF UmmGood
<1> QED BY <1>9, <1>10, <1>12 DEF e, py

LEMMA UmmAssimilateDownGood ==
  ASSUME NEW m, NEW H, NEW F, NEW g, UmmGood(m, H, F, g),
         NEW c \in H, c \notin F, c # 0, c # Umm!Last,
         NEW p, p = m.prev[c], NEW mask, mask = UmmMarkOf(p, F), p \in F => g[c] \notin F
  PROVE  LET e == [g EXCEPT ![p] = g[c]]
         IN  /\ UmmGood(Umm!AssimilateDown(m, c, mask), H \ {c}, F, e)
             /\ e[p] = g[c] /\ \A x \in H \ {p} : e[x] = g[x]
<1>1. UmmShape(m.next, m.prev, H, F, g)
  BY DEF UmmGood
<1>2. p \in H \ {Umm!Last} /\ g[p] = c
  BY <1>1, UmmPrevIs
<1>3. m.next[c] = g[c]
  BY <1>1, UmmShapeIs
<1> DEFINE l == Umm!AssimilateDown(m, c, mask)
           k == g[c] + mask
<1>4. l = [next |-> [m.next EXCEPT ![p] = k], prev |-> [m.prev EXCEPT ![g[c]] = p],
           nfree |-> m.nfree, pfree |-> m.pfree, data |-> m.data]
  <2> DEFINE ny == [m.next EXCEPT ![p] = k]
             py == [m.prev EXCEPT ![g[c]] = p]
  <2>1. l = [m EXCEPT !.next = ny, !.prev = py]
    BY <1>3 DEF Umm!AssimilateDown
  <2>2. m = [next |-> m.next, prev |-> m.prev, nfree |-> m.nfree, pfree |-> m.pfree, data |-> m.data]
    BY DEF UmmGood, UmmIsMemory
  <2> HIDE DEF ny, py, l
  <2>3. l = [next |-> ny, prev |-> py, nfree |-> m.nfree, pfree |-> m.pfree, data |-> m.data]
    BY <2>1, <2>2
  <2> QED BY <2>3 DEF ny, py
<1> HIDE DEF l
<1>5. k = g[c] + UmmMarkOf(p, F)
  OBVIOUS
<1> HIDE DEF k
<1>6. LET e == [g EXCEPT ![p] = g[c]]
      IN  /\ UmmGood(l, H \ {c}, F, e)
          /\ e[p] = g[c] /\ \A x \in H \ {p} : e[x] = g[x]
  BY <1>2, <1>4, <1>5, UmmMergeGood
<1> QED BY <1>6 DEF l

\* u is m after umm_assimilate_up of c.
UmmUp(u, m, H, F, g, c) ==
  \E e : /\ UmmGood(u, H \ (F \intersect {g[c]}), F \ {g[c]}, e)
         /\ e[c] = (IF g[c] \in F THEN g[g[c]] ELSE g[c]) /\ e[c] \notin F
         /\ \A x \in H \ {c} : e[x] = g[x]
         /\ u.prev[c] = m.prev[c]

LEMMA UmmAssimilateUpGood ==
  ASSUME NEW m, NEW H, NEW F, NEW g, UmmGood(m, H, F, g), NEW c \in H, c \notin F, c # Umm!Last
  PROVE  UmmUp(Umm!AssimilateUp(m, c), m, H, F, g, c)
<1>1. UmmShape(m.next, m.prev, H, F, g) /\ UmmApart(F, g)
  BY DEF UmmGood
<1>2. /\ m.next[c] = g[c] /\ g[c] \in H
      /\ \A x \in H \ {Umm!Last} : g[x] \in H /\ g[x] \in Umm!Block /\ x < g[x] /\ x \in Nat /\ g[x] \in Nat
      /\ F \subseteq H /\ Umm!Last \notin F /\ g \in [Umm!Block -> Umm!Block]
  BY <1>1, UmmShapeIs, UmmConsts
<1> DEFINE n == g[c]
           u == Umm!AssimilateUp(m, c)
<1>3. Umm!IsFree(m, n) <=> n \in F
  BY <1>2, UmmGoodIs
<1>4. CASE n \notin F
  <2>1. u = m
    BY <1>2, <1>3, <1>4 DEF Umm!AssimilateUp
  <2>2. H \ (F \intersect {g[c]}) = H /\ F \ {g[c]} = F
    BY <1>4
  <2> QED BY <1>4, <2>1, <2>2 DEF UmmUp
<1>5. CASE n \in F
  <2> DEFINE d == Umm!Disconnect(m, n)
             G == F \ {n}
             e == [g EXCEPT ![c] = g[n]]
             k == g[n]
  <2>1. /\ UmmGood(d, H, G, g) /\ d.prev = m.prev /\ d.next[n] = g[n]
        /\ \A b \in H \ {n} : d.next[b] = m.next[b]
    BY <1>5, UmmDisconnectGood
  <2>2. n # Umm!Last /\ n \in H /\ g[n] \in Umm!Block /\ g[n] # c /\ c < n
    BY <1>2, <1>5
  <2>3. Umm!NoMask(d.next[n]) = g[n]
    BY <2>1, <2>2, UmmNoMaskIs
  <2>4. u = [d EXCEPT !.prev = [d.prev EXCEPT ![g[n]] = c], !.next = [d.next EXCEPT ![c] = k]]
    BY <1>2, <1>3, <1>5, <2>3 DEF Umm!AssimilateUp
  <2> HIDE DEF d, u
  <2>5. u = [next |-> [d.next EXCEPT ![c] = k], prev |-> [d.prev EXCEPT ![g[n]] = c],
             nfree |-> d.nfree, pfree |-> d.pfree, data |-> d.data]
    <3>1. d = [next |-> d.next, prev |-> d.prev, nfree |-> d.nfree, pfree |-> d.pfree, data |-> d.data]
      BY <2>1 DEF UmmGood, UmmIsMemory
    <3> DEFINE py == [d.prev EXCEPT ![g[n]] = c]
               ny == [d.next EXCEPT ![c] = k]
    <3>2. u = [d EXCEPT !.prev = py, !.next = ny]
      BY <2>4
    <3> HIDE DEF py, ny
    <3>3. u = [next |-> ny, prev |-> py, nfree |-> d.nfree, pfree |-> d.pfree, data |-> d.data]
      BY <3>1, <3>2
    <3> QED BY <3>3 DEF py, ny
  <2>6. k = g[n] + UmmMarkOf(c, G) /\ c \notin G /\ n \notin G
    BY <2>2, <1>2 DEF UmmMarkOf
  <2> HIDE DEF k, G
  <2>7. /\ UmmGood(u, H \ {n}, G, e) /\ e[c] = g[n] /\ \A x \in H \ {c} : e[x] = g[x]
        /\ u.prev = [d.prev EXCEPT ![g[n]] = c]
    <3> HIDE DEF n
    <3>1. n = g[c]
      BY DEF n
    <3> QED BY <2>1, <2>2, <2>5, <2>6, <3>1, UmmMergeGood
  <2>8. u.prev[c] = m.prev[c]
    <3>1. c \in Umm!Block /\ d.prev \in [Umm!Block -> Umm!Block \union {Umm!Junk}]
      BY <2>1, UmmGoodIs
    <3> QED BY <2>1, <2>2, <2>7, <3>1
  <2>9. g[n] \notin F
    BY <1>1, <1>5 DEF UmmApart
  <2>10. H \ (F \intersect {g[c]}) = H \ {n} /\ F \ {g[c]} = G
    BY <1>5 DEF G
  <2>11. UmmUp(u, m, H, F, g, c)
    <3> HIDE DEF e
    <3> QED BY <1>5, <2>7, <2>8, <2>9, <2>10 DEF UmmUp
  <2> QED BY <2>11 DEF u
<1> QED BY <1>4, <1>5

\* The memory l has the blocks U in use.
UmmYields(l, U) == \E K, G, e : UmmGood(l, K, G, e) /\ K \ G = U

\* Block c, no free one beside it, becomes the first of the free list.
LEMMA UmmEnterGood ==
  ASSUME NEW m, NEW H, NEW F, NEW g, UmmGood(m, H, F, g), NEW c \in H, c \notin F, c # 0, c # Umm!Last,
         g[c] \notin F, m.prev[c] \notin F
  PROVE  UmmGood([Umm!Link(Umm!Link(m, c, m.nfree[0]), 0, c) EXCEPT !.next[c] = @ + Umm!Mask], H, F \union {c}, g)
<1> DEFINE n == m.nfree[0]
           k == Umm!Link(m, c, n)
           l == Umm!Link(k, 0, c)
           d == [l EXCEPT !.next[c] = @ + Umm!Mask]
           ny == [m.next EXCEPT ![c] = g[c] + Umm!Mask]
<1>1. UmmShape(m.next, m.prev, H, F, g) /\ UmmApart(F, g) /\ UmmRing(m.nfree, m.pfree, F)
  BY DEF UmmGood
<1>2. /\ UmmIsMemory(m) /\ m.next \in [Umm!Block -> Nat] /\ n \in Umm!Block /\ n \in F \union {0}
      /\ m.nfree \in [Umm!Block -> Umm!Block \union {Umm!Junk}] /\ m.pfree \in [Umm!Block -> Umm!Block \union {Umm!Junk}]
      /\ F \subseteq Umm!Block \ {0} /\ H \subseteq Umm!Block /\ c \in Umm!Block /\ 0 \in Umm!Block
  BY UmmGoodIs, UmmConsts
<1>3. m.next[c] = g[c] /\ g[c] \in Umm!Block /\ g[c] \in Nat /\ g[c] + Umm!Mask \in Nat
  <2>1. \A b \in H \ {Umm!Last} : g[b] \in Umm!Block /\ (b \notin F => m.next[b] = g[b])
    BY <1>1, UmmShapeIs
  <2> QED BY <2>1, UmmConsts
<1>4. /\ UmmIsMemory(k) /\ k.next = m.next /\ k.prev = m.prev
      /\ k.nfree = [m.nfree EXCEPT ![c] = n] /\ k.pfree = [m.pfree EXCEPT ![n] = c]
  <2> HIDE DEF n
  <2> QED BY <1>2, UmmLinkIs
<1>5. /\ UmmIsMemory(l) /\ l.next = m.next /\ l.prev = m.prev
      /\ l.nfree = [k.nfree EXCEPT ![0] = c] /\ l.pfree = [k.pfree EXCEPT ![c] = 0]
  <2>1. UmmIsMemory(k) /\ 0 \in Umm!Block /\ c \in Umm!Block
    BY <1>2, <1>4
  <2> HIDE DEF k
  <2>2. /\ UmmIsMemory(l) /\ l.next = k.next /\ l.prev = k.prev
        /\ l.nfree = [k.nfree EXCEPT ![0] = c] /\ l.pfree = [k.pfree EXCEPT ![c] = 0]
    BY ONLY <2>1, UmmLinkIs
  <2> QED BY <1>4, <2>2
<1>6. ny \in [Umm!Block -> Nat] /\ ny[c] = g[c] + Umm!Mask /\ \A b \in Umm!Block \ {c} : ny[b] = m.next[b]
  BY <1>2, <1>3
<1>7. d = [next |-> ny, prev |-> l.prev, nfree |-> l.nfree, pfree |-> l.pfree, data |-> l.data]
  <2>1. d = [l EXCEPT !.next = [l.next EXCEPT ![c] = @ + Umm!Mask]]
    OBVIOUS
  <2>2. d = [l EXCEPT !.next = ny]
    <3> HIDE DEF d, l, k
    <3>1. [l.next EXCEPT ![c] = @ + Umm!Mask] = ny
      BY <1>2, <1>3, <1>5
    <3> HIDE DEF ny
    <3> QED BY <2>1, <3>1
  <2>3. l = [next |-> l.next, prev |-> l.prev, nfree |-> l.nfree, pfree |-> l.pfree, data |-> l.data]
    BY <1>5 DEF UmmIsMemory
  <2> HIDE DEF d, l, ny
  <2> QED BY <2>2, <2>3
<1> HIDE DEF d, l, k, n, ny
<1>8. l.prev \in [Umm!Block -> Umm!Block \union {Umm!Junk}]
  BY <1>5 DEF UmmIsMemory
<1>9. UmmIsMemory(d) /\ d.next = ny /\ d.prev = l.prev /\ d.nfree = l.nfree /\ d.pfree = l.pfree
  BY ONLY <1>5, <1>6, <1>7, <1>8, UmmHeadersIs
<1>10. UmmShape(ny, m.prev, H, F \union {c}, g)
  <2>1. ny[c] = g[c] + UmmMarkOf(c, F \union {c})
    BY <1>6 DEF UmmMarkOf
  <2>2. \A x \in H \ {c} : ny[x] = m.next[x]
    BY <1>2, <1>6
  <2>3. (F \union {c}) \ {c} = F \ {c} /\ F \union {c} \subseteq F \union {c}
    OBVIOUS
  <2> QED BY <1>1, <2>1, <2>2, <2>3, UmmMarkShape
<1>11. UmmRing(l.nfree, l.pfree, F \union {c})
  <2>1. n = m.nfree[0] /\ n # c
    BY <1>2 DEF n
  <2>2. /\ l.nfree[0] = c /\ l.nfree[c] = n
        /\ \A x \in Umm!Block \ {0, c} : l.nfree[x] = m.nfree[x]
    BY <1>2, <1>4, <1>5
  <2>3. /\ l.pfree[c] = 0 /\ l.pfree[n] = c
        /\ \A x \in Umm!Block \ {n, c} : l.pfree[x] = m.pfree[x]
    BY <1>2, <1>4, <1>5, <2>1
  <2>4. /\ l.nfree[0] = c /\ l.nfree[c] = m.nfree[0] /\ l.pfree[c] = 0 /\ l.pfree[m.nfree[0]] = c
        /\ \A x \in Umm!Block \ {0, c} : l.nfree[x] = m.nfree[x]
        /\ \A x \in Umm!Block \ {m.nfree[0], c} : l.pfree[x] = m.pfree[x]
    BY <2>1, <2>2, <2>3
  <2>5. F \subseteq Umm!Block \ {0} /\ c \in Umm!Block /\ UmmRing(m.nfree, m.pfree, F) /\ c # 0 /\ c \notin F
    BY <1>1, <1>2
  <2> QED BY ONLY <2>4, <2>5, UmmRingInsert, SMTT(30)
<1>12. UmmApart(F \union {c}, g)
  <2>1. ASSUME NEW b \in F PROVE g[b] # c
    <3>1. b \in H \ {Umm!Last} /\ m.prev[g[b]] = b
      BY <1>1, UmmShapeIs
    <3> QED BY <3>1
  <2>2. g[c] # c
    <3>1. \A b \in H \ {Umm!Last} : b < g[b]
      BY <1>1, UmmShapeIs
    <3> QED BY <1>3, <3>1
  <2> QED BY <1>1, <2>1, <2>2 DEF UmmApart
<1>13. UmmGood(d, H, F \union {c}, g)
  BY <1>5, <1>9, <1>10, <1>11, <1>12 DEF UmmGood
<1> QED BY <1>13 DEF d, l, k, n

LEMMA UmmFreeCoreGood ==
  ASSUME NEW m, NEW H, NEW F, NEW g, UmmGood(m, H, F, g), NEW c \in H, c \notin F, c # 0, c # Umm!Last
  PROVE  UmmYields(Umm!FreeCore(m, c), (H \ F) \ {c})
<1> DEFINE u == Umm!AssimilateUp(m, c)
           K == H \ (F \intersect {g[c]})
           G == F \ {g[c]}
           p == u.prev[c]
<1>1. PICK e : UmmGood(u, K, G, e) /\ e[c] \notin F
  <2>1. UmmUp(u, m, H, F, g, c)
    BY UmmAssimilateUpGood
  <2> HIDE DEF u
  <2> QED BY <2>1 DEF UmmUp
<1>2. K \ G = H \ F /\ c \in K /\ c \notin G /\ e[c] \notin G
  BY <1>1
<1> HIDE DEF u, K, G
<1>3. UmmShape(u.next, u.prev, K, G, e)
  BY <1>1 DEF UmmGood
<1>4. p \in K \ {Umm!Last} /\ e[p] = c /\ G \subseteq K
  BY <1>2, <1>3, UmmPrevIs, UmmShapeIs
<1>5. Umm!IsFree(u, p) <=> p \in G
  BY <1>1, <1>4, UmmGoodIs
<1>6. CASE p \in G
  <2>1. Umm!FreeCore(m, c) = Umm!AssimilateDown(u, c, Umm!Mask)
    BY <1>5, <1>6 DEF Umm!FreeCore, u
  <2>2. Umm!Mask = UmmMarkOf(p, G)
    BY <1>6 DEF UmmMarkOf
  <2> DEFINE f == [e EXCEPT ![p] = e[c]]
  <2>3. UmmGood(Umm!AssimilateDown(u, c, Umm!Mask), K \ {c}, G, f)
    BY <1>1, <1>2, <2>2, UmmAssimilateDownGood
  <2>4. (K \ {c}) \ G = (H \ F) \ {c}
    BY <1>2
  <2> HIDE DEF f
  <2> QED BY <2>1, <2>3, <2>4 DEF UmmYields
<1>7. CASE p \notin G
  <2> DEFINE d == [Umm!Link(Umm!Link(u, c, u.nfree[0]), 0, c) EXCEPT !.next[c] = @ + Umm!Mask]
  <2>1. Umm!FreeCore(m, c) = d
    BY <1>5, <1>7 DEF Umm!FreeCore, u
  <2>2. UmmGood(d, K, G \union {c}, e)
    BY <1>1, <1>2, <1>7, UmmEnterGood
  <2>3. K \ (G \union {c}) = (H \ F) \ {c}
    BY <1>2
  <2> HIDE DEF d
  <2> QED BY <2>1, <2>2, <2>3 DEF UmmYields
<1> QED BY <1>6, <1>7

\* The headers behind umm_split_block.
LEMMA UmmSplitIs ==
  ASSUME NEW m, NEW H, NEW F, NEW g, UmmGood(m, H, F, g), NEW c \in H, c # Umm!Last,
         NEW n \in Nat, 0 < n, n < g[c] - c, NEW mask \in Nat, NEW b, b = c + n
  PROVE  LET l == Umm!SplitBlock(m, c, n, mask)
         IN  /\ UmmIsMemory(l) /\ l.nfree = m.nfree /\ l.pfree = m.pfree
             /\ b \in Umm!Block /\ c < b /\ b < g[c]
             /\ l.next[c] = b /\ l.next[b] = g[c] + mask /\ l.prev[b] = c /\ l.prev[g[c]] = b
             /\ \A x \in H \ {c} : x # b => l.next[x] = m.next[x]
             /\ \A x \in H \ {g[c]} : x # b => l.prev[x] = m.prev[x]
<1> DEFINE l == Umm!SplitBlock(m, c, n, mask)
           q == g[c]
           ny == [[m.next EXCEPT ![b] = q + mask] EXCEPT ![c] = b]
           py == [[m.prev EXCEPT ![b] = c] EXCEPT ![q] = b]
           da == [m.data EXCEPT ![b] = Nobody]
<1>1. /\ UmmIsMemory(m) /\ m.next \in [Umm!Block -> Nat] /\ m.prev \in [Umm!Block -> Umm!Block \union {Umm!Junk}]
      /\ \A x \in H : x \in Umm!Block /\ x \in Nat
  BY UmmGoodIs
<1>2. UmmShape(m.next, m.prev, H, F, g)
  BY DEF UmmGood
<1>3. Umm!NoMask(m.next[c]) = q /\ q \in Umm!Block /\ c < q
  <2>1. \A x \in H \ {Umm!Last} : Umm!NoMask(m.next[x]) = g[x] /\ g[x] \in Umm!Block /\ x < g[x]
    BY <1>2, UmmShapeIs
  <2> QED BY <2>1
<1>4. b \in Umm!Block /\ c < b /\ b < q /\ b \in Nat /\ c \in Umm!Block /\ q \in Nat /\ q + mask \in Nat
  <2>1. /\ c \in Umm!Block /\ c \in Nat /\ q \in Nat /\ q <= Umm!Last /\ Umm!Last \in Nat /\ Umm!Block = 0 .. Umm!Last
        /\ b = c + n /\ n < q - c /\ n \in Nat /\ 0 < n /\ mask \in Nat
    <3>1. Umm!Block = 0 .. Umm!Last /\ Umm!Last \in Nat
      BY UmmConsts
    <3>2. c \in Umm!Block /\ c \in Nat /\ q \in Nat /\ q <= Umm!Last
      BY <1>1, <1>3, <3>1
    <3> QED BY <3>1, <3>2
  <2> HIDE DEF q
  <2>2. c < b /\ b < q /\ b \in Nat /\ q + mask \in Nat
    BY ONLY <2>1, SMTT(20)
  <2> QED BY ONLY <2>1, <2>2, SMTT(20)
<1>5. /\ ny \in [Umm!Block -> Nat] /\ ny[c] = b /\ ny[b] = q + mask
      /\ \A x \in Umm!Block \ {c, b} : ny[x] = m.next[x]
  BY <1>1, <1>4
<1>6. /\ py \in [Umm!Block -> Umm!Block \union {Umm!Junk}] /\ py[b] = c /\ py[q] = b
      /\ \A x \in Umm!Block \ {q, b} : py[x] = m.prev[x]
  BY <1>1, <1>3, <1>4
<1>7. l = [m EXCEPT !.next[b] = q + mask, !.prev[b] = c, !.prev[q] = b, !.next[c] = b, !.data[b] = Nobody]
  <2> HIDE DEF q
  <2> QED BY <1>3 DEF Umm!SplitBlock
<1>8. l = [next |-> ny, prev |-> py, nfree |-> m.nfree, pfree |-> m.pfree, data |-> da]
  <2>1. m = [next |-> m.next, prev |-> m.prev, nfree |-> m.nfree, pfree |-> m.pfree, data |-> m.data]
    BY <1>1 DEF UmmIsMemory
  <2> DEFINE n1 == [m.next EXCEPT ![b] = q + mask]
             p1 == [m.prev EXCEPT ![b] = c]
             m1 == [m EXCEPT !.next = n1]
             m2 == [m1 EXCEPT !.prev = p1]
             m3 == [m2 EXCEPT !.prev = py]
             m4 == [m3 EXCEPT !.next = ny]
  <2>2. m1 = [next |-> n1, prev |-> m.prev, nfree |-> m.nfree, pfree |-> m.pfree, data |-> m.data]
    <3>1. m1 = [m EXCEPT !.next = n1]
      OBVIOUS
    <3> HIDE DEF n1, m1
    <3> QED BY <2>1, <3>1
  <2>3. m2 = [next |-> n1, prev |-> p1, nfree |-> m.nfree, pfree |-> m.pfree, data |-> m.data]
    <3>1. m2 = [m1 EXCEPT !.prev = p1]
      OBVIOUS
    <3> HIDE DEF n1, p1, m1, m2
    <3> QED BY <2>2, <3>1
  <2>4. m3 = [next |-> n1, prev |-> py, nfree |-> m.nfree, pfree |-> m.pfree, data |-> m.data]
    <3>1. m3 = [m2 EXCEPT !.prev = py]
      OBVIOUS
    <3> HIDE DEF n1, p1, py, m2, m3
    <3> QED BY <2>3, <3>1
  <2>5. m4 = [next |-> ny, prev |-> py, nfree |-> m.nfree, pfree |-> m.pfree, data |-> m.data]
    <3>1. m4 = [m3 EXCEPT !.next = ny]
      OBVIOUS
    <3> HIDE DEF n1, ny, py, m3, m4
    <3> QED BY <2>4, <3>1
  <2>6. l = [m4 EXCEPT !.data = da]
    <3>1. m1 = [m EXCEPT !.next[b] = q + mask]
      OBVIOUS
    <3>2. m2 = [m1 EXCEPT !.prev[b] = c]
      <4> HIDE DEF m1
      <4> QED BY <2>2
    <3>3. m3 = [m2 EXCEPT !.prev[q] = b]
      <4> HIDE DEF m2
      <4> QED BY <2>3
    <3>4. m4 = [m3 EXCEPT !.next[c] = b]
      <4> HIDE DEF m3
      <4> QED BY <2>4
    <3>5. m4.data = m.data
      <4> HIDE DEF m4
      <4> QED BY <2>5
    <3>6. l = [m4 EXCEPT !.data[b] = Nobody]
      <4> HIDE DEF l, m1, m2, m3, m4, q
      <4> QED BY <1>7, <3>1, <3>2, <3>3, <3>4
    <3> HIDE DEF l, m4
    <3> QED BY <3>5, <3>6
  <2> HIDE DEF ny, py, da, l, m4
  <2> QED BY <2>5, <2>6
<1> HIDE DEF l, q, ny, py, da
<1>9. UmmIsMemory(l) /\ l.next = ny /\ l.prev = py /\ l.nfree = m.nfree /\ l.pfree = m.pfree
  BY ONLY <1>1, <1>5, <1>6, <1>8, UmmHeadersIs
<1>10. /\ UmmIsMemory(l) /\ l.nfree = m.nfree /\ l.pfree = m.pfree
       /\ b \in Umm!Block /\ c < b /\ b < q
       /\ l.next[c] = b /\ l.next[b] = q + mask /\ l.prev[b] = c /\ l.prev[q] = b
       /\ \A x \in H \ {c} : x # b => l.next[x] = m.next[x]
       /\ \A x \in H \ {q} : x # b => l.prev[x] = m.prev[x]
  BY <1>1, <1>4, <1>5, <1>6, <1>9
<1> QED BY <1>10 DEF l, q

\* A block in use is split, and what is behind is in use as well.
LEMMA UmmSplitUsedGood ==
  ASSUME NEW m, NEW H, NEW F, NEW g, UmmGood(m, H, F, g), NEW c \in H, c \notin F, c # Umm!Last,
         NEW n \in Nat, 0 < n, n < g[c] - c, NEW b, b = c + n
  PROVE  /\ UmmGood(Umm!SplitBlock(m, c, n, 0), H \union {b}, F, [g EXCEPT ![c] = b, ![b] = g[c]])
         /\ b \notin H /\ b \notin F /\ b # 0 /\ b # Umm!Last
<1> DEFINE l == Umm!SplitBlock(m, c, n, 0)
           e == [g EXCEPT ![c] = b, ![b] = g[c]]
           K == {x \in {b} : FALSE}
<1>1. UmmShape(m.next, m.prev, H, F, g) /\ UmmApart(F, g) /\ UmmRing(m.nfree, m.pfree, F)
  BY DEF UmmGood
<1>2. /\ UmmIsMemory(l) /\ l.nfree = m.nfree /\ l.pfree = m.pfree
      /\ b \in Umm!Block /\ c < b /\ b < g[c]
      /\ l.next[c] = b /\ l.next[b] = g[c] + 0 /\ l.prev[b] = c /\ l.prev[g[c]] = b
      /\ \A x \in H \ {c} : x # b => l.next[x] = m.next[x]
      /\ \A x \in H \ {g[c]} : x # b => l.prev[x] = m.prev[x]
  BY UmmSplitIs
<1> HIDE DEF l
<1>3. b \notin H /\ F \subseteq H /\ b # 0 /\ b # Umm!Last
  <2>1. /\ \A f \in H : c < f => g[c] <= f
        /\ g[c] \in Umm!Block /\ H \subseteq Umm!Block /\ F \subseteq H /\ 0 \in H /\ Umm!Last \in H
    BY <1>1, UmmShapeIs
  <2>2. b \notin H
    BY <1>2, <2>1, UmmConsts
  <2> QED BY <2>1, <2>2
<1>4. K \in SUBSET {b} /\ UmmMarkOf(b, K) = 0 /\ (F \ {c}) \union K = F
  BY DEF UmmMarkOf
<1> HIDE DEF K
<1>5. l.next[b] = g[c] + UmmMarkOf(b, K)
  BY <1>2, <1>4
<1>6. (\A x \in H \ {c} : l.next[x] = m.next[x]) /\ (\A x \in H \ {g[c]} : l.prev[x] = m.prev[x])
  BY <1>2, <1>3
<1>7. /\ UmmShape(l.next, l.prev, H \union {b}, (F \ {c}) \union K, e)
      /\ e[c] = b /\ e[b] = g[c] /\ \A x \in H \ {c} : e[x] = g[x]
  <2>1. UmmCut(m.next, m.prev, l.next, l.prev, H, g, e, c, b, K)
    BY <1>2, <1>4, <1>5, <1>6 DEF UmmCut
  <2> HIDE DEF e
  <2>2. UmmShape(l.next, l.prev, H \union {b}, (F \ {c}) \union K, e)
    BY <2>1, <1>1, UmmSplitShape
  <2>3. g \in [Umm!Block -> Umm!Block] /\ H \subseteq Umm!Block
    BY <1>1, UmmShapeIs
  <2>4. e = [g EXCEPT ![c] = b, ![b] = g[c]] /\ b \in Umm!Block /\ c \in H /\ b # c
    BY <1>2, <1>3 DEF e
  <2>5. e[c] = b /\ e[b] = g[c] /\ \A x \in H \ {c} : e[x] = g[x]
    BY <1>3, <2>3, <2>4
  <2> QED BY <2>2, <2>5
<1> HIDE DEF e
<1>8. UmmApart(F, e)
  BY <1>1, <1>3, <1>7 DEF UmmApart
<1>9. UmmGood(l, H \union {b}, F, e)
  BY <1>1, <1>2, <1>4, <1>7, <1>8 DEF UmmGood
<1> QED BY <1>3, <1>9 DEF l, e

\* umm_realloc cuts block c, of which there is size, to n.
LEMMA UmmTrimYields ==
  ASSUME NEW m, NEW H, NEW F, NEW g, UmmGood(m, H, F, g), NEW c \in H, c \notin F, c # Umm!Last,
         NEW n \in Nat, 0 < n, NEW size, size = g[c] - c
  PROVE  UmmYields(Umm!Trim(m, c, size, n), H \ F)
<1>1. CASE ~(size > n)
  <2>1. Umm!Trim(m, c, size, n) = m
    BY <1>1 DEF Umm!Trim
  <2> QED BY <2>1 DEF UmmYields
<1>2. CASE size > n
  <2> DEFINE b == c + n
             l == Umm!SplitBlock(m, c, n, 0)
             e == [g EXCEPT ![c] = b, ![b] = g[c]]
             K == H \union {b}
  <2>0. c \in Nat /\ g[c] \in Nat
    <3>1. UmmShape(m.next, m.prev, H, F, g)
      BY DEF UmmGood
    <3>2. c \in Umm!Block /\ g[c] \in Umm!Block
      BY <3>1, UmmShapeIs
    <3> QED BY <3>2, UmmConsts
  <2>1. n < g[c] - c
    BY <1>2, <2>0
  <2>2. UmmGood(l, K, F, e) /\ b \notin H /\ b \notin F /\ b # 0 /\ b # Umm!Last
    <3> DEFINE a == c + n
    <3>1. a = c + n
      OBVIOUS
    <3> HIDE DEF a
    <3>2. /\ UmmGood(Umm!SplitBlock(m, c, n, 0), H \union {a}, F, [g EXCEPT ![c] = a, ![a] = g[c]])
          /\ a \notin H /\ a \notin F /\ a # 0 /\ a # Umm!Last
      BY <2>1, <3>1, UmmSplitUsedGood
    <3> QED BY <3>1, <3>2
  <2>3. Umm!Trim(m, c, size, n) = Umm!FreeCore(l, b)
    BY <1>2 DEF Umm!Trim
  <2>4. b \in K
    OBVIOUS
  <2> HIDE DEF b, l, e, K
  <2>5. UmmYields(Umm!FreeCore(l, b), (K \ F) \ {b})
    BY <2>2, <2>4, UmmFreeCoreGood
  <2>6. (K \ F) \ {b} = H \ F
    BY <2>2 DEF K
  <2> QED BY <2>3, <2>5, <2>6
<1> QED BY <1>1, <1>2

\* umm_malloc_core with block c.
LEMMA UmmTakeGood ==
  ASSUME NEW m, NEW H, NEW F, NEW g, UmmGood(m, H, F, g), NEW c \in F,
         NEW n \in Nat, 0 < n, Umm!SizeOf(m, c) >= n
  PROVE  UmmYields(Umm!Take(m, c, n), (H \ F) \union {c})
<1>1. UmmShape(m.next, m.prev, H, F, g) /\ UmmApart(F, g) /\ UmmRing(m.nfree, m.pfree, F)
  BY DEF UmmGood
<1>2. /\ c \in H /\ c # Umm!Last /\ c # 0 /\ Umm!NoMask(m.next[c]) = g[c] /\ g[c] \in Umm!Block /\ c \in Umm!Block
      /\ F \subseteq H
  <2>1. c \in H /\ c # Umm!Last /\ c # 0 /\ F \subseteq H
    BY <1>1, UmmShapeIs
  <2>2. \A x \in H \ {Umm!Last} : Umm!NoMask(m.next[x]) = g[x] /\ g[x] \in Umm!Block /\ x \in Umm!Block
    BY <1>1, UmmShapeIs
  <2> QED BY <2>1, <2>2
<1>3. Umm!SizeOf(m, c) = g[c] - c /\ g[c] \in Nat /\ c \in Nat
  BY <1>2, UmmConsts DEF Umm!SizeOf
<1>4. CASE Umm!SizeOf(m, c) = n
  <2>1. Umm!Take(m, c, n) = Umm!Disconnect(m, c)
    BY <1>4 DEF Umm!Take
  <2>2. UmmGood(Umm!Disconnect(m, c), H, F \ {c}, g)
    BY UmmDisconnectGood
  <2>3. H \ (F \ {c}) = (H \ F) \union {c}
    BY <1>2
  <2> QED BY <2>1, <2>2, <2>3 DEF UmmYields
<1>5. CASE Umm!SizeOf(m, c) # n
  <2> DEFINE b == c + n
             s == Umm!SplitBlock(m, c, n, Umm!Mask)
             k == Umm!Link(s, s.pfree[c], b)
             l == Umm!Link(k, b, s.nfree[c])
             e == [g EXCEPT ![c] = b, ![b] = g[c]]
             K == {b}
             G == (F \ {c}) \union K
  <2>1. 0 < n /\ n < g[c] - c /\ Umm!Mask \in Nat /\ b = c + n
    BY <1>3, <1>5, UmmConsts
  <2>2. Umm!Take(m, c, n) = l
    BY <1>5 DEF Umm!Take
  <2> HIDE DEF b
  <2>3. /\ UmmIsMemory(s) /\ s.nfree = m.nfree /\ s.pfree = m.pfree
        /\ b \in Umm!Block /\ c < b /\ b < g[c]
        /\ s.next[c] = b /\ s.next[b] = g[c] + Umm!Mask /\ s.prev[b] = c /\ s.prev[g[c]] = b
        /\ \A x \in H \ {c} : x # b => s.next[x] = m.next[x]
        /\ \A x \in H \ {g[c]} : x # b => s.prev[x] = m.prev[x]
    BY <1>2, <2>1, UmmSplitIs
  <2> HIDE DEF s
  <2>4. b \notin H /\ b # 0 /\ b # Umm!Last
    <3>1. /\ \A f \in H : c < f => g[c] <= f
          /\ H \subseteq Umm!Block /\ 0 \in H /\ Umm!Last \in H
      BY <1>1, <1>2, UmmShapeIs
    <3>2. b \notin H
      <4>1. b \in Nat /\ ~(g[c] <= b) /\ c < b
        BY <1>3, <2>3, UmmConsts
      <4> QED BY <3>1, <4>1
    <3> QED BY <3>1, <3>2
  <2>5. /\ UmmShape(s.next, s.prev, H \union {b}, G, e)
        /\ e[c] = b /\ e[b] = g[c] /\ \A x \in H \ {c} : e[x] = g[x]
    <3>1. K \in SUBSET {b} /\ s.next[b] = g[c] + UmmMarkOf(b, K)
      BY <2>3 DEF UmmMarkOf
    <3> HIDE DEF K
    <3>2. (\A x \in H \ {c} : s.next[x] = m.next[x]) /\ (\A x \in H \ {g[c]} : s.prev[x] = m.prev[x])
      BY <2>3, <2>4
    <3>3. UmmCut(m.next, m.prev, s.next, s.prev, H, g, e, c, b, K)
      BY <1>2, <2>3, <3>1, <3>2 DEF UmmCut
    <3>4. G = (F \ {c}) \union K
      OBVIOUS
    <3> HIDE DEF e, G
    <3>5. UmmShape(s.next, s.prev, H \union {b}, G, e)
      BY <1>1, <3>3, <3>4, UmmSplitShape
    <3>6. g \in [Umm!Block -> Umm!Block] /\ H \subseteq Umm!Block
      BY <1>1, UmmShapeIs
    <3>7. e = [g EXCEPT ![c] = b, ![b] = g[c]] /\ b \in Umm!Block /\ c \in H /\ b # c
      BY <1>2, <2>3, <2>4 DEF e
    <3>8. e[c] = b /\ e[b] = g[c] /\ \A x \in H \ {c} : e[x] = g[x]
      BY <2>4, <3>6, <3>7
    <3> QED BY <3>5, <3>8
  <2>6. /\ m.pfree[c] \in Umm!Block /\ m.nfree[c] \in Umm!Block /\ F \subseteq Umm!Block \ {0}
        /\ m.nfree \in [Umm!Block -> Umm!Block \union {Umm!Junk}] /\ m.pfree \in [Umm!Block -> Umm!Block \union {Umm!Junk}]
        /\ m.pfree[c] \in F \union {0} /\ m.nfree[c] \in F \union {0}
    BY UmmGoodIs
  <2>7. /\ UmmIsMemory(k) /\ k.next = s.next /\ k.prev = s.prev
        /\ k.nfree = [m.nfree EXCEPT ![m.pfree[c]] = b] /\ k.pfree = [m.pfree EXCEPT ![b] = m.pfree[c]]
    <3>1. /\ UmmIsMemory(k) /\ k.next = s.next /\ k.prev = s.prev
          /\ k.nfree = [s.nfree EXCEPT ![s.pfree[c]] = b] /\ k.pfree = [s.pfree EXCEPT ![b] = s.pfree[c]]
      <4>1. UmmIsMemory(s) /\ s.pfree[c] \in Umm!Block /\ b \in Umm!Block
        BY <2>3, <2>6
      <4> QED BY ONLY <4>1, UmmLinkIs
    <3> QED BY <2>3, <3>1
  <2> HIDE DEF k
  <2>8. /\ UmmIsMemory(l) /\ l.next = s.next /\ l.prev = s.prev
        /\ l.nfree = [k.nfree EXCEPT ![b] = m.nfree[c]] /\ l.pfree = [k.pfree EXCEPT ![m.nfree[c]] = b]
    <3>1. /\ UmmIsMemory(l) /\ l.next = k.next /\ l.prev = k.prev
          /\ l.nfree = [k.nfree EXCEPT ![b] = s.nfree[c]] /\ l.pfree = [k.pfree EXCEPT ![s.nfree[c]] = b]
      <4>1. UmmIsMemory(k) /\ s.nfree[c] \in Umm!Block /\ b \in Umm!Block
        BY <2>3, <2>6, <2>7
      <4> QED BY ONLY <4>1, UmmLinkIs, SMTT(20)
    <3> QED BY <2>3, <2>7, <3>1
  <2> HIDE DEF l
  <2>9. UmmRing(l.nfree, l.pfree, G)
    <3>0. b \notin F \union {0}
      BY <1>2, <2>4
    <3>1. /\ l.nfree[m.pfree[c]] = b /\ l.nfree[b] = m.nfree[c] /\ l.pfree[b] = m.pfree[c] /\ l.pfree[m.nfree[c]] = b
          /\ \A x \in Umm!Block \ {m.pfree[c], b} : l.nfree[x] = m.nfree[x]
          /\ \A x \in Umm!Block \ {m.nfree[c], b} : l.pfree[x] = m.pfree[x]
      BY <2>3, <2>6, <2>7, <2>8, <3>0
    <3>2. F \subseteq Umm!Block \ {0} /\ UmmRing(m.nfree, m.pfree, F) /\ b \in Umm!Block /\ b # 0 /\ b \notin F /\ c \in F
      BY <1>1, <2>3, <2>6, <3>0
    <3>3. UmmRing(l.nfree, l.pfree, (F \ {c}) \union {b})
      <4> HIDE DEF G, K
      <4> QED BY ONLY <3>1, <3>2, UmmRingReplace, ZenonT(60)
    <3> QED BY ONLY <3>3
  <2> HIDE DEF e
  <2>10. UmmApart(G, e)
    <3>1. ASSUME NEW x \in F \ {c} PROVE e[x] \notin G
      <4>1. x \in H \ {Umm!Last} /\ e[x] = g[x] /\ g[x] \notin F /\ g[x] \in H
        <5>1. x \in H \ {Umm!Last} /\ g[x] \in H
          BY <1>1, UmmShapeIs
        <5> QED BY <1>1, <2>5, <5>1 DEF UmmApart
      <4> QED BY <2>4, <4>1
    <3>2. e[b] \notin G
      <4>1. g[c] \notin F /\ g[c] # b
        BY <1>1, <1>3, <2>3 DEF UmmApart
      <4> QED BY <2>5, <4>1
    <3> QED BY <3>1, <3>2 DEF UmmApart
  <2>11. UmmGood(l, H \union {b}, G, e)
    <3> HIDE DEF G
    <3> QED BY <2>5, <2>8, <2>9, <2>10 DEF UmmGood
  <2>12. (H \union {b}) \ G = (H \ F) \union {c}
    BY <1>2, <2>4, <2>3
  <2> HIDE DEF G
  <2> QED BY <2>2, <2>11, <2>12 DEF UmmYields
<1> QED BY <1>4, <1>5

LEMMA UmmCopyGood ==
  ASSUME NEW m, NEW H, NEW F, NEW g, UmmGood(m, H, F, g), NEW from, NEW to, NEW n
  PROVE  UmmGood(Umm!Copy(m, from, to, n), H, F, g)
<1> DEFINE da == [b \in Umm!Block |-> IF b \in to .. to + n - 1 THEN m.data[from + (b - to)] ELSE m.data[b]]
           l == Umm!Copy(m, from, to, n)
<1>1. l = [m EXCEPT !.data = da]
  BY DEF Umm!Copy
<1> HIDE DEF da, l
<1>2. l = [next |-> m.next, prev |-> m.prev, nfree |-> m.nfree, pfree |-> m.pfree, data |-> da]
  BY <1>1 DEF UmmGood, UmmIsMemory
<1>3. /\ UmmIsMemory(l) /\ l.next = m.next /\ l.prev = m.prev
      /\ l.nfree = m.nfree /\ l.pfree = m.pfree
  BY <1>2 DEF UmmGood, UmmIsMemory
<1> QED BY <1>3 DEF UmmGood, l
-----------------------------------------------------------------------------
(* The walks. *)

LEMMA UmmRising ==
  ASSUME NEW N \in Nat, NEW q, \A i \in 1 .. N : q[i] \in Nat,
         \A i \in 1 .. N - 1 : q[i] < q[i + 1]
  PROVE  \A i, j \in 1 .. N : i < j => q[i] < q[j]
<1> DEFINE T == {k \in Nat : \A i \in 1 .. N : i + k + 1 \in 1 .. N => q[i] < q[i + k + 1]}
<1>1. 0 \in T
  <2>1. ASSUME NEW i \in 1 .. N, i + 0 + 1 \in 1 .. N PROVE q[i] < q[i + 0 + 1]
    <3>1. i \in 1 .. N - 1 /\ i + 0 + 1 = i + 1
      BY <2>1
    <3> QED BY <3>1
  <2> QED BY <2>1
<1>2. ASSUME NEW k \in T PROVE k + 1 \in T
  <2>1. SUFFICES ASSUME NEW i \in 1 .. N, i + (k + 1) + 1 \in 1 .. N PROVE q[i] < q[i + (k + 1) + 1]
    OBVIOUS
  <2>2. k \in Nat
    OBVIOUS
  <2>3. i + k + 1 \in 1 .. N /\ i + k + 1 \in 1 .. N - 1 /\ i + (k + 1) + 1 = (i + k + 1) + 1
    BY <2>1, <2>2
  <2>4. q[i] < q[i + k + 1]
    BY <2>3
  <2>5. q[i + k + 1] < q[(i + k + 1) + 1]
    BY <2>3
  <2>6. q[i] \in Nat /\ q[i + k + 1] \in Nat /\ q[(i + k + 1) + 1] \in Nat
    BY <2>1, <2>3
  <2>7. q[i] < q[(i + k + 1) + 1]
    BY <2>4, <2>5, <2>6
  <2> QED BY <2>3, <2>7
<1>3. T = Nat
  <2>1. T \in SUBSET Nat
    OBVIOUS
  <2> HIDE DEF T
  <2> QED BY <1>1, <1>2, <2>1, SetInduction
<1>4. ASSUME NEW i \in 1 .. N, NEW j \in 1 .. N, i < j PROVE q[i] < q[j]
  <2>1. j - i - 1 \in Nat /\ i + (j - i - 1) + 1 = j
    BY <1>4
  <2>2. j - i - 1 \in T
    BY <1>3, <2>1
  <2>3. \A k \in T : i + k + 1 \in 1 .. N => q[i] < q[i + k + 1]
    OBVIOUS
  <2> QED BY <2>1, <2>2, <2>3
<1> QED BY <1>4

\* A list that has ranks comes to its end.
LEMMA UmmListEnds ==
  ASSUME NEW nf, NEW F, F \subseteq Umm!Block \ {0, Umm!Last}, NEW r, UmmRanks(nf, F, r),
         \A b \in F : r[b] \in Nat,
         NEW w, \A i \in 1 .. NumBlocks : w[i] \in F \union {0},
         \A i \in 1 .. NumBlocks - 1 : w[i] # 0 => w[i + 1] = nf[w[i]]
  PROVE  \E i \in 1 .. NumBlocks : w[i] = 0
<1> SUFFICES ASSUME \A i \in 1 .. NumBlocks : w[i] \in F PROVE FALSE
  OBVIOUS
<1> DEFINE q == [i \in 1 .. NumBlocks |-> r[w[i]]]
           v == [i \in 1 .. NumBlocks |-> w[i]]
<1>1. NumBlocks \in Nat /\ Umm!Last \in Nat /\ Umm!Last + 1 = NumBlocks /\ Umm!Last >= 2
  BY UmmConsts
<1>2. \A b \in F : b # 0
  OBVIOUS
<1>3. \A i \in 1 .. NumBlocks : q[i] = r[w[i]] /\ q[i] \in Nat
  OBVIOUS
<1>4. ASSUME NEW i \in 1 .. NumBlocks - 1 PROVE q[i] < q[i + 1]
  <2>1. i \in 1 .. NumBlocks /\ i + 1 \in 1 .. NumBlocks
    BY <1>1
  <2>2. w[i + 1] = nf[w[i]] /\ w[i] \in F /\ w[i + 1] \in F
    BY <1>2, <2>1
  <2>3. r[w[i]] < r[nf[w[i]]]
    BY <1>2, <2>2 DEF UmmRanks
  <2> QED BY <1>3, <2>1, <2>2, <2>3
<1> HIDE DEF q
<1>5. \A i, j \in 1 .. NumBlocks : i < j => q[i] < q[j]
  BY <1>1, <1>3, <1>4, UmmRising
<1> DEFINE S == 1 .. NumBlocks
           T == 1 .. Umm!Last - 1
<1>6. IsFiniteSet(S) /\ Cardinality(S) = NumBlocks /\ IsFiniteSet(T) /\ Cardinality(T) = Umm!Last - 1
  <2>1. 1 \in Int /\ NumBlocks \in Int /\ Umm!Last - 1 \in Int /\ ~(1 > NumBlocks) /\ ~(1 > Umm!Last - 1)
        /\ NumBlocks - 1 + 1 = NumBlocks /\ (Umm!Last - 1) - 1 + 1 = Umm!Last - 1
    BY <1>1
  <2> QED BY <2>1, FS_Interval
<1>7. v \in [S -> T]
  <2>1. ASSUME NEW i \in 1 .. NumBlocks PROVE w[i] \in 1 .. Umm!Last - 1
    <3>1. w[i] \in Umm!Block /\ w[i] # 0 /\ w[i] # Umm!Last
      OBVIOUS
    <3>2. w[i] \in 0 .. Umm!Last
      BY <3>1, UmmConsts
    <3> QED BY <1>1, <3>1, <3>2
  <2> QED BY <2>1
<1>8. Cardinality(T) < Cardinality(S)
  BY <1>1, <1>6
<1>9. PICK x, y \in S : x # y /\ v[x] = v[y]
  <2> HIDE DEF S, T, v
  <2> QED BY <1>6, <1>7, <1>8, FS_PigeonHole
<1>10. x \in 1 .. NumBlocks /\ y \in 1 .. NumBlocks /\ w[x] = w[y]
  BY <1>9
<1>11. q[x] = q[y] /\ q[x] \in Nat
  BY <1>3, <1>10
<1>12. x < y \/ y < x
  BY <1>9, <1>10
<1> QED BY <1>5, <1>10, <1>11, <1>12

\* The walk over the free list comes to all free blocks, and to no other one.
LEMMA UmmFreeListIs ==
  ASSUME NEW m, NEW H, NEW F, NEW g, UmmGood(m, H, F, g)
  PROVE  {e[1] : e \in Umm!FreeList(m)} = F
<1> DEFINE R == F \union {0}
           f == [b \in R |-> IF b = 0 THEN 0 ELSE m.nfree[b]]
           W(w) == w = [i \in 1 .. NumBlocks |->
                          IF i = 1 THEN m.nfree[0]
                          ELSE LET b == w[i - 1] IN IF b = 0 THEN 0 ELSE m.nfree[b]]
           w == CHOOSE w : W(w)
<1>1. /\ \A b \in R : m.nfree[b] \in R /\ m.pfree[b] \in R /\ m.pfree[m.nfree[b]] = b /\ m.nfree[m.pfree[b]] = b
      /\ 0 \in R /\ \A b \in F : b # 0
      /\ F \subseteq Umm!Block \ {0, Umm!Last}
  <2>1. UmmRing(m.nfree, m.pfree, F) /\ UmmShape(m.next, m.prev, H, F, g)
    BY DEF UmmGood
  <2>2. F \subseteq Umm!Block \ {0, Umm!Last}
    BY <2>1, UmmShapeIs
  <2> QED BY <2>1, <2>2, UmmRingIs
<1>2. PICK r \in [Umm!Block -> Nat] : UmmRanks(m.nfree, F, r)
  BY DEF UmmGood, UmmRing
<1>3. f \in [R -> R]
  BY <1>1
<1>4. NumBlocks \in Nat /\ 1 \in 1 .. NumBlocks
  BY UmmConsts
<1>5. PICK v \in [1 .. NumBlocks -> R] : IsWalk(v, m.nfree[0], f, NumBlocks)
  <2>1. m.nfree[0] \in R
    BY <1>1
  <2> HIDE DEF f, R
  <2> QED BY <1>3, <1>4, <2>1, WalkExists
<1>6. \E x : W(x)
  <2>1. ASSUME NEW i \in 1 .. NumBlocks, i # 1
        PROVE  f[v[i - 1]] = LET b == v[i - 1] IN IF b = 0 THEN 0 ELSE m.nfree[b]
    <3>1. i - 1 \in 1 .. NumBlocks
      BY <1>4, <2>1
    <3>2. v[i - 1] \in R
      BY <3>1
    <3> QED BY <3>2
  <2>2. W(v)
    <3> HIDE DEF f
    <3> QED BY <1>5, <2>1 DEF IsWalk
  <2> QED BY <2>2
<1>7. Umm!FreeList(m) = {e \in {<<w[i], i>> : i \in 1 .. NumBlocks} : e[1] # 0}
  BY DEF Umm!FreeList
<1>8. W(w)
  <2> HIDE DEF W
  <2> QED BY <1>6
<1> HIDE DEF w, f
<1>9. w[1] = m.nfree[0]
  BY <1>4, <1>8
<1>10. ASSUME NEW i \in 1 .. NumBlocks - 1
       PROVE  w[i + 1] = IF w[i] = 0 THEN 0 ELSE m.nfree[w[i]]
  <2>1. i + 1 \in 1 .. NumBlocks /\ i + 1 # 1 /\ (i + 1) - 1 = i
    BY <1>4
  <2> QED BY <1>8, <2>1
<1> HIDE DEF W
<1>11. \A i \in 1 .. NumBlocks : w[i] \in R
  <2>1. ASSUME NEW i \in 1 .. NumBlocks - 1, w[i] \in R PROVE w[i + 1] \in R
    BY <1>1, <1>10, <2>1
  <2>2. w[1] \in R
    BY <1>1, <1>9
  <2> HIDE DEF R
  <2> QED BY <1>4, <2>1, <2>2, WalkStays
<1>12. \A b \in F : r[b] \in Nat
  BY <1>1, <1>2
<1>13. PICK k \in 1 .. NumBlocks : w[k] = 0
  <2>1. \A i \in 1 .. NumBlocks - 1 : w[i] # 0 => w[i + 1] = m.nfree[w[i]]
    BY <1>10
  <2>2. \A i \in 1 .. NumBlocks : w[i] \in F \union {0}
    BY <1>11
  <2> QED BY <1>1, <1>2, <1>12, <2>1, <2>2, UmmListEnds
<1> DEFINE S == {b \in R : b = 0 \/ \E i \in 1 .. NumBlocks : w[i] = b}
<1>14. w[NumBlocks] = 0
  <2> DEFINE T == {j \in Nat : k + j \in 1 .. NumBlocks => w[k + j] = 0}
  <2>1. 0 \in T
    BY <1>13
  <2>2. ASSUME NEW j \in T PROVE j + 1 \in T
    <3>1. SUFFICES ASSUME k + (j + 1) \in 1 .. NumBlocks PROVE w[k + (j + 1)] = 0
      OBVIOUS
    <3>2. j \in Nat /\ k + j \in 1 .. NumBlocks - 1 /\ k + j \in 1 .. NumBlocks /\ k + (j + 1) = (k + j) + 1
      BY <1>4, <3>1
    <3>3. w[k + j] = 0
      BY <3>2
    <3> QED BY <1>10, <3>2, <3>3
  <2>3. T = Nat
    <3>1. T \in SUBSET Nat
      OBVIOUS
    <3> HIDE DEF T
    <3> QED BY <2>1, <2>2, <3>1, SetInduction
  <2>4. NumBlocks - k \in Nat /\ k + (NumBlocks - k) = NumBlocks /\ NumBlocks \in 1 .. NumBlocks
    BY <1>4
  <2>5. NumBlocks - k \in T
    BY <2>3, <2>4
  <2> QED BY <2>4, <2>5
<1>15. ASSUME NEW b \in S PROVE m.nfree[b] \in S
  <2>1. m.nfree[b] \in R
    BY <1>1
  <2>2. CASE b = 0
    BY <1>4, <1>9, <2>1, <2>2
  <2>3. CASE b # 0
    <3>1. PICK i \in 1 .. NumBlocks : w[i] = b
      BY <2>3
    <3>2. i # NumBlocks
      BY <1>14, <2>3, <3>1
    <3>3. i \in 1 .. NumBlocks - 1 /\ i + 1 \in 1 .. NumBlocks
      BY <1>4, <3>2
    <3>4. w[i + 1] = m.nfree[b]
      BY <1>10, <2>3, <3>1, <3>3
    <3> QED BY <2>1, <3>3, <3>4
  <2> QED BY <2>2, <2>3
<1>16. ASSUME NEW b \in F PROVE b \in S
  <2> DEFINE Bad == {n \in Nat : \E x \in F : x \notin S /\ r[x] = n}
  <2>1. SUFFICES ASSUME b \notin S PROVE FALSE
    OBVIOUS
  <2>2. r[b] \in Bad
    BY <1>12, <2>1
  <2>3. PICK n \in Bad : \A o \in Bad : n <= o
    <3>1. Bad \in SUBSET Nat /\ Bad # {}
      BY <2>2
    <3> HIDE DEF Bad
    <3> QED BY <3>1, Least
  <2>4. PICK x \in F : x \notin S /\ r[x] = n
    OBVIOUS
  <2> DEFINE p == m.pfree[x]
  <2>5. p \in R /\ m.nfree[p] = x /\ x # 0
    BY <1>1
  <2>6. p \notin S
    BY <1>15, <2>4, <2>5
  <2>7. p \in F
    BY <2>5, <2>6
  <2>8. r[p] < r[x] /\ r[p] \in Nat /\ r[x] \in Nat
    BY <1>2, <1>12, <2>5, <2>7 DEF UmmRanks
  <2>9. r[p] \in Bad
    BY <2>6, <2>7, <2>8
  <2> QED BY <2>3, <2>4, <2>8, <2>9
<1>17. ASSUME NEW e \in Umm!FreeList(m) PROVE e[1] \in F
  BY <1>7, <1>11
<1>18. ASSUME NEW b \in F PROVE \E e \in Umm!FreeList(m) : e[1] = b
  <2>1. PICK i \in 1 .. NumBlocks : w[i] = b
    BY <1>1, <1>16
  <2>2. <<w[i], i>> \in Umm!FreeList(m)
    BY <1>1, <1>7, <2>1
  <2> QED BY <2>1, <2>2
<1> QED BY <1>17, <1>18

\* The blocks one passes are those that the memory is made of.
LEMMA UmmWalkedIs ==
  ASSUME NEW m, NEW H, NEW F, NEW g, UmmGood(m, H, F, g)
  PROVE  Umm!Walked(m) = H
<1> DEFINE f == [b \in H |-> Umm!NoMask(m.next[b])]
           W(w) == w = [i \in 1 .. NumBlocks |-> IF i = 1 THEN 0 ELSE Umm!NoMask(m.next[w[i - 1]])]
           w == CHOOSE w : W(w)
<1>1. UmmShape(m.next, m.prev, H, F, g)
  BY DEF UmmGood
<1>2. /\ 0 \in H /\ H \subseteq Umm!Block /\ Umm!Last \in H /\ Umm!NoMask(m.next[Umm!Last]) = 0
      /\ \A b \in H \ {Umm!Last} : g[b] \in H /\ Umm!NoMask(m.next[b]) = g[b]
  BY <1>1, UmmShapeIs
<1>3. f \in [H -> H]
  BY <1>2
<1>4. NumBlocks \in Nat /\ 1 \in 1 .. NumBlocks /\ Umm!Last \in Nat /\ Umm!Last < NumBlocks /\ 0 \in Nat
  BY UmmConsts
<1>5. PICK v \in [1 .. NumBlocks -> H] : IsWalk(v, 0, f, NumBlocks)
  <2> HIDE DEF f
  <2> QED BY <1>2, <1>3, <1>4, WalkExists
<1>6. \E x : W(x)
  <2>1. ASSUME NEW i \in 1 .. NumBlocks, i # 1 PROVE f[v[i - 1]] = Umm!NoMask(m.next[v[i - 1]])
    <3>1. i - 1 \in 1 .. NumBlocks
      BY <1>4, <2>1
    <3>2. v[i - 1] \in H
      BY <3>1
    <3> QED BY <3>2
  <2>2. W(v)
    <3> HIDE DEF f
    <3> QED BY <1>5, <2>1 DEF IsWalk
  <2> QED BY <2>2
<1>7. Umm!Walked(m) = {w[i] : i \in 1 .. NumBlocks}
  BY DEF Umm!Walked
<1>8. W(w)
  <2> HIDE DEF W
  <2> QED BY <1>6
<1> HIDE DEF w, f
<1>9. w[1] = 0
  BY <1>4, <1>8
<1>10. ASSUME NEW i \in 1 .. NumBlocks - 1 PROVE w[i + 1] = Umm!NoMask(m.next[w[i]])
  <2>1. i + 1 \in 1 .. NumBlocks /\ i + 1 # 1 /\ (i + 1) - 1 = i
    BY <1>4
  <2> QED BY <1>8, <2>1
<1> HIDE DEF W
<1>11. \A i \in 1 .. NumBlocks : w[i] \in H
  <2>1. ASSUME NEW i \in 1 .. NumBlocks - 1, w[i] \in H PROVE w[i + 1] \in H
    BY <1>2, <1>10, <2>1
  <2> QED BY <1>2, <1>4, <1>9, <2>1, WalkStays
<1>12. Tiles(H, g, 0, Umm!Last)
  BY <1>1 DEF UmmShape
<1>13. Reaches(w, H, NumBlocks)
  <2>1. Within(H, 0, NumBlocks)
    <3>1. \A b \in H : b \in Nat /\ b <= Umm!Last
      BY <1>2, UmmConsts
    <3> QED BY <1>4, <3>1 DEF Within
  <2>2. Follows(w, g, H, H, Umm!Last, NumBlocks)
    BY <1>2, <1>10 DEF Follows
  <2>3. H \ {Umm!Last} \subseteq H /\ H \subseteq H
    OBVIOUS
  <2> QED BY <1>2, <1>4, <1>9, <1>12, <2>1, <2>2, <2>3, WalkReaches
<1>14. \A b \in H : \E i \in 1 .. NumBlocks : w[i] = b
  BY <1>13 DEF Reaches
<1> QED BY <1>7, <1>11, <1>14
-----------------------------------------------------------------------------
(* The clients. *)

\* From the first allocation on the blocks H fill the heap, those of F are free,
\* and the clients have theirs among the others.
UmmIInv ==
  /\ Umm!TypeOK
  /\ ~ummUp => \A h \in Handle : ummAt[h] = 0
  /\ ummUp => \E H, F, g : UmmGood(ummMem, H, F, g) /\ UmmHeld(ummAt, H \ F)

LEMMA UmmShapeSame ==
  ASSUME NEW nx, NEW pv, NEW H, NEW F, NEW g, UmmShape(nx, pv, H, F, g), NEW ny, NEW py,
         \A b \in H : ny[b] = nx[b] /\ py[b] = pv[b]
  PROVE  UmmShape(ny, py, H, F, g)
<1>1. Umm!Last \in H /\ \A b \in H \ {Umm!Last} : g[b] \in H
  BY UmmShapeIs
<1> QED BY <1>1 DEF UmmShape

\* What a client writes over is nobody else's.
LEMMA UmmOwnedSound ==
  ASSUME NEW h \in Handle, NEW c \in Umm!Block, NEW kept, NEW m, NEW V, UmmYields(m, V),
         UmmHeld([ummAt EXCEPT ![h] = c], V), Umm!Owned(m, h, c, kept), ummUp' = TRUE
  PROVE  UmmIInv'
<1>1. PICK H, F, g : UmmGood(m, H, F, g) /\ H \ F = V
  BY DEF UmmYields
<1> DEFINE a == [ummAt EXCEPT ![h] = c]
           free == {b \in H : Umm!IsFree(m, b)} \union {0}
           all == UNION {Umm!Extent(m, a, k) : k \in Handle}
           ny == [b \in Umm!Block |-> IF b \in H THEN m.next[b] ELSE Umm!Junk]
           py == [b \in Umm!Block |-> IF b \in H THEN m.prev[b] ELSE Umm!Junk]
           nf == [b \in Umm!Block |-> IF b \in free THEN m.nfree[b] ELSE Umm!Junk]
           pf == [b \in Umm!Block |-> IF b \in free THEN m.pfree[b] ELSE Umm!Junk]
           da == [b \in Umm!Block |-> IF b \in Umm!Extent(m, a, h) /\ b - c >= kept THEN <<h, b - c + 1>>
                                  ELSE IF b \in all THEN m.data[b] ELSE Nobody]
           l == ummMem'
<1>2. Umm!Walked(m) = H
  BY <1>1, UmmWalkedIs
<1>3. /\ ummAt' = a /\ ummDenied' = <<>>
      /\ l = [next |-> ny, prev |-> py, nfree |-> nf, pfree |-> pf, data |-> da]
  <2> DEFINE heads == Umm!Walked(m)
             fr == {b \in heads : Umm!IsFree(m, b)} \union {0}
  <2>1. heads = H
    BY <1>2
  <2>2. /\ ummAt' = a /\ ummDenied' = <<>>
        /\ ummMem' = [next  |-> [b \in Umm!Block |-> IF b \in heads THEN m.next[b] ELSE Umm!Junk],
                   prev  |-> [b \in Umm!Block |-> IF b \in heads THEN m.prev[b] ELSE Umm!Junk],
                   nfree |-> [b \in Umm!Block |-> IF b \in fr THEN m.nfree[b] ELSE Umm!Junk],
                   pfree |-> [b \in Umm!Block |-> IF b \in fr THEN m.pfree[b] ELSE Umm!Junk],
                   data  |-> da]
    BY DEF Umm!Owned
  <2> HIDE DEF heads, da, a
  <2> QED BY <2>1, <2>2
<1>4. /\ m.next \in [Umm!Block -> Nat] /\ m.prev \in [Umm!Block -> Umm!Block \union {Umm!Junk}]
      /\ m.nfree \in [Umm!Block -> Umm!Block \union {Umm!Junk}] /\ m.pfree \in [Umm!Block -> Umm!Block \union {Umm!Junk}]
      /\ \A b \in H : b \in Umm!Block /\ b \in Nat /\ (Umm!IsFree(m, b) <=> b \in F)
      /\ UmmShape(m.next, m.prev, H, F, g) /\ UmmApart(F, g) /\ UmmRing(m.nfree, m.pfree, F)
      /\ F \subseteq Umm!Block /\ F \subseteq H
  <2>1. UmmShape(m.next, m.prev, H, F, g) /\ UmmApart(F, g) /\ UmmRing(m.nfree, m.pfree, F)
    BY <1>1 DEF UmmGood
  <2>2. F \subseteq H
    BY <2>1, UmmShapeIs
  <2> QED BY <1>1, <2>1, <2>2, UmmGoodIs
<1>5. free = F \union {0}
  BY <1>4
<1>6. ny \in [Umm!Block -> Nat] /\ \A b \in H : ny[b] = m.next[b]
  BY <1>4, UmmConsts
<1>7. py \in [Umm!Block -> Umm!Block \union {Umm!Junk}] /\ \A b \in H : py[b] = m.prev[b]
  BY <1>4
<1>8. /\ nf \in [Umm!Block -> Umm!Block \union {Umm!Junk}] /\ pf \in [Umm!Block -> Umm!Block \union {Umm!Junk}]
      /\ \A b \in F \union {0} : nf[b] = m.nfree[b] /\ pf[b] = m.pfree[b]
  <2> HIDE DEF free
  <2> QED BY <1>4, <1>5, UmmConsts
<1>9. ny \in [Umm!Block -> Umm!Block \union {Umm!Junk} \union {b + Umm!Mask : b \in Umm!Block}]
  <2>1. ASSUME NEW b \in H PROVE m.next[b] \in Umm!Block \union {Umm!Junk} \union {x + Umm!Mask : x \in Umm!Block}
    <3>1. CASE b = Umm!Last
      <4>1. m.next[Umm!Last] = 0
        BY <1>4, UmmShapeIs
      <4> QED BY <3>1, <4>1, UmmConsts
    <3>2. CASE b # Umm!Last
      <4>1. g[b] \in Umm!Block /\ m.next[b] = g[b] + UmmMarkOf(b, F) /\ (b \notin F => m.next[b] = g[b])
        BY <1>4, <3>2, UmmShapeIs
      <4>2. CASE b \in F
        <5>1. m.next[b] = g[b] + Umm!Mask
          BY <4>1, <4>2 DEF UmmMarkOf
        <5> QED BY <4>1, <5>1
      <4>3. CASE b \notin F
        BY <4>1, <4>3
      <4> QED BY <4>2, <4>3
    <3> QED BY <3>1, <3>2
  <2> QED BY <2>1
<1> HIDE DEF ny, py, nf, pf, da, l, a, free, all
<1>10. /\ l.next = ny /\ l.prev = py /\ l.nfree = nf /\ l.pfree = pf
       /\ l = [next |-> l.next, prev |-> l.prev, nfree |-> l.nfree, pfree |-> l.pfree, data |-> l.data]
  BY <1>3
<1>11. UmmShape(l.next, l.prev, H, F, g)
  BY <1>4, <1>6, <1>7, <1>10, UmmShapeSame
<1>12. UmmRing(l.nfree, l.pfree, F)
  BY <1>4, <1>8, <1>10, UmmRingSame
<1>13. UmmGood(l, H, F, g)
  BY <1>4, <1>6, <1>7, <1>8, <1>10, <1>11, <1>12 DEF UmmGood, UmmIsMemory
<1>14. UmmHeld(a, V)
  BY DEF a
<1>15. ASSUME NEW k \in Handle, a[k] # 0 PROVE l.next[a[k]] \in a[k] + 1 .. Umm!Last
  <2>1. a[k] \in H \ {Umm!Last} /\ a[k] \notin F
    BY <1>1, <1>14, <1>15 DEF UmmHeld
  <2>2. l.next[a[k]] = g[a[k]] /\ a[k] < g[a[k]] /\ g[a[k]] \in Umm!Block /\ a[k] \in Umm!Block
    BY <1>11, <2>1, UmmShapeIs
  <2>3. g[a[k]] \in Nat /\ a[k] \in Nat /\ g[a[k]] <= Umm!Last
    BY <2>2, UmmConsts
  <2> QED BY <2>2, <2>3, UmmConsts
<1>16. a \in [Handle -> Umm!Block \ {Umm!Last}]
  BY <1>14 DEF UmmHeld
<1>17. Umm!TypeOK'
  <2>1. ummUp' \in BOOLEAN /\ ummDenied' \in {<<>>} \union (Handle \X Nat)
    BY <1>3
  <2>2. ummAt' \in [Handle -> Umm!Block \ {Umm!Last}] /\ \A k \in Handle : ummAt'[k] # 0 => ummMem'.next[ummAt'[k]] \in ummAt'[k] + 1 .. Umm!Last
    BY <1>3, <1>15, <1>16 DEF l
  <2>3. /\ ummMem'.next \in [Umm!Block -> Umm!Block \union {Umm!Junk} \union {b + Umm!Mask : b \in Umm!Block}]
        /\ {ummMem'.prev, ummMem'.nfree, ummMem'.pfree} \subseteq [Umm!Block -> Umm!Block \union {Umm!Junk}]
    BY <1>7, <1>8, <1>9, <1>10 DEF l
  <2> QED BY <2>1, <2>2, <2>3 DEF Umm!TypeOK
<1>18. \E K, G, e : UmmGood(ummMem', K, G, e) /\ UmmHeld(ummAt', K \ G)
  BY <1>1, <1>3, <1>13, <1>14 DEF l
<1> QED BY <1>17, <1>18 DEF UmmIInv

LEMMA UmmFreshGood ==
  /\ \E g : UmmGood(Umm!Fresh, {0, 1, Umm!Last}, {1}, g)
  /\ Umm!Fresh.next \in [Umm!Block -> Umm!Block \union {Umm!Junk} \union {b + Umm!Mask : b \in Umm!Block}]
  /\ {Umm!Fresh.prev, Umm!Fresh.nfree, Umm!Fresh.pfree} \subseteq [Umm!Block -> Umm!Block \union {Umm!Junk}]
<1> DEFINE zero == [b \in Umm!Block |-> 0]
           nx == [zero EXCEPT ![0] = 1, ![1] = Umm!Last + Umm!Mask]
           pv == [zero EXCEPT ![Umm!Last] = 1]
           nf == [zero EXCEPT ![0] = 1]
           da == [b \in Umm!Block |-> Nobody]
           g == [zero EXCEPT ![0] = 1, ![1] = Umm!Last]
           r == g
           H == {0, 1, Umm!Last}
           F == {1}
           m == Umm!Fresh
<1>1. m = [next |-> nx, prev |-> pv, nfree |-> nf, pfree |-> nf, data |-> da]
  BY DEF Umm!Fresh
<1>2. 0 \in Umm!Block /\ 1 \in Umm!Block /\ Umm!Last \in Umm!Block /\ Umm!Last # 0 /\ Umm!Last # 1 /\ Umm!Last \in Nat /\ Umm!Mask \in Nat /\ 1 < Umm!Last
  BY UmmConsts
<1>3. /\ zero \in [Umm!Block -> Umm!Block] /\ \A b \in Umm!Block : zero[b] = 0
  BY <1>2
<1> HIDE DEF zero
<1>4. /\ nx \in [Umm!Block -> Nat] /\ nx[0] = 1 /\ nx[1] = Umm!Last + Umm!Mask /\ nx[Umm!Last] = 0
      /\ nx \in [Umm!Block -> Umm!Block \union {Umm!Junk} \union {b + Umm!Mask : b \in Umm!Block}]
  <2>1. Umm!Last + Umm!Mask \in {b + Umm!Mask : b \in Umm!Block} /\ Umm!Last + Umm!Mask \in Nat
    BY <1>2
  <2>2. Umm!Block \subseteq Nat
    BY UmmConsts
  <2> QED BY <1>2, <1>3, <2>1, <2>2
<1>5. /\ pv \in [Umm!Block -> Umm!Block \union {Umm!Junk}] /\ pv[Umm!Last] = 1 /\ pv[1] = 0 /\ pv[0] = 0
  BY <1>2, <1>3
<1>6. nf \in [Umm!Block -> Umm!Block \union {Umm!Junk}] /\ nf[0] = 1 /\ nf[1] = 0
  BY <1>2, <1>3
<1>7. g \in [Umm!Block -> Umm!Block] /\ g[0] = 1 /\ g[1] = Umm!Last
  BY <1>2, <1>3
<1> HIDE DEF nx, pv, nf, da, g, m
<1>8. /\ m.next = nx /\ m.prev = pv /\ m.nfree = nf /\ m.pfree = nf
      /\ m = [next |-> m.next, prev |-> m.prev, nfree |-> m.nfree, pfree |-> m.pfree, data |-> m.data]
  BY <1>1
<1>9. UmmShape(m.next, m.prev, H, F, g)
  <2>1. Tiles(H, g, 0, Umm!Last)
    <3>1. H \subseteq 0 .. Umm!Last /\ 0 \in H /\ Umm!Last \in H
      BY <1>2
    <3> QED BY <1>2, <1>7, <3>1 DEF Tiles
  <2>2. UmmMarkOf(0, F) = 0 /\ UmmMarkOf(1, F) = Umm!Mask
    BY DEF UmmMarkOf
  <2>3. \A b \in H \ {Umm!Last} : m.next[b] = g[b] + UmmMarkOf(b, F) /\ m.prev[g[b]] = b
    BY <1>2, <1>4, <1>5, <1>7, <1>8, <2>2
  <2> QED BY <1>2, <1>4, <1>7, <1>8, <2>1, <2>3 DEF UmmShape
<1>10. UmmRing(m.nfree, m.pfree, F)
  <2>1. r \in [Umm!Block -> Nat]
    BY <1>7, UmmConsts
  <2>2. r[0] = 0 \/ r[0] = 1
    BY <1>7
  <2> DEFINE s == [b \in Umm!Block |-> IF b = 1 THEN 1 ELSE 0]
  <2>3. s \in [Umm!Block -> Nat] /\ s[0] = 0 /\ s[1] = 1
    BY <1>2
  <2> HIDE DEF s
  <2>4. UmmRanks(m.nfree, F, s)
    BY <1>6, <1>8, <2>3 DEF UmmRanks
  <2> QED BY <1>6, <1>8, <2>3, <2>4 DEF UmmRing
<1>11. UmmApart(F, g)
  BY <1>2, <1>7 DEF UmmApart
<1>12. UmmGood(m, H, F, g)
  BY <1>4, <1>5, <1>6, <1>8, <1>9, <1>10, <1>11 DEF UmmGood, UmmIsMemory
<1> QED BY <1>4, <1>5, <1>6, <1>8, <1>12 DEF m

\* What a function of the allocator starts from.
LEMMA UmmNowIs ==
  ASSUME UmmIInv
  PROVE  /\ \E H, F, g : UmmGood(Umm!Now, H, F, g) /\ UmmHeld(ummAt, H \ F)
         /\ Umm!Now.next \in [Umm!Block -> Umm!Block \union {Umm!Junk} \union {b + Umm!Mask : b \in Umm!Block}]
         /\ {Umm!Now.prev, Umm!Now.nfree, Umm!Now.pfree} \subseteq [Umm!Block -> Umm!Block \union {Umm!Junk}]
         /\ \A h \in Handle : ummAt[h] # 0 => ummUp /\ Umm!Now.next[ummAt[h]] \in ummAt[h] + 1 .. Umm!Last
<1>1. CASE ummUp
  <2>1. Umm!Now = ummMem
    BY <1>1 DEF Umm!Now
  <2> QED BY <1>1, <2>1 DEF UmmIInv, Umm!TypeOK
<1>2. CASE ~ummUp
  <2>1. Umm!Now = Umm!Fresh /\ \A h \in Handle : ummAt[h] = 0
    BY <1>2 DEF Umm!Now, UmmIInv
  <2>2. UmmHeld(ummAt, {0, 1, Umm!Last} \ {1})
    BY <2>1 DEF UmmHeld, UmmIInv, Umm!TypeOK
  <2> QED BY <2>1, <2>2, UmmFreshGood
<1> QED BY <1>1, <1>2

LEMMA UmmInitSound == Umm!Init => UmmIInv
<1> SUFFICES ASSUME Umm!Init PROVE UmmIInv
  OBVIOUS
<1>1. ummUp = FALSE /\ ummDenied = <<>> /\ ummAt = [h \in Handle |-> 0]
  BY DEF Umm!Init
<1> DEFINE z == [b \in Umm!Block |-> 0]
<1>2. ummMem = [Umm!Fresh EXCEPT !.next = z, !.prev = z, !.nfree = z, !.pfree = z]
  BY DEF Umm!Init
<1>3. z \in [Umm!Block -> Umm!Block \union {Umm!Junk}]
  BY UmmConsts
<1> HIDE DEF z
<1>4. ummMem.next = z /\ ummMem.prev = z /\ ummMem.nfree = z /\ ummMem.pfree = z
  BY <1>2 DEF Umm!Fresh
<1>5. ummAt \in [Handle -> Umm!Block \ {Umm!Last}] /\ \A h \in Handle : ummAt[h] = 0
  BY <1>1, UmmConsts
<1> QED BY <1>1, <1>3, <1>4, <1>5 DEF UmmIInv, Umm!TypeOK

\* The memory is left as it is, or set up.
LEMMA UmmNowSound ==
  ASSUME UmmIInv, ummUp' = TRUE, ummMem' = Umm!Now, ummAt' = ummAt, ummDenied' \in {<<>>} \union (Handle \X Nat)
  PROVE  UmmIInv'
<1>1. PICK H, F, g : UmmGood(Umm!Now, H, F, g) /\ UmmHeld(ummAt, H \ F)
  BY UmmNowIs
<1>2. \E K, G, e : UmmGood(ummMem', K, G, e) /\ UmmHeld(ummAt', K \ G)
  BY <1>1
<1>3. /\ Umm!Now.next \in [Umm!Block -> Umm!Block \union {Umm!Junk} \union {b + Umm!Mask : b \in Umm!Block}]
      /\ {Umm!Now.prev, Umm!Now.nfree, Umm!Now.pfree} \subseteq [Umm!Block -> Umm!Block \union {Umm!Junk}]
      /\ \A h \in Handle : ummAt[h] # 0 => Umm!Now.next[ummAt[h]] \in ummAt[h] + 1 .. Umm!Last
  BY UmmNowIs
<1>4. ummAt \in [Handle -> Umm!Block \ {Umm!Last}]
  BY DEF UmmIInv, Umm!TypeOK
<1>5. Umm!TypeOK'
  BY <1>3, <1>4 DEF Umm!TypeOK
<1> QED BY <1>2, <1>5 DEF UmmIInv

\* Client h has block c of V from now on, or none.
LEMMA UmmHeldMove ==
  ASSUME NEW U, UmmHeld(ummAt, U), NEW h \in Handle, NEW c \in Umm!Block \ {Umm!Last}, NEW V, U \ {ummAt[h]} \subseteq V,
         c # 0 => c \in V /\ \A k \in Handle : k # h => ummAt[k] # c
  PROVE  UmmHeld([ummAt EXCEPT ![h] = c], V)
<1> DEFINE a == [ummAt EXCEPT ![h] = c]
<1>1. /\ ummAt \in [Handle -> Umm!Block \ {Umm!Last}]
      /\ \A k \in Handle : ummAt[k] # 0 => /\ ummAt[k] \in U \ {0, Umm!Last}
                                           /\ \A j \in Handle : j # k => ummAt[j] # ummAt[k]
  BY DEF UmmHeld
<1>2. a \in [Handle -> Umm!Block \ {Umm!Last}] /\ a[h] = c /\ \A k \in Handle : k # h => a[k] = ummAt[k]
  BY <1>1
<1> HIDE DEF a
<1>3. ASSUME NEW k \in Handle, a[k] # 0
      PROVE  a[k] \in V \ {0, Umm!Last} /\ \A j \in Handle : j # k => a[j] # a[k]
  <2>1. CASE k = h
    BY <1>2, <1>3, <2>1
  <2>2. CASE k # h
    <3>1. a[k] = ummAt[k] /\ ummAt[k] # 0 /\ ummAt[k] \in U \ {0, Umm!Last} /\ ummAt[k] # ummAt[h]
      BY <1>1, <1>2, <1>3, <2>2
    <3>2. \A j \in Handle : j # k => a[j] # a[k]
      BY <1>1, <1>2, <2>2, <3>1
    <3> QED BY <3>1, <3>2
  <2> QED BY <2>1, <2>2
<1>4. UmmHeld(a, V)
  BY <1>2, <1>3 DEF UmmHeld
<1> QED BY <1>4 DEF a

\* The free list ends somewhere.
LEMMA UmmLastOne ==
  ASSUME NEW m, Umm!FreeList(m) # {}
  PROVE  \E e \in Umm!FreeList(m) : \A f \in Umm!FreeList(m) : f[2] <= e[2]
<1>1. PICK w : Umm!FreeList(m) = {e \in {<<w[i], i>> : i \in 1 .. NumBlocks} : e[1] # 0}
  BY DEF Umm!FreeList
<1> DEFINE At == {i \in 1 .. NumBlocks : w[i] # 0}
           D == {NumBlocks - i : i \in At}
<1>2. NumBlocks \in Nat
  BY UmmConsts
<1>3. D \in SUBSET Nat /\ D # {}
  BY <1>1, <1>2
<1>4. PICK k \in D : \A l \in D : k <= l
  <2> HIDE DEF D
  <2> QED BY <1>3, Least
<1>5. PICK i \in At : k = NumBlocks - i
  BY <1>4
<1>6. ASSUME NEW j \in At PROVE j <= i
  <2>1. k <= NumBlocks - j
    BY <1>4
  <2> QED BY <2>1, <1>2, <1>5
<1>7. <<w[i], i>> \in Umm!FreeList(m)
  BY <1>1
<1>8. ASSUME NEW f \in Umm!FreeList(m) PROVE f[2] <= i
  <2>1. PICK j \in 1 .. NumBlocks : f = <<w[j], j>> /\ w[j] # 0
    BY <1>1
  <2> QED BY <2>1, <1>6
<1> QED BY <1>7, <1>8

\* No block fits by the header of one and the size of another.
LEMMA UmmBestFitsIs ==
  ASSUME NEW m, NEW H, NEW F, NEW g, UmmGood(m, H, F, g), NEW n \in Nat, 0 < n,
         NEW c \in Umm!BestFits(m, n)
  PROVE  c \in F /\ Umm!SizeOf(m, c) >= n
<1> DEFINE fits == {e \in Umm!FreeList(m) : Umm!SizeOf(m, e[1]) >= n}
<1>1. fits # {}
  <2> SUFFICES ASSUME fits = {}, Umm!LastSize(m) >= n PROVE FALSE
    BY DEF Umm!BestFits
  <2>1. CASE Umm!FreeList(m) = {}
    BY <2>1 DEF Umm!LastSize
  <2>2. CASE Umm!FreeList(m) # {}
    <3> DEFINE last == CHOOSE e \in Umm!FreeList(m) : \A f \in Umm!FreeList(m) : f[2] <= e[2]
    <3>1. last \in Umm!FreeList(m)
      BY <2>2, UmmLastOne
    <3>2. Umm!LastSize(m) = Umm!SizeOf(m, last[1])
      BY <2>2 DEF Umm!LastSize
    <3> HIDE DEF last
    <3> QED BY <3>1, <3>2
  <2> QED BY <2>1, <2>2
<1>2. PICK e \in Umm!FreeList(m) : e[1] = c /\ Umm!SizeOf(m, e[1]) >= n
  BY <1>1 DEF Umm!BestFits
<1>3. c \in {d[1] : d \in Umm!FreeList(m)}
  BY <1>2
<1> QED BY <1>2, <1>3, UmmFreeListIs

LEMMA UmmBlocksNat ==
  ASSUME NEW size \in Nat
  PROVE  Umm!Blocks(size) \in Nat
<1>1. CASE size <= 4
  BY <1>1 DEF Umm!Blocks
<1>2. CASE ~(size <= 4)
  <2>1. size - 5 \in Nat
    BY <1>2
  <2>2. (size - 5) \div 8 \in Nat
    BY <2>1
  <2>3. Umm!Blocks(size) = (2 + (size - 5) \div 8) % 65536
    BY <1>2 DEF Umm!Blocks
  <2> DEFINE x == (size - 5) \div 8
  <2>4. x \in Nat
    BY <2>2
  <2> HIDE DEF x
  <2>5. (2 + x) % 65536 \in Nat
    BY <2>4
  <2> QED BY <2>3, <2>5 DEF x
<1> QED BY <1>1, <1>2

LEMMA UmmMallocSound ==
  ASSUME UmmIInv, NEW h \in Handle, NEW size \in Nat, Umm!Blocks(size) > 0, Umm!Malloc(h, size)
  PROVE  UmmIInv'
<1> DEFINE n == Umm!Blocks(size)
<1>1. n \in Nat /\ 0 < n
  BY UmmBlocksNat
<1>2. ummAt[h] = 0 /\ ummUp' = TRUE
  BY DEF Umm!Malloc
<1>3. CASE Umm!BestFits(Umm!Now, n) = {}
  <2>1. ummMem' = Umm!Now /\ ummDenied' = <<h, n>> /\ ummAt' = ummAt
    BY <1>3 DEF Umm!Malloc
  <2>2. ummDenied' \in {<<>>} \union (Handle \X Nat)
    BY <1>1, <2>1
  <2> QED BY <1>2, <2>1, <2>2, UmmNowSound
<1>4. CASE Umm!BestFits(Umm!Now, n) # {}
  <2>1. PICK c \in Umm!BestFits(Umm!Now, n) : Umm!Owned(Umm!Take(Umm!Now, c, n), h, c, 0)
    BY <1>4 DEF Umm!Malloc
  <2> HIDE DEF n
  <2>2. PICK H, F, g : UmmGood(Umm!Now, H, F, g) /\ UmmHeld(ummAt, H \ F)
    BY UmmNowIs
  <2>3. c \in F /\ Umm!SizeOf(Umm!Now, c) >= n
    BY <1>1, <2>1, <2>2, UmmBestFitsIs
  <2>4. UmmYields(Umm!Take(Umm!Now, c, n), (H \ F) \union {c})
    BY <1>1, <2>2, <2>3, UmmTakeGood
  <2>5. c \in Umm!Block \ {Umm!Last}
    <3>1. UmmShape(Umm!Now.next, Umm!Now.prev, H, F, g)
      BY <2>2 DEF UmmGood
    <3> QED BY <2>3, <3>1, UmmShapeIs
  <2>6. \A k \in Handle : ummAt[k] # c
    <3>1. c # 0 /\ c \notin H \ F
      BY <2>2, <2>3, UmmGoodIs
    <3> QED BY <2>2, <3>1 DEF UmmHeld
  <2> DEFINE V == (H \ F) \union {c}
             U == H \ F
  <2>7. U \ {ummAt[h]} \subseteq V /\ c \in V
    OBVIOUS
  <2> HIDE DEF U, V
  <2>8. UmmHeld([ummAt EXCEPT ![h] = c], V)
    BY <2>2, <2>5, <2>6, <2>7, UmmHeldMove DEF U
  <2> QED BY <1>2, <2>1, <2>4, <2>5, <2>8, UmmOwnedSound DEF V
<1> QED BY <1>3, <1>4

LEMMA UmmFreeSound ==
  ASSUME UmmIInv, NEW h \in Handle, Umm!Free(h)
  PROVE  UmmIInv'
<1>1. ummAt[h] # 0 /\ Umm!Owned(Umm!FreeCore(ummMem, ummAt[h]), h, 0, 0) /\ ummUp' = ummUp
  BY DEF Umm!Free
<1>2. ummUp /\ Umm!Now = ummMem
  BY <1>1, UmmNowIs DEF Umm!Now
<1>3. PICK H, F, g : UmmGood(ummMem, H, F, g) /\ UmmHeld(ummAt, H \ F)
  BY <1>2 DEF UmmIInv
<1>4. ummAt[h] \in H /\ ummAt[h] \notin F /\ ummAt[h] # 0 /\ ummAt[h] # Umm!Last
  BY <1>1, <1>3 DEF UmmHeld
<1> DEFINE U == H \ F
           V == U \ {ummAt[h]}
<1>5. UmmYields(Umm!FreeCore(ummMem, ummAt[h]), V)
  BY <1>3, <1>4, UmmFreeCoreGood
<1>6. 0 \in Umm!Block \ {Umm!Last} /\ U \ {ummAt[h]} \subseteq V
  BY UmmConsts
<1> HIDE DEF U, V
<1>7. UmmHeld([ummAt EXCEPT ![h] = 0], V)
  BY <1>3, <1>6, UmmHeldMove DEF U
<1>8. ummUp' = TRUE /\ 0 \in Umm!Block
  BY <1>1, <1>2, <1>6 DEF UmmIInv, Umm!TypeOK
<1> QED BY <1>1, <1>5, <1>7, <1>8, UmmOwnedSound
-----------------------------------------------------------------------------
(* umm_realloc. *)

\* What the cases of umm_realloc find.
UmmFound(h, H, F, g) ==
  /\ ummUp /\ UmmGood(ummMem, H, F, g) /\ UmmHeld(ummAt, H \ F)
  /\ ummAt[h] \in H /\ ummAt[h] \notin F /\ ummAt[h] # 0 /\ ummAt[h] # Umm!Last

LEMMA UmmFoundIs ==
  ASSUME NEW h, NEW H, NEW F, NEW g, UmmFound(h, H, F, g)
  PROVE  LET a == ummAt[h]
             p == ummMem.prev[a]
         IN  /\ a \in Nat /\ g[a] \in Nat /\ g[g[a]] \in Nat /\ a < g[a] /\ p \in H /\ p \in Nat /\ g[p] = a /\ p # Umm!Last
             /\ ummMem.next[a] = g[a] /\ Umm!Own(h) = g[a] - a
             /\ Umm!NextSize(h) = (IF g[a] \in F THEN g[g[a]] - g[a] ELSE 0)
             /\ Umm!PrevSize(h) = (IF p \in F THEN a - p ELSE 0) /\ p < a
             /\ g[a] \in F => g[a] < g[g[a]]
<1> DEFINE a == ummAt[h]
           p == ummMem.prev[a]
           n == ummMem.next[a]
<1>1. UmmGood(ummMem, H, F, g) /\ a \in H /\ a \notin F /\ a # 0 /\ a # Umm!Last
  BY DEF UmmFound
<1>2. UmmShape(ummMem.next, ummMem.prev, H, F, g)
  BY <1>1 DEF UmmGood
<1> HIDE DEF a
<1>3. /\ \A x \in H \ {Umm!Last} : /\ g[x] \in H /\ g[x] \in Umm!Block /\ x \in Umm!Block /\ x < g[x]
                                   /\ Umm!NoMask(ummMem.next[x]) = g[x] /\ (x \notin F => ummMem.next[x] = g[x])
      /\ F \subseteq H /\ Umm!Last \notin F /\ g \in [Umm!Block -> Umm!Block]
  BY <1>2, UmmShapeIs
<1>4. p \in H \ {Umm!Last} /\ p < a /\ g[p] = a /\ p \in Umm!Block
  BY <1>1, <1>2, UmmPrevIs
<1>5. n = g[a] /\ g[a] \in H /\ a \in Nat /\ g[a] \in Nat /\ p \in Nat /\ g[g[a]] \in Nat /\ a < g[a]
  BY <1>1, <1>3, <1>4, UmmConsts
<1>6. (Umm!IsFree(ummMem, n) <=> n \in F) /\ (Umm!IsFree(ummMem, p) <=> p \in F)
  BY <1>1, <1>4, <1>5, UmmGoodIs
<1>7. Umm!NextSize(h) = IF g[a] \in F THEN g[g[a]] - g[a] ELSE 0
  <2>1. Umm!NextSize(h) = IF Umm!IsFree(ummMem, n) THEN Umm!SizeOf(ummMem, n) ELSE 0
    BY DEF Umm!NextSize, a
  <2>2. n \in F => Umm!SizeOf(ummMem, n) = g[n] - n
    BY <1>3 DEF Umm!SizeOf
  <2> QED BY <1>5, <1>6, <2>1, <2>2
<1>8. Umm!PrevSize(h) = IF p \in F THEN a - p ELSE 0
  BY <1>6 DEF Umm!PrevSize, a
<1>9. Umm!Own(h) = g[a] - a
  BY <1>5 DEF Umm!Own, a
<1>10. g[a] \in F => g[a] < g[g[a]]
  BY <1>3
<1> QED BY <1>4, <1>5, <1>7, <1>8, <1>9, <1>10 DEF a

LEMMA UmmKeepSound ==
  ASSUME NEW h \in Handle, NEW H, NEW F, NEW g, UmmFound(h, H, F, g), ummUp' = ummUp, ummUp \in BOOLEAN,
         NEW m, NEW V, UmmYields(m, V), (H \ F) \ {ummAt[h]} \subseteq V,
         NEW c \in V, c = ummAt[h] \/ c \in F, NEW kept, Umm!Owned(m, h, c, kept)
  PROVE  UmmIInv'
<1> DEFINE U == H \ F
<1>1. UmmHeld(ummAt, U) /\ UmmGood(ummMem, H, F, g) /\ ummUp
  BY DEF UmmFound
<1>2. c # 0 /\ c # Umm!Last /\ c \in Umm!Block
  <2>1. UmmShape(ummMem.next, ummMem.prev, H, F, g)
    BY <1>1 DEF UmmGood
  <2>2. H \subseteq Umm!Block /\ F \subseteq H /\ 0 \notin F /\ Umm!Last \notin F
    BY <2>1, UmmShapeIs
  <2> QED BY <2>2 DEF UmmFound
<1>3. \A k \in Handle : k # h => ummAt[k] # c
  <2>1. CASE c = ummAt[h]
    BY <1>1, <1>2, <2>1 DEF UmmHeld
  <2>2. CASE c \in F
    BY <1>1, <1>2, <2>2 DEF UmmHeld
  <2> QED BY <2>1, <2>2
<1>4. U \ {ummAt[h]} \subseteq V
  OBVIOUS
<1> HIDE DEF U
<1>5. UmmHeld([ummAt EXCEPT ![h] = c], V)
  BY <1>1, <1>2, <1>3, <1>4, UmmHeldMove
<1>6. ummUp' = TRUE
  BY <1>1
<1> QED BY <1>2, <1>5, <1>6, UmmOwnedSound

LEMMA UmmInPlaceSound ==
  ASSUME NEW h \in Handle, NEW H, NEW F, NEW g, UmmFound(h, H, F, g), ummUp' = ummUp, ummUp \in BOOLEAN,
         NEW n \in Nat, 0 < n, Umm!ReallocInPlace(h, n)
  PROVE  UmmIInv'
<1> DEFINE a == ummAt[h]
           m == Umm!Trim(ummMem, a, Umm!Own(h), n)
<1>1. UmmGood(ummMem, H, F, g) /\ a \in H /\ a \notin F /\ a # Umm!Last
  BY DEF UmmFound
<1>2. Umm!Own(h) = g[a] - a
  BY UmmFoundIs
<1>3. Umm!Owned(m, h, a, n)
  BY DEF Umm!ReallocInPlace
<1> HIDE DEF a
<1>4. UmmYields(m, H \ F)
  BY <1>1, <1>2, UmmTrimYields
<1>5. (H \ F) \ {ummAt[h]} \subseteq H \ F /\ a \in H \ F /\ a = ummAt[h]
  BY <1>1 DEF a
<1> HIDE DEF m
<1> QED BY <1>3, <1>4, <1>5, UmmKeepSound

LEMMA UmmUpSound ==
  ASSUME NEW h \in Handle, NEW H, NEW F, NEW g, UmmFound(h, H, F, g), ummUp' = ummUp, ummUp \in BOOLEAN,
         NEW n \in Nat, 0 < n, Umm!ReallocUp(h, n)
  PROVE  UmmIInv'
<1> DEFINE a == ummAt[h]
           u == Umm!AssimilateUp(ummMem, a)
           size == Umm!Own(h) + Umm!NextSize(h)
           m == Umm!Trim(u, a, size, n)
           K == H \ (F \intersect {g[a]})
           G == F \ {g[a]}
<1>1. UmmGood(ummMem, H, F, g) /\ a \in H /\ a \notin F /\ a # Umm!Last
  BY DEF UmmFound
<1>2. /\ Umm!Own(h) = g[a] - a /\ Umm!NextSize(h) = IF g[a] \in F THEN g[g[a]] - g[a] ELSE 0
      /\ a \in Nat /\ g[a] \in Nat /\ g[g[a]] \in Nat
  BY UmmFoundIs
<1>3. Umm!Owned(m, h, a, Umm!Own(h))
  BY DEF Umm!ReallocUp
<1> HIDE DEF a
<1>4. PICK e : UmmGood(u, K, G, e) /\ e[a] = IF g[a] \in F THEN g[g[a]] ELSE g[a]
  <2>1. UmmUp(u, ummMem, H, F, g, a)
    BY <1>1, UmmAssimilateUpGood
  <2> HIDE DEF u
  <2> QED BY <2>1 DEF UmmUp
<1>5. size = e[a] - a
  BY <1>2, <1>4
<1>6. a \in K /\ a \notin G /\ K \ G = H \ F
  BY <1>1, <1>2, UmmFoundIs DEF a
<1> HIDE DEF u, size, K, G
<1>7. UmmYields(m, K \ G)
  BY <1>1, <1>4, <1>5, <1>6, UmmTrimYields
<1>8. (H \ F) \ {ummAt[h]} \subseteq K \ G /\ a \in K \ G /\ a = ummAt[h]
  BY <1>6 DEF a
<1> HIDE DEF m
<1> QED BY <1>3, <1>7, <1>8, UmmKeepSound

\* The block is moved down into the free one before it, in the memory m.
LEMMA UmmDownSound ==
  ASSUME NEW h \in Handle, NEW H, NEW F, NEW g, UmmFound(h, H, F, g), ummUp' = ummUp, ummUp \in BOOLEAN,
         NEW n \in Nat, 0 < n, NEW m, NEW K, NEW G, NEW e, UmmGood(m, K, G, e),
         K \ G = H \ F, G \subseteq F, ummAt[h] \in K, m.prev[ummAt[h]] \in G,
         NEW size, size = e[ummAt[h]] - m.prev[ummAt[h]], Umm!Down(m, h, size, n)
  PROVE  UmmIInv'
<1> DEFINE a == ummAt[h]
           c == m.prev[a]
           d0 == Umm!Disconnect(m, c)
           d == Umm!AssimilateDown(d0, a, 0)
           y == Umm!Copy(d, a, c, Umm!Own(h))
           t == Umm!Trim(y, c, size, n)
           L == K \ {a}
           I == G \ {c}
           f == [e EXCEPT ![c] = e[a]]
           V == L \ I
<1>1. Umm!Owned(t, h, c, Umm!Own(h))
  BY DEF Umm!Down
<1>2. a \in K /\ a \notin G /\ a # 0 /\ a # Umm!Last /\ a \notin F
  BY DEF UmmFound
<1>3. UmmShape(m.next, m.prev, K, G, e) /\ UmmApart(G, e)
  BY DEF UmmGood
<1>4. c \in K /\ c # Umm!Last /\ e[c] = a /\ c \in G /\ c # a
  BY <1>2, <1>3, UmmPrevIs
<1>5. UmmGood(d0, K, I, e) /\ d0.prev = m.prev
  BY <1>4, UmmDisconnectGood
<1>6. c = d0.prev[a] /\ 0 = UmmMarkOf(c, I) /\ c \notin I /\ a \notin I
  BY <1>2, <1>5 DEF UmmMarkOf
<1> HIDE DEF a, c, d0, I
<1>7. UmmGood(d, L, I, f) /\ f[c] = e[a]
  <2>1. /\ UmmGood(d0, K, I, e) /\ a \in K /\ a \notin I /\ a # 0 /\ a # Umm!Last
        /\ c = d0.prev[a] /\ 0 = UmmMarkOf(c, I) /\ c \notin I
    BY ONLY <1>2, <1>5, <1>6
  <2>2. /\ UmmGood(Umm!AssimilateDown(d0, a, 0), K \ {a}, I, [e EXCEPT ![c] = e[a]])
        /\ [e EXCEPT ![c] = e[a]][c] = e[a]
    BY ONLY <2>1, UmmAssimilateDownGood, SMTT(30)
  <2> QED BY ONLY <2>2
<1> HIDE DEF d, f, L
<1>8. UmmGood(y, L, I, f)
  BY <1>7, UmmCopyGood
<1>9. c \in L /\ c \notin I
  BY <1>4, <1>6 DEF L
<1>10. size = f[c] - c
  BY <1>7 DEF a, c
<1> HIDE DEF y
<1>11. UmmYields(t, V)
  BY <1>4, <1>8, <1>9, <1>10, UmmTrimYields
<1>12. (H \ F) \ {ummAt[h]} \subseteq V /\ c \in V /\ c \in F
  BY <1>4, <1>9 DEF L, I, a
<1> HIDE DEF t, V
<1> QED BY <1>1, <1>11, <1>12, UmmKeepSound

LEMMA UmmReallocDownSound ==
  ASSUME NEW h \in Handle, NEW H, NEW F, NEW g, UmmFound(h, H, F, g), ummUp' = ummUp, ummUp \in BOOLEAN,
         NEW n \in Nat, 0 < n, Umm!ReallocDown(h, n)
  PROVE  UmmIInv'
<1> DEFINE a == ummAt[h]
           p == ummMem.prev[a]
<1>1. UmmGood(ummMem, H, F, g) /\ a \in H
  BY DEF UmmFound
<1>2. /\ Umm!Own(h) = g[a] - a /\ Umm!NextSize(h) = (IF g[a] \in F THEN g[g[a]] - g[a] ELSE 0)
      /\ Umm!PrevSize(h) = (IF p \in F THEN a - p ELSE 0)
      /\ a \in Nat /\ g[a] \in Nat /\ g[g[a]] \in Nat /\ p \in Nat
      /\ (g[a] \in F => g[a] < g[g[a]])
  BY UmmFoundIs
<1>3. /\ Umm!Own(h) < n /\ Umm!PrevSize(h) + Umm!Own(h) >= n
      /\ Umm!Down(ummMem, h, Umm!PrevSize(h) + Umm!Own(h), n)
  BY DEF Umm!ReallocDown
<1> HIDE DEF a, p
<1>4. p \in F
  BY <1>2, <1>3
<1> DEFINE size == Umm!PrevSize(h) + Umm!Own(h)
<1>5. size = g[a] - p
  BY <1>2, <1>4
<1>6. Umm!Down(ummMem, h, size, n)
  BY <1>3
<1> HIDE DEF size
<1>7. size = g[ummAt[h]] - ummMem.prev[ummAt[h]] /\ ummMem.prev[ummAt[h]] \in F /\ ummAt[h] \in H /\ F \subseteq F /\ H \ F = H \ F
  BY <1>1, <1>4, <1>5 DEF a, p
<1> QED BY <1>1, <1>6, <1>7, UmmDownSound

LEMMA UmmReallocBothSound ==
  ASSUME NEW h \in Handle, NEW H, NEW F, NEW g, UmmFound(h, H, F, g), ummUp' = ummUp, ummUp \in BOOLEAN,
         NEW n \in Nat, 0 < n, Umm!ReallocBoth(h, n)
  PROVE  UmmIInv'
<1> DEFINE a == ummAt[h]
           p == ummMem.prev[a]
           u == Umm!AssimilateUp(ummMem, a)
           K == H \ (F \intersect {g[a]})
           G == F \ {g[a]}
           size == Umm!PrevSize(h) + Umm!Own(h) + Umm!NextSize(h)
<1>1. UmmGood(ummMem, H, F, g) /\ a \in H /\ a \notin F /\ a # Umm!Last
  BY DEF UmmFound
<1>2. /\ Umm!Own(h) = g[a] - a /\ Umm!NextSize(h) = (IF g[a] \in F THEN g[g[a]] - g[a] ELSE 0)
      /\ Umm!PrevSize(h) = (IF p \in F THEN a - p ELSE 0) /\ p < a /\ a < g[a]
      /\ a \in Nat /\ g[a] \in Nat /\ g[g[a]] \in Nat /\ p \in Nat
  BY UmmFoundIs
<1>3. /\ ~Umm!GrowsUp(h, n) /\ Umm!PrevSize(h) + Umm!Own(h) + Umm!NextSize(h) >= n
      /\ Umm!Down(u, h, size, n)
  BY DEF Umm!ReallocBoth
<1> HIDE DEF a, p
<1>4. p \in F
  <2>1. Umm!PrevSize(h) # 0
    <3>1. SUFFICES ASSUME Umm!PrevSize(h) = 0 PROVE FALSE
      OBVIOUS
    <3>2. Umm!Own(h) + Umm!NextSize(h) >= n
      BY <1>2, <1>3, <3>1
    <3> QED BY <1>3, <3>1, <3>2 DEF Umm!GrowsUp
  <2> QED BY <1>2, <2>1
<1>5. PICK e : /\ UmmGood(u, K, G, e) /\ e[a] = (IF g[a] \in F THEN g[g[a]] ELSE g[a])
               /\ u.prev[a] = ummMem.prev[a]
  <2>1. UmmUp(u, ummMem, H, F, g, a)
    BY <1>1, UmmAssimilateUpGood
  <2> HIDE DEF u
  <2> QED BY <2>1 DEF UmmUp
<1>6. size = e[a] - p
  BY <1>2, <1>4, <1>5
<1>7. a \in K /\ K \ G = H \ F /\ p \in G /\ G \subseteq F
  BY <1>1, <1>2, <1>4
<1> HIDE DEF u, K, G, size
<1>8. size = e[ummAt[h]] - u.prev[ummAt[h]] /\ u.prev[ummAt[h]] \in G /\ ummAt[h] \in K
  BY <1>5, <1>6, <1>7 DEF a, p
<1> QED BY <1>3, <1>5, <1>7, <1>8, UmmDownSound

LEMMA UmmReallocMoveSound ==
  ASSUME UmmIInv, NEW h \in Handle, NEW H, NEW F, NEW g, UmmFound(h, H, F, g), ummUp' = ummUp,
         NEW n \in Nat, 0 < n, Umm!ReallocMove(h, n)
  PROVE  UmmIInv'
<1>1. UmmGood(ummMem, H, F, g) /\ ummUp /\ ummAt[h] \in H \ F /\ ummAt[h] # 0 /\ ummAt[h] # Umm!Last
  BY DEF UmmFound
<1>2. CASE Umm!BestFits(ummMem, n) = {}
  <2>1. ummMem' = ummMem /\ ummDenied' = <<h, n>> /\ ummAt' = ummAt
    BY <1>2 DEF Umm!ReallocMove
  <2>2. ummMem' = Umm!Now /\ ummDenied' \in {<<>>} \union (Handle \X Nat)
    BY <1>1, <2>1 DEF Umm!Now
  <2>3. ummUp' = TRUE
    BY <1>1 DEF UmmIInv, Umm!TypeOK
  <2> QED BY <2>1, <2>2, <2>3, UmmNowSound
<1>3. CASE Umm!BestFits(ummMem, n) # {}
  <2>1. PICK c \in Umm!BestFits(ummMem, n) :
          Umm!Owned(Umm!FreeCore(Umm!Copy(Umm!Take(ummMem, c, n), ummAt[h], c, Umm!Own(h)), ummAt[h]), h, c, Umm!Own(h))
    BY <1>3 DEF Umm!ReallocMove
  <2>2. c \in F /\ Umm!SizeOf(ummMem, c) >= n
    BY <1>1, <2>1, UmmBestFitsIs
  <2>3. UmmYields(Umm!Take(ummMem, c, n), (H \ F) \union {c})
    BY <1>1, <2>2, UmmTakeGood
  <2> DEFINE t == Umm!Take(ummMem, c, n)
             a == ummAt[h]
             y == Umm!Copy(t, a, c, Umm!Own(h))
             z == Umm!FreeCore(y, a)
  <2>4. PICK K, G, e : UmmGood(t, K, G, e) /\ K \ G = (H \ F) \union {c}
    <3> HIDE DEF t
    <3>1. UmmYields(t, (H \ F) \union {c})
      BY <2>3 DEF t
    <3> QED BY <3>1 DEF UmmYields
  <2>5. Umm!Owned(z, h, c, Umm!Own(h))
    BY <2>1
  <2>6. a \in K /\ a \notin G /\ a # 0 /\ a # Umm!Last
    BY <1>1, <2>4
  <2> HIDE DEF t, a
  <2>7. UmmGood(y, K, G, e)
    BY <2>4, UmmCopyGood
  <2> HIDE DEF y
  <2> DEFINE V == (K \ G) \ {a}
  <2>8. UmmYields(z, V)
    BY <2>6, <2>7, UmmFreeCoreGood
  <2>9. (H \ F) \ {ummAt[h]} \subseteq V /\ c \in V
    BY <1>1, <2>2, <2>4 DEF a
  <2> HIDE DEF z, V
  <2>10. ummUp \in BOOLEAN
    BY DEF UmmIInv, Umm!TypeOK
  <2> QED BY <2>2, <2>5, <2>8, <2>9, <2>10, UmmKeepSound
<1> QED BY <1>2, <1>3

LEMMA UmmReallocSound ==
  ASSUME UmmIInv, NEW h \in Handle, NEW size \in Nat, Umm!Blocks(size) > 0, Umm!Realloc(h, size)
  PROVE  UmmIInv'
<1> DEFINE n == Umm!Blocks(size)
<1>1. n \in Nat /\ 0 < n
  BY UmmBlocksNat
<1>2. /\ ummAt[h] # 0 /\ ummUp' = ummUp
      /\ \/ Umm!ReallocInPlace(h, n) \/ Umm!ReallocUp(h, n) \/ Umm!ReallocDown(h, n)
         \/ Umm!ReallocBoth(h, n) \/ Umm!ReallocMove(h, n)
  BY DEF Umm!Realloc
<1> HIDE DEF n
<1>3. ummUp /\ ummUp \in BOOLEAN
  BY <1>2 DEF UmmIInv, Umm!TypeOK
<1>4. PICK H, F, g : UmmGood(ummMem, H, F, g) /\ UmmHeld(ummAt, H \ F)
  BY <1>3 DEF UmmIInv
<1>5. UmmFound(h, H, F, g)
  BY <1>2, <1>3, <1>4 DEF UmmFound, UmmHeld
<1> QED BY <1>1, <1>2, <1>3, <1>5, UmmInPlaceSound, UmmUpSound, UmmReallocDownSound, UmmReallocBothSound, UmmReallocMoveSound

LEMMA UmmInductive == UmmIInv /\ [Umm!Next]_Umm!vars => UmmIInv'
<1> SUFFICES ASSUME UmmIInv, [Umm!Next]_Umm!vars PROVE UmmIInv'
  OBVIOUS
<1>1. CASE UNCHANGED Umm!vars
  <2>1. ummUp' = ummUp /\ ummMem' = ummMem /\ ummAt' = ummAt /\ ummDenied' = ummDenied
    BY <1>1 DEF Umm!vars
  <2> QED BY <2>1 DEF UmmIInv, Umm!TypeOK
<1>2. CASE Umm!Nothing
  BY <1>2, UmmNowSound DEF Umm!Nothing
<1>3. ASSUME NEW h \in Handle, Umm!Free(h) PROVE UmmIInv'
  BY <1>3, UmmFreeSound
<1>4. ASSUME NEW h \in Handle, NEW size \in UmmSizes, Umm!Malloc(h, size) \/ Umm!Realloc(h, size) PROVE UmmIInv'
  <2>1. size \in Nat /\ Umm!Blocks(size) > 0
    BY UmmBounds
  <2> QED BY <1>4, <2>1, UmmMallocSound, UmmReallocSound
<1>5. ASSUME NEW h \in Handle, NEW size \in UmmSizes, NEW num \in Nums, Umm!Calloc(h, num, size) PROVE UmmIInv'
  <2>1. num \in Nat /\ size \in Nat
    BY UmmBounds
  <2> DEFINE s == num * size
  <2>2. s \in Nat
    BY ONLY <2>1
  <2>3. Umm!Blocks(s) > 0
    BY UmmBounds
  <2> HIDE DEF s
  <2>4. Umm!Malloc(h, s)
    BY <1>5 DEF Umm!Calloc, s
  <2> QED BY <2>2, <2>3, <2>4, UmmMallocSound
<1> QED BY <1>1, <1>2, <1>3, <1>4, <1>5 DEF Umm!Next

LEMMA UmmInvariance == Umm!Spec => []UmmIInv
BY UmmInitSound, UmmInductive, PTL DEF Umm!Spec


LEMMA UmmIntegritySound == UmmIInv => Umm!Integrity /\ Umm!Coalesced
<1> SUFFICES ASSUME UmmIInv, ummUp PROVE Umm!Integrity /\ Umm!Coalesced
  BY DEF Umm!Integrity, Umm!Coalesced
<1>1. PICK H, F, g : UmmGood(ummMem, H, F, g)
  BY DEF UmmIInv
<1>2. Umm!Walked(ummMem) = H /\ {e[1] : e \in Umm!FreeList(ummMem)} = F
  BY <1>1, UmmWalkedIs, UmmFreeListIs
<1>3. \A b \in H : Umm!IsFree(ummMem, b) <=> b \in F
  BY <1>1, UmmGoodIs
<1>4. UmmShape(ummMem.next, ummMem.prev, H, F, g) /\ UmmApart(F, g) /\ UmmRing(ummMem.nfree, ummMem.pfree, F)
  BY <1>1 DEF UmmGood
<1>5. /\ F \subseteq H /\ Umm!Last \in H /\ Umm!Last \notin F
      /\ \A b \in H \ {Umm!Last} : /\ Umm!NoMask(ummMem.next[b]) = g[b] /\ g[b] \in Umm!Block /\ g[b] \in H
                                   /\ b < g[b] /\ ummMem.prev[g[b]] = b /\ b \in Umm!Block
  BY <1>4, UmmShapeIs
<1>6. \A b \in F \union {0} : ummMem.nfree[b] \in Umm!Block /\ ummMem.pfree[ummMem.nfree[b]] = b
  BY <1>1, <1>4, UmmGoodIs, UmmRingIs
<1>7. ASSUME NEW b \in H \ {Umm!Last}
      PROVE  LET n == Umm!NoMask(ummMem.next[b]) IN n \in Umm!Block /\ n > b /\ ummMem.prev[n] = b
  <2>1. Umm!NoMask(ummMem.next[b]) = g[b] /\ g[b] \in Umm!Block /\ b < g[b] /\ ummMem.prev[g[b]] = b /\ b \in Umm!Block
    BY <1>5
  <2>2. g[b] > b
    BY <2>1, UmmConsts
  <2> QED BY <2>1, <2>2
<1>8. Umm!Integrity
  BY <1>2, <1>3, <1>5, <1>6, <1>7 DEF Umm!Integrity
<1>9. ASSUME NEW b \in H, Umm!IsFree(ummMem, b) PROVE ~Umm!IsFree(ummMem, Umm!NoMask(ummMem.next[b]))
  <2>1. b \in F /\ b \in H \ {Umm!Last}
    BY <1>3, <1>5, <1>9
  <2>2. g[b] \in H /\ g[b] \notin F /\ Umm!NoMask(ummMem.next[b]) = g[b]
    BY <1>4, <1>5, <2>1 DEF UmmApart
  <2> QED BY <1>3, <2>2
<1>10. Umm!Coalesced
  BY <1>2, <1>9 DEF Umm!Coalesced
<1> QED BY <1>8, <1>10

\* The two directions of the block list agree, as do those of the free list,
\* which has the blocks marked as free and no other.
THEOREM UmmIntegrityHolds == Umm!Spec => []Umm!Integrity
BY UmmInvariance, UmmIntegritySound, PTL

\* umm_free joins a block with its neighbours: no two free ones follow one
\* another.
THEOREM UmmCoalescedHolds == Umm!Spec => []Umm!Coalesced
BY UmmInvariance, UmmIntegritySound, PTL
==============================================================================
