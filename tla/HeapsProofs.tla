----------------------------- MODULE HeapsProofs -----------------------------
(***************************************************************************)
(* What mmem, lv_mem and tlsf keep in their memory describes it, for every *)
(* size of it, all clients and all sequences of what they ask for; and so, *)
(* with BlocksProofs, for each of the five allocators.                     *)
(***************************************************************************)
EXTENDS BlocksProofs

-----------------------------------------------------------------------------
(***************************************************************************)
(* mmem.  The blocks lie in the order of the list without gaps.            *)
(***************************************************************************)
LEMMA MmemBounds == MmemSize \in Nat /\ MmemSizes \subseteq Nat
BY HeapsAssumption DEF Managed!MmemAssumption

\* The sequence s without its k-th member.
MmemDropped(s, k) == SubSeq(s, 1, k - 1) \o SubSeq(s, k + 1, Len(s))

MmemTyped(l, n, p, z, top) ==
  l \in Seq(Handle) /\ n = Len(l) /\ p \in [Handle -> Nat] /\ z \in [Handle -> Nat] /\ top \in Nat

\* The blocks of l lie in the order of the list, none upon another, below top,
\* and nothing lies between them.
MmemOrdered(l, n, p, z) ==
  \A i, j \in 1 .. n : i < j => l[i] # l[j] /\ p[l[i]] + z[l[i]] <= p[l[j]]
MmemBelow(l, n, p, z, top) == \A i \in 1 .. n : p[l[i]] + z[l[i]] <= top
MmemCovered(l, n, p, z, top) ==
  \A c \in 1 .. top - 1 : \E i \in 1 .. n : c \in p[l[i]] .. p[l[i]] + z[l[i]] - 1
MmemChained(l, n, p, z, top) ==
  /\ n > 0 => p[l[1]] = 1
  /\ \A i \in 1 .. n - 1 : p[l[i + 1]] = p[l[i]] + z[l[i]]
  /\ top = IF n = 0 THEN 1 ELSE p[l[n]] + z[l[n]]

MmemTiled(l, n, p, z, top) ==
  MmemOrdered(l, n, p, z) /\ MmemBelow(l, n, p, z, top) /\ MmemCovered(l, n, p, z, top) /\ MmemChained(l, n, p, z, top)

\* The list says where each byte is: the blocks lie in its order from the first
\* byte on, up to Top.
MmemIInv == Managed!TypeOK /\ MmemTiled(mmemMem.list, Len(mmemMem.list), mmemPtr, mmemSize, Managed!Top)

LEMMA MmemInitSound == Managed!Init => MmemIInv
<1> SUFFICES ASSUME Managed!Init PROVE MmemIInv
  OBVIOUS
<1>1. mmemMem.list = <<>> /\ Len(mmemMem.list) = 0 /\ Managed!Top = 1
  BY MmemBounds DEF Managed!Init, Managed!Top
<1>2. Managed!TypeOK
  BY MmemBounds DEF Managed!TypeOK, Managed!Init
<1>3. MmemTiled(mmemMem.list, Len(mmemMem.list), mmemPtr, mmemSize, Managed!Top)
  BY <1>1 DEF MmemTiled, MmemOrdered, MmemBelow, MmemCovered, MmemChained
<1> QED BY <1>2, <1>3 DEF MmemIInv

LEMMA MmemListedIs == ASSUME MmemIInv PROVE Managed!Listed = {mmemMem.list[i] : i \in 1 .. Len(mmemMem.list)} /\ Managed!Listed \subseteq Handle
<1>1. mmemMem.list \in Seq(Handle) /\ DOMAIN mmemMem.list = 1 .. Len(mmemMem.list)
  BY DEF MmemIInv, Managed!TypeOK
<1> QED BY <1>1 DEF Managed!Listed, Managed!Range

\* A block is put behind the others.
LEMMA MmemAppended ==
  ASSUME NEW l, NEW n \in Nat, NEW p, NEW z, NEW top, MmemTyped(l, n, p, z, top), MmemTiled(l, n, p, z, top), top > 0,
         NEW h \in Handle, NEW k \in Nat, h \notin Managed!Range(l)
  PROVE  MmemTiled(Append(l, h), n + 1, [p EXCEPT ![h] = top], [z EXCEPT ![h] = k], top + k)
<1> DEFINE m == Append(l, h)
           q == [p EXCEPT ![h] = top]
           y == [z EXCEPT ![h] = k]
<1>1. /\ m[n + 1] = h /\ \A i \in 1 .. n : m[i] = l[i] /\ l[i] \in Handle /\ l[i] # h
  <2>1. l \in Seq(Handle) /\ Len(l) = n /\ DOMAIN l = 1 .. n
    BY DEF MmemTyped
  <2>2. m[n + 1] = h
    BY <2>1
  <2>3. \A i \in 1 .. n : l[i] \in Handle /\ l[i] # h
    BY <2>1 DEF Managed!Range
  <2>4. \A i \in 1 .. n : m[i] = l[i]
    BY <2>1
  <2> QED BY <2>2, <2>3, <2>4
<1>2. /\ \A i \in 1 .. n : /\ q[m[i]] = p[l[i]] /\ y[m[i]] = z[l[i]]
                           /\ p[l[i]] \in Nat /\ z[l[i]] \in Nat
      /\ q[m[n + 1]] = top /\ y[m[n + 1]] = k /\ top \in Nat
  BY <1>1 DEF MmemTyped
<1>3. \A i \in 1 .. n + 1 : i \in 1 .. n \/ i = n + 1
  BY <1>1
<1> HIDE DEF m, q, y
<1>4. MmemOrdered(m, n + 1, q, y) /\ MmemBelow(m, n + 1, q, y, top + k) /\ MmemCovered(m, n + 1, q, y, top + k)
  <2>1. ASSUME NEW i \in 1 .. n + 1, NEW j \in 1 .. n + 1, i < j
        PROVE  m[i] # m[j] /\ q[m[i]] + y[m[i]] <= q[m[j]]
    <3>1. i \in 1 .. n /\ (j \in 1 .. n \/ j = n + 1)
      BY <1>3, <2>1
    <3>2. CASE j \in 1 .. n
      <4>1. l[i] # l[j] /\ p[l[i]] + z[l[i]] <= p[l[j]]
        BY <2>1, <3>1, <3>2 DEF MmemTiled, MmemOrdered
      <4> QED BY <1>1, <1>2, <3>1, <3>2, <4>1
    <3>3. CASE j = n + 1
      <4>1. p[l[i]] + z[l[i]] <= top
        BY <3>1 DEF MmemTiled, MmemBelow
      <4> QED BY <1>1, <1>2, <3>1, <3>3, <4>1
    <3> QED BY <3>1, <3>2, <3>3
  <2>2. ASSUME NEW i \in 1 .. n + 1 PROVE q[m[i]] + y[m[i]] <= top + k
    BY <1>1, <1>2, <1>3 DEF MmemTiled, MmemBelow
  <2>3. MmemCovered(m, n + 1, q, y, top + k)
    <3> SUFFICES ASSUME NEW c \in 1 .. (top + k) - 1
                 PROVE  \E i \in 1 .. n + 1 : c \in q[m[i]] .. q[m[i]] + y[m[i]] - 1
      BY DEF MmemCovered
    <3>1. CASE c < top
      <4>1. PICK i \in 1 .. n : c \in p[l[i]] .. p[l[i]] + z[l[i]] - 1
        BY <1>2, <3>1 DEF MmemTiled, MmemCovered
      <4>2. i \in 1 .. n + 1
        BY <1>1
      <4> QED BY <1>2, <4>1, <4>2
    <3>2. CASE ~(c < top)
      <4>1. n + 1 \in 1 .. n + 1
        BY <1>1
      <4> QED BY <1>2, <3>2, <4>1
    <3> QED BY <3>1, <3>2
  <2>4. MmemOrdered(m, n + 1, q, y)
    BY <2>1 DEF MmemOrdered
  <2>5. MmemBelow(m, n + 1, q, y, top + k)
    BY <2>2 DEF MmemBelow
  <2> QED BY <2>3, <2>4, <2>5
<1>5. MmemChained(m, n + 1, q, y, top + k)
  <2>1. n + 1 > 0 /\ n + 1 # 0
    BY <1>1
  <2>2. CASE n = 0
    <3>1. n = 0 /\ top = 1
      BY <2>2 DEF MmemTiled, MmemChained
    <3> QED BY <1>1, <1>2, <2>1, <3>1 DEF MmemChained
  <2>3. CASE n # 0
    <3>1. n >= 1 /\ p[l[1]] = 1 /\ top = p[l[n]] + z[l[n]]
      BY <1>1, <2>3 DEF MmemTiled, MmemChained
    <3>2. q[m[1]] = 1
      BY <1>1, <1>2, <3>1
    <3>3. ASSUME NEW i \in 1 .. (n + 1) - 1 PROVE q[m[i + 1]] = q[m[i]] + y[m[i]]
      <4>1. CASE i = n
        BY <1>1, <1>2, <3>1, <4>1
      <4>2. CASE i # n
        <5>1. i \in 1 .. n - 1 /\ i \in 1 .. n /\ i + 1 \in 1 .. n
          BY <1>1, <4>2
        <5> QED BY <1>2, <5>1 DEF MmemTiled, MmemChained
      <4> QED BY <4>1, <4>2
    <3> QED BY <1>1, <1>2, <2>1, <3>2, <3>3 DEF MmemChained
  <2> QED BY <2>2, <2>3
<1> QED BY <1>4, <1>5 DEF MmemTiled, m, q, y

\* q and y are p and z, those behind the i-th block having moved down.
MmemClosedUp(l, n, p, z, i, q, y) ==
  \A j \in 1 .. n :
    j # i => /\ y[l[j]] = z[l[j]]
             /\ q[l[j]] = IF j < i THEN p[l[j]] ELSE p[l[j]] - z[l[i]]

\* The i-th block is taken out, and those behind it close up.
LEMMA MmemClosed ==
  ASSUME NEW l, NEW n \in Nat, NEW p, NEW z, NEW top, MmemTyped(l, n, p, z, top), MmemTiled(l, n, p, z, top),
         NEW i \in 1 .. n, NEW q, NEW y,
         MmemClosedUp(l, n, p, z, i, q, y)
  PROVE  MmemTiled(MmemDropped(l, i), n - 1, q, y, top - z[l[i]])
<1> DEFINE m == MmemDropped(l, i)
           s == z[l[i]]
           At(j) == IF j < i THEN j ELSE j + 1
<1>1. /\ n \in Nat /\ m \in Seq(Handle) /\ Len(m) = n - 1 /\ s \in Nat
      /\ \A j \in 1 .. n - 1 : m[j] = l[At(j)]
  <2> DEFINE a == SubSeq(l, 1, i - 1)
             b == SubSeq(l, i + 1, Len(l))
  <2>1. l \in Seq(Handle) /\ Len(l) = n /\ n \in Nat /\ s \in Nat
    BY DEF MmemTyped
  <2>2. a \in Seq(Handle) /\ Len(a) = i - 1 /\ \A j \in 1 .. i - 1 : a[j] = l[j]
    BY <2>1
  <2>3. b \in Seq(Handle) /\ Len(b) = Len(l) - i /\ \A j \in 1 .. Len(l) - i : b[j] = l[i + j]
    BY <2>1
  <2>4. m = a \o b
    BY DEF MmemDropped
  <2> HIDE DEF a, b, m, s
  <2>5. m \in Seq(Handle) /\ Len(m) = Len(l) - 1
    BY <2>1, <2>2, <2>3, <2>4
  <2>6. ASSUME NEW j \in 1 .. n - 1 PROVE m[j] = l[At(j)]
    <3>1. m[j] = IF j <= Len(a) THEN a[j] ELSE b[j - Len(a)]
      BY <2>1, <2>2, <2>3, <2>4, <2>5
    <3>2. CASE j < i
      BY <2>2, <3>1, <3>2
    <3>3. CASE ~(j < i)
      <4>1. j - Len(a) \in 1 .. Len(l) - i /\ i + (j - Len(a)) = j + 1
        BY <2>1, <2>2, <2>5, <3>3
      <4> QED BY <2>2, <2>3, <3>1, <3>3, <4>1
    <3> QED BY <3>2, <3>3
  <2> QED BY <2>1, <2>5, <2>6
<1>2. top \in Nat /\ \A j \in 1 .. n : l[j] \in Handle /\ p[l[j]] \in Nat /\ z[l[j]] \in Nat
  BY DEF MmemTyped
<1>3. \A j \in 1 .. n - 1 : /\ At(j) \in 1 .. n /\ At(j) # i
                            /\ j < i => At(j) = j
                            /\ ~(j < i) => At(j) = j + 1
  BY <1>1
<1>4. /\ MmemOrdered(l, n, p, z) /\ MmemBelow(l, n, p, z, top) /\ MmemCovered(l, n, p, z, top)
      /\ MmemChained(l, n, p, z, top)
  BY DEF MmemTiled
<1>5. \A j \in 1 .. n : /\ j < i => p[l[j]] + z[l[j]] <= p[l[i]]
                        /\ j > i => p[l[i]] + s <= p[l[j]]
  BY <1>4 DEF MmemOrdered
<1>6. p[l[i]] + s <= top /\ p[l[i]] \in Nat /\ s \in Nat
  BY <1>1, <1>2, <1>4 DEF MmemBelow
<1> HIDE DEF m, s, At
<1>7. \A j \in 1 .. n - 1 : /\ y[m[j]] = z[l[At(j)]] /\ z[l[At(j)]] \in Nat
                            /\ p[l[At(j)]] \in Nat
                            /\ j < i => q[m[j]] = p[l[At(j)]]
                            /\ ~(j < i) => q[m[j]] = p[l[At(j)]] - s
  <2> SUFFICES ASSUME NEW j \in 1 .. n - 1
               PROVE  /\ y[m[j]] = z[l[At(j)]] /\ z[l[At(j)]] \in Nat
                      /\ p[l[At(j)]] \in Nat
                      /\ j < i => q[m[j]] = p[l[At(j)]]
                      /\ ~(j < i) => q[m[j]] = p[l[At(j)]] - s
    OBVIOUS
  <2>1. m[j] = l[At(j)] /\ At(j) \in 1 .. n /\ At(j) # i /\ (j < i <=> At(j) < i)
    BY <1>1, <1>3
  <2> QED BY <1>2, <2>1 DEF MmemClosedUp, s
<1>8. MmemOrdered(m, n - 1, q, y)
  <2> SUFFICES ASSUME NEW j \in 1 .. n - 1, NEW k \in 1 .. n - 1, j < k
               PROVE  m[j] # m[k] /\ q[m[j]] + y[m[j]] <= q[m[k]]
    BY DEF MmemOrdered
  <2>1. At(j) < At(k) /\ At(j) \in 1 .. n /\ At(k) \in 1 .. n
    BY <1>1, <1>3
  <2>2. l[At(j)] # l[At(k)] /\ p[l[At(j)]] + z[l[At(j)]] <= p[l[At(k)]]
    BY <1>4, <2>1 DEF MmemOrdered
  <2>3. m[j] # m[k]
    BY <1>1, <2>2
  <2>4. CASE j < i /\ k >= i
    <3>1. At(j) < i /\ At(k) > i
      BY <1>3, <2>4
    <3>2. p[l[At(j)]] + z[l[At(j)]] <= p[l[i]] /\ p[l[i]] + s <= p[l[At(k)]]
      BY <1>5, <2>1, <3>1
    <3>3. q[m[j]] = p[l[At(j)]] /\ q[m[k]] = p[l[At(k)]] - s
      BY <1>1, <1>7, <2>4
    <3>4. y[m[j]] = z[l[At(j)]] /\ z[l[At(j)]] \in Nat /\ p[l[At(j)]] \in Nat /\ p[l[At(k)]] \in Nat
      BY <1>7
    <3>5. p[l[At(j)]] + z[l[At(j)]] <= p[l[At(k)]] - s
      BY <1>6, <3>2, <3>4
    <3> QED BY <2>3, <3>3, <3>4, <3>5
  <2>5. CASE ~(j < i /\ k >= i)
    <3>1. (j < i /\ k < i) \/ (~(j < i) /\ ~(k < i))
      BY <1>1, <2>5
    <3>2. \/ q[m[j]] = p[l[At(j)]] /\ q[m[k]] = p[l[At(k)]]
          \/ q[m[j]] = p[l[At(j)]] - s /\ q[m[k]] = p[l[At(k)]] - s
      BY <1>7, <3>1
    <3>3. y[m[j]] = z[l[At(j)]] /\ z[l[At(j)]] \in Nat /\ p[l[At(j)]] \in Nat /\ p[l[At(k)]] \in Nat
      BY <1>7
    <3>4. (p[l[At(j)]] - s) + z[l[At(j)]] <= p[l[At(k)]] - s
      BY <1>6, <2>2, <3>3
    <3> QED BY <2>2, <2>3, <3>2, <3>3, <3>4
  <2> QED BY <2>4, <2>5
<1>9. MmemBelow(m, n - 1, q, y, top - s)
  <2> SUFFICES ASSUME NEW j \in 1 .. n - 1 PROVE q[m[j]] + y[m[j]] <= top - s
    BY DEF MmemBelow
  <2>1. p[l[At(j)]] + z[l[At(j)]] <= top
    BY <1>3, <1>4 DEF MmemBelow
  <2>2. CASE j < i
    <3>1. p[l[At(j)]] + z[l[At(j)]] <= p[l[i]]
      BY <1>3, <1>5, <2>2
    <3>2. q[m[j]] = p[l[At(j)]]
      BY <1>7, <2>2
    <3> QED BY <1>2, <1>6, <1>7, <3>1, <3>2
  <2>3. CASE ~(j < i)
    <3>1. q[m[j]] = p[l[At(j)]] - s
      BY <1>7, <2>3
    <3> QED BY <1>2, <1>6, <1>7, <2>1, <3>1
  <2> QED BY <2>2, <2>3
<1>10. MmemCovered(m, n - 1, q, y, top - s)
  <2> SUFFICES ASSUME NEW c \in 1 .. top - s - 1
               PROVE  \E j \in 1 .. n - 1 : c \in q[m[j]] .. q[m[j]] + y[m[j]] - 1
    BY DEF MmemCovered
  <2> DEFINE d == IF c < p[l[i]] THEN c ELSE c + s
  <2>1. d \in 1 .. top - 1
    BY <1>2, <1>6
  <2>2. PICK k \in 1 .. n : d \in p[l[k]] .. p[l[k]] + z[l[k]] - 1
    BY <1>4, <2>1 DEF MmemCovered
  <2>3. p[l[k]] \in Nat /\ z[l[k]] \in Nat
    BY <1>2
  <2>4. /\ k < i => p[l[k]] + z[l[k]] <= p[l[i]]
        /\ k > i => p[l[i]] + s <= p[l[k]]
    BY <1>5
  <2>5. k = i => z[l[k]] = s
    BY DEF s
  <2>6. CASE c < p[l[i]]
    <3>1. k < i /\ d = c
      BY <1>6, <2>2, <2>3, <2>4, <2>5, <2>6
    <3>2. k \in 1 .. n - 1 /\ At(k) = k
      BY <1>1, <1>3, <3>1
    <3>3. q[m[k]] = p[l[k]] /\ y[m[k]] = z[l[k]]
      BY <1>7, <3>1, <3>2
    <3> QED BY <2>2, <3>1, <3>2, <3>3
  <2>7. CASE ~(c < p[l[i]])
    <3>1. k > i /\ d = c + s
      <4>1. d = c + s /\ c + s < p[l[k]] + z[l[k]]
        BY <1>6, <2>2, <2>3, <2>7
      <4>2. CASE k < i
        BY <1>6, <2>3, <2>4, <2>7, <4>1, <4>2
      <4>3. CASE k = i
        BY <1>6, <2>3, <2>5, <2>7, <4>1, <4>3
      <4> QED BY <1>1, <4>1, <4>2, <4>3
    <3>2. k - 1 \in 1 .. n - 1 /\ At(k - 1) = k /\ ~(k - 1 < i)
      <4>1. k - 1 \in 1 .. n - 1 /\ ~(k - 1 < i)
        BY <1>1, <3>1
      <4>2. At(k - 1) = (k - 1) + 1
        BY <1>3, <4>1
      <4> QED BY <4>1, <4>2
    <3>3. q[m[k - 1]] = p[l[k]] - s /\ y[m[k - 1]] = z[l[k]]
      BY <1>7, <3>2
    <3>4. c \in q[m[k - 1]] .. q[m[k - 1]] + y[m[k - 1]] - 1
      BY <1>6, <2>2, <2>3, <3>1, <3>3
    <3> QED BY <3>2, <3>4
  <2> QED BY <2>6, <2>7
<1>11. MmemChained(m, n - 1, q, y, top - s)
  <2>1. /\ n > 0 /\ p[l[1]] = 1 /\ top = p[l[n]] + z[l[n]]
        /\ \A j \in 1 .. n - 1 : p[l[j + 1]] = p[l[j]] + z[l[j]]
    <3>1. n > 0 /\ n # 0
      BY <1>1
    <3> QED BY <1>4, <3>1 DEF MmemChained
  <2>2. i > 1 => p[l[i]] = p[l[i - 1]] + z[l[i - 1]]
    <3>1. SUFFICES ASSUME i > 1 PROVE p[l[i]] = p[l[i - 1]] + z[l[i - 1]]
      OBVIOUS
    <3>2. i - 1 \in 1 .. n - 1 /\ (i - 1) + 1 = i
      BY <1>1, <3>1
    <3>3. p[l[(i - 1) + 1]] = p[l[i - 1]] + z[l[i - 1]]
      BY <2>1, <3>2
    <3> QED BY <3>2, <3>3
  <2>3. i < n => p[l[i + 1]] = p[l[i]] + s
    <3>1. i < n => i \in 1 .. n - 1
      BY <1>1
    <3> QED BY <2>1, <3>1 DEF s
  <2>4. n - 1 > 0 => q[m[1]] = 1
    <3>1. SUFFICES ASSUME n - 1 > 0 PROVE q[m[1]] = 1
      OBVIOUS
    <3>2. 1 \in 1 .. n - 1 /\ n >= 2
      BY <1>1, <3>1
    <3>3. CASE i = 1
      <4>1. At(1) = 2 /\ p[l[2]] = p[l[1]] + s
        BY <1>3, <2>3, <3>2, <3>3
      <4>2. q[m[1]] = p[l[2]] - s
        BY <1>7, <3>2, <3>3, <4>1
      <4> QED BY <1>6, <2>1, <4>1, <4>2
    <3>4. CASE i # 1
      <4>1. At(1) = 1 /\ 1 < i
        BY <1>1, <1>3, <3>2, <3>4
      <4> QED BY <1>7, <2>1, <3>2, <4>1
    <3> QED BY <3>3, <3>4
  <2>5. ASSUME NEW j \in 1 .. (n - 1) - 1 PROVE q[m[j + 1]] = q[m[j]] + y[m[j]]
    <3>1. /\ j \in 1 .. n - 1 /\ j + 1 \in 1 .. n - 1 /\ j + 1 \in 1 .. n
          /\ j \in Int
      BY <1>1
    <3>2. CASE j + 1 < i
      <4>1. At(j + 1) = j + 1 /\ At(j) = j /\ j < i
        BY <1>3, <3>1, <3>2
      <4>2. p[l[j + 1]] = p[l[j]] + z[l[j]]
        BY <1>1, <2>1, <3>1
      <4>3. q[m[j + 1]] = p[l[j + 1]] /\ q[m[j]] = p[l[j]] /\ y[m[j]] = z[l[j]]
        BY <1>7, <3>1, <3>2, <4>1
      <4> QED BY <4>2, <4>3
    <3>3. CASE j + 1 = i
      <4>1. At(j + 1) = i + 1 /\ At(j) = j /\ j < i /\ j = i - 1 /\ i < n /\ i > 1
        BY <1>1, <1>3, <3>1, <3>3
      <4>2. p[l[i + 1]] = p[l[i]] + s /\ p[l[i]] = p[l[j]] + z[l[j]]
        BY <2>2, <2>3, <4>1
      <4>3. q[m[j + 1]] = p[l[i + 1]] - s /\ q[m[j]] = p[l[j]] /\ y[m[j]] = z[l[j]]
        BY <1>7, <3>1, <3>3, <4>1
      <4> QED BY <1>2, <1>6, <3>1, <4>2, <4>3
    <3>4. CASE j + 1 > i
      <4>1. At(j + 1) = (j + 1) + 1 /\ At(j) = j + 1 /\ ~(j < i) /\ ~(j + 1 < i)
        BY <1>1, <1>3, <3>1, <3>4
      <4>2. p[l[(j + 1) + 1]] = p[l[j + 1]] + z[l[j + 1]]
        BY <1>1, <2>1, <3>1
      <4>3. q[m[j + 1]] = p[l[(j + 1) + 1]] - s /\ q[m[j]] = p[l[j + 1]] - s /\ y[m[j]] = z[l[j + 1]]
        BY <1>7, <3>1, <4>1
      <4>4. p[l[j + 1]] \in Nat /\ z[l[j + 1]] \in Nat
        BY <1>2, <3>1
      <4> QED BY <1>6, <4>2, <4>3, <4>4
    <3> QED BY <1>1, <3>1, <3>2, <3>3, <3>4
  <2>6. CASE n - 1 = 0
    <3>1. n = 1 /\ i = 1
      <4>1. (n - 1) = 0
        BY <2>6
      <4>2. n \in Nat /\ TRUE
        BY <1>1
      <4>3. n = 1
        BY <4>1, <4>2
      <4> QED BY <4>3
    <3>2. top - s = 1
      BY <1>6, <2>1, <3>1 DEF s
    <3> QED BY <2>6, <3>2, <1>1 DEF MmemChained
  <2>7. CASE n - 1 # 0
    <3>1. (n - 1) \in 1 .. n - 1 /\ n >= 2 /\ TRUE
      BY <1>1, <2>7
    <3>2. top - s = q[m[(n - 1)]] + y[m[(n - 1)]]
      <4>1. CASE i = n
        <5>1. At((n - 1)) = i - 1 /\ (n - 1) < i /\ i > 1
          BY <1>1, <1>3, <3>1, <4>1
        <5>2. q[m[(n - 1)]] = p[l[i - 1]] /\ y[m[(n - 1)]] = z[l[i - 1]]
          BY <1>7, <3>1, <5>1
        <5>3. top = p[l[i]] + s
          BY <2>1, <4>1 DEF s
        <5> QED BY <1>6, <2>2, <5>1, <5>2, <5>3
      <4>2. CASE i # n
        <5>1. At((n - 1)) = n /\ ~((n - 1) < i)
          BY <1>1, <1>3, <3>1, <4>2
        <5>2. q[m[(n - 1)]] = p[l[n]] - s /\ y[m[(n - 1)]] = z[l[n]]
          BY <1>7, <3>1, <5>1
        <5>3. p[l[n]] \in Nat /\ z[l[n]] \in Nat
          BY <1>1, <1>2
        <5> QED BY <1>6, <2>1, <5>2, <5>3
      <4> QED BY <4>1, <4>2
    <3> QED BY <2>4, <2>5, <2>7, <3>2 DEF MmemChained
  <2> QED BY <2>6, <2>7
<1> QED BY <1>8, <1>9, <1>10, <1>11 DEF MmemTiled, m, s


\* What is known of the variables.
LEMMA MmemState ==
  ASSUME MmemIInv
  PROVE  /\ MmemTyped(mmemMem.list, Len(mmemMem.list), mmemPtr, mmemSize, Managed!Top)
         /\ MmemTiled(mmemMem.list, Len(mmemMem.list), mmemPtr, mmemSize, Managed!Top)
         /\ Len(mmemMem.list) \in Nat /\ Managed!Top \in 1 .. MmemSize + 1
<1>1. /\ mmemMem.list \in Seq(Handle) /\ mmemMem.avail \in 0 .. MmemSize
      /\ mmemPtr \in [Handle -> 1 .. MmemSize + 1] /\ mmemSize \in [Handle -> Nat]
  BY DEF MmemIInv, Managed!TypeOK
<1>2. Managed!Top \in 1 .. MmemSize + 1
  BY <1>1, MmemBounds DEF Managed!Top
<1>3. mmemPtr \in [Handle -> Nat]
  BY <1>1, MmemBounds
<1> QED BY <1>1, <1>2, <1>3 DEF MmemIInv, MmemTyped

\* The list without its i-th element.
LEMMA MmemWithout ==
  ASSUME NEW l \in Seq(Handle), NEW i \in 1 .. Len(l)
  PROVE  MmemDropped(l, i) \in Seq(Handle) /\ Len(MmemDropped(l, i)) = Len(l) - 1
<1> DEFINE a == SubSeq(l, 1, i - 1)
           b == SubSeq(l, i + 1, Len(l))
<1>1. a \in Seq(Handle) /\ Len(a) = i - 1
  OBVIOUS
<1>2. b \in Seq(Handle) /\ Len(b) = Len(l) - i
  OBVIOUS
<1>3. MmemDropped(l, i) = a \o b
  BY DEF MmemDropped
<1> HIDE DEF a, b
<1> QED BY <1>1, <1>2, <1>3

\* mmem_free, put without the list behind: those behind the i-th block move
\* down by its size, and so does what they hold.
MmemFreesAt(h, i) ==
  /\ mmemMem.list[i] = h /\ mmemPtr[h] \in 1 .. MmemSize + 1 /\ mmemSize[h] \in Nat
  /\ mmemPtr[h] + mmemSize[h] <= Managed!Top
  /\ mmemMem'.list = MmemDropped(mmemMem.list, i) /\ mmemMem'.list \in Seq(Handle)
  /\ Len(mmemMem'.list) = Len(mmemMem.list) - 1
  /\ mmemMem'.avail = mmemMem.avail + mmemSize[h]
  /\ mmemMem'.data = [c \in 1 .. MmemSize |->
                    IF c < mmemPtr[h] THEN mmemMem.data[c]
                    ELSE IF c < Managed!Top - mmemSize[h] THEN mmemMem.data[c + mmemSize[h]] ELSE Nobody]
  /\ mmemPtr' = [g \in Handle |-> IF g = h THEN 1
                              ELSE IF \E j \in i + 1 .. Len(mmemMem.list) : g = mmemMem.list[j]
                              THEN mmemPtr[g] - mmemSize[h] ELSE mmemPtr[g]]
  /\ mmemSize' = [mmemSize EXCEPT ![h] = 0] /\ mmemDenied' = <<>>

LEMMA MmemFreeIs ==
  ASSUME MmemIInv, NEW h \in Handle, Managed!Free(h)
  PROVE  \E i \in 1 .. Len(mmemMem.list) : MmemFreesAt(h, i)
<1> DEFINE n == Len(mmemMem.list)
           behind(i) == SubSeq(mmemMem.list, i + 1, Len(mmemMem.list))
<1>1. /\ mmemMem.list \in Seq(Handle) /\ n \in Nat /\ DOMAIN mmemMem.list = 1 .. n
      /\ Managed!Top \in Nat
  BY MmemState DEF MmemIInv, Managed!TypeOK
<1>2. /\ mmemPtr[h] \in 1 .. MmemSize + 1 /\ mmemSize[h] \in Nat
  BY DEF MmemIInv, Managed!TypeOK
<1>a. PICK i \in DOMAIN mmemMem.list :
         /\ h = mmemMem.list[i]
         /\ mmemMem' = [list |-> MmemDropped(mmemMem.list, i), avail |-> mmemMem.avail + mmemSize[h],
                    data |-> Managed!Moved(IF behind(i) = <<>> THEN Managed!Top ELSE mmemPtr[Head(behind(i))], mmemPtr[h])]
         /\ mmemPtr' = [g \in Handle |-> IF g = h THEN 1
                                     ELSE IF g \in Managed!Range(behind(i)) THEN mmemPtr[g] - mmemSize[h]
                                     ELSE mmemPtr[g]]
         /\ mmemSize' = [mmemSize EXCEPT ![h] = 0] /\ mmemDenied' = <<>>
  BY DEF Managed!Free, MmemDropped
<1>3. /\ i \in 1 .. n /\ h = mmemMem.list[i]
      /\ mmemMem'.list = MmemDropped(mmemMem.list, i) /\ mmemMem'.avail = mmemMem.avail + mmemSize[h]
      /\ mmemMem'.data = Managed!Moved(IF behind(i) = <<>> THEN Managed!Top ELSE mmemPtr[Head(behind(i))], mmemPtr[h])
      /\ mmemPtr' = [g \in Handle |-> IF g = h THEN 1
                                  ELSE IF g \in Managed!Range(behind(i)) THEN mmemPtr[g] - mmemSize[h]
                                  ELSE mmemPtr[g]]
      /\ mmemSize' = [mmemSize EXCEPT ![h] = 0] /\ mmemDenied' = <<>>
  <2> HIDE DEF behind
  <2> QED BY <1>1, <1>a
<1>4. /\ behind(i) \in Seq(Handle) /\ Len(behind(i)) = n - i
      /\ \A k \in 1 .. n - i : behind(i)[k] = mmemMem.list[i + k]
  BY <1>1
<1> HIDE DEF behind
<1>5. \A g \in Handle : g \in Managed!Range(behind(i)) <=> \E j \in i + 1 .. n : g = mmemMem.list[j]
  <2> SUFFICES ASSUME NEW g \in Handle
               PROVE  g \in Managed!Range(behind(i)) <=> \E j \in i + 1 .. n : g = mmemMem.list[j]
    OBVIOUS
  <2>1. g \in Managed!Range(behind(i)) <=> \E k \in 1 .. n - i : g = mmemMem.list[i + k]
    <3>1. DOMAIN behind(i) = 1 .. n - i
      BY <1>1, <1>4
    <3> QED BY <1>4, <3>1 DEF Managed!Range
  <2>2. ASSUME NEW k \in 1 .. n - i, g = mmemMem.list[i + k]
        PROVE  \E j \in i + 1 .. n : g = mmemMem.list[j]
    <3>1. i + k \in i + 1 .. n
      BY <1>1
    <3> QED BY <2>2, <3>1
  <2>3. ASSUME NEW j \in i + 1 .. n, g = mmemMem.list[j]
        PROVE  \E k \in 1 .. n - i : g = mmemMem.list[i + k]
    <3>1. j - i \in 1 .. n - i /\ i + (j - i) = j
      BY <1>1
    <3> QED BY <2>3, <3>1
  <2> QED BY <2>1, <2>2, <2>3
<1>6. /\ mmemPtr[h] + mmemSize[h] <= Managed!Top
      /\ (IF behind(i) = <<>> THEN Managed!Top ELSE mmemPtr[Head(behind(i))]) = mmemPtr[h] + mmemSize[h]
  <2>1. MmemBelow(mmemMem.list, n, mmemPtr, mmemSize, Managed!Top) /\ MmemChained(mmemMem.list, n, mmemPtr, mmemSize, Managed!Top)
    BY DEF MmemIInv, MmemTiled
  <2>2. mmemPtr[h] + mmemSize[h] <= Managed!Top
    BY <1>3, <2>1 DEF MmemBelow
  <2>3. CASE i = n
    <3>1. Len(behind(i)) = 0
      BY <1>1, <1>4, <2>3
    <3>2. behind(i) = <<>>
      BY <1>4, <3>1, EmptySeq
    <3>3. n # 0
      BY <1>1
    <3>4. Managed!Top = mmemPtr[h] + mmemSize[h]
      BY <1>3, <2>1, <2>3, <3>3 DEF MmemChained
    <3> QED BY <2>2, <3>2, <3>4
  <2>4. CASE i # n
    <3>1. i \in 1 .. n - 1 /\ 1 \in 1 .. n - i /\ Len(behind(i)) # 0
      BY <1>1, <1>4, <2>4
    <3>2. behind(i) # <<>> /\ Head(behind(i)) = mmemMem.list[i + 1]
      <4>1. behind(i)[1] = mmemMem.list[i + 1]
        BY <1>4, <3>1
      <4> QED BY <1>4, <3>1, <4>1
    <3>3. mmemPtr[mmemMem.list[i + 1]] = mmemPtr[h] + mmemSize[h]
      BY <1>3, <2>1, <3>1 DEF MmemChained
    <3> QED BY <2>2, <3>2, <3>3
  <2> QED BY <2>3, <2>4
<1>7. mmemMem'.list \in Seq(Handle) /\ Len(mmemMem'.list) = n - 1
  BY <1>1, <1>3, MmemWithout
<1>8. mmemMem'.data = [c \in 1 .. MmemSize |->
                    IF c < mmemPtr[h] THEN mmemMem.data[c]
                    ELSE IF c < Managed!Top - mmemSize[h] THEN mmemMem.data[c + mmemSize[h]] ELSE Nobody]
  <2>1. mmemMem'.data = Managed!Moved(mmemPtr[h] + mmemSize[h], mmemPtr[h])
    BY <1>3, <1>6
  <2>2. mmemPtr[h] \in Nat /\ MmemSize \in Nat
    BY <1>2, MmemBounds
  <2>3. ASSUME NEW c \in 1 .. MmemSize
        PROVE  /\ mmemPtr[h] + Managed!Top - (mmemPtr[h] + mmemSize[h]) = Managed!Top - mmemSize[h]
               /\ (mmemPtr[h] + mmemSize[h]) + (c - mmemPtr[h]) = c + mmemSize[h]
    BY <1>1, <1>2, <2>2
  <2> QED BY <2>1, <2>3 DEF Managed!Moved
<1>9. mmemPtr' = [g \in Handle |-> IF g = h THEN 1
                               ELSE IF \E j \in i + 1 .. Len(mmemMem.list) : g = mmemMem.list[j]
                               THEN mmemPtr[g] - mmemSize[h] ELSE mmemPtr[g]]
  BY <1>3, <1>5
<1> QED BY <1>2, <1>3, <1>6, <1>7, <1>8, <1>9 DEF MmemFreesAt

LEMMA MmemAllocSound ==
  ASSUME MmemIInv, NEW h \in Handle, NEW n \in MmemSizes, Managed!Alloc(h, n)
  PROVE  MmemIInv'
<1>1. n \in Nat /\ h \notin Managed!Listed /\ Managed!TypeOK
  BY MmemBounds DEF Managed!Alloc, MmemIInv
<1>2. CASE mmemMem.avail < n
  <2>1. mmemDenied' = <<h, n>> /\ UNCHANGED <<mmemMem, mmemPtr, mmemSize>>
    BY <1>2 DEF Managed!Alloc
  <2>2. Managed!TypeOK'
    BY <1>1, <2>1 DEF Managed!TypeOK
  <2>3. Managed!Top' = Managed!Top
    BY <2>1 DEF Managed!Top
  <2> QED BY <2>1, <2>2, <2>3 DEF MmemIInv
<1>3. CASE ~(mmemMem.avail < n)
  <2>1. /\ mmemMem'.list = Append(mmemMem.list, h) /\ mmemMem'.avail = mmemMem.avail - n
        /\ mmemMem'.data = [c \in 1 .. MmemSize |->
                          IF c \in Managed!Top .. Managed!Top + n - 1 THEN <<h, c - Managed!Top + 1>> ELSE mmemMem.data[c]]
        /\ mmemPtr' = [mmemPtr EXCEPT ![h] = Managed!Top] /\ mmemSize' = [mmemSize EXCEPT ![h] = n] /\ mmemDenied' = <<>>
    BY <1>3 DEF Managed!Alloc
  <2>2. /\ MmemTyped(mmemMem.list, Len(mmemMem.list), mmemPtr, mmemSize, Managed!Top)
        /\ MmemTiled(mmemMem.list, Len(mmemMem.list), mmemPtr, mmemSize, Managed!Top)
        /\ Len(mmemMem.list) \in Nat /\ Managed!Top \in 1 .. MmemSize + 1 /\ Managed!Top > 0
    BY MmemState, MmemBounds
  <2>3. mmemMem.avail \in 0 .. MmemSize
    BY <1>1 DEF Managed!TypeOK
  <2>4. Managed!Top' = Managed!Top + n
    BY <1>1, <2>1, <2>3, MmemBounds DEF Managed!Top
  <2>5. mmemMem.list \in Seq(Handle) /\ Len(mmemMem.list') = Len(mmemMem.list) + 1 /\ mmemMem.list' \in Seq(Handle)
    BY <1>1, <2>1 DEF Managed!TypeOK
  <2>6. MmemTiled(mmemMem.list, Len(mmemMem.list), mmemPtr, mmemSize, Managed!Top)'
    <3>1. h \notin Managed!Range(mmemMem.list)
      BY <1>1 DEF Managed!Listed
    <3>2. MmemTiled(Append(mmemMem.list, h), Len(mmemMem.list) + 1, [mmemPtr EXCEPT ![h] = Managed!Top],
                [mmemSize EXCEPT ![h] = n], Managed!Top + n)
      BY <1>1, <2>2, <3>1, MmemAppended
    <3> QED BY <2>1, <2>4, <2>5, <3>2
  <2>7. Managed!TypeOK'
    <3>1. mmemMem'.avail \in 0 .. MmemSize
      BY <1>1, <1>3, <2>1, <2>3, MmemBounds
    <3>2. mmemMem'.data \in [1 .. MmemSize -> {Nobody} \union (Handle \X Nat)]
      <4>1. ASSUME NEW c \in 1 .. MmemSize
            PROVE  (IF c \in Managed!Top .. Managed!Top + n - 1 THEN <<h, c - Managed!Top + 1>> ELSE mmemMem.data[c])
                     \in {Nobody} \union (Handle \X Nat)
        <5>1. CASE c \in Managed!Top .. Managed!Top + n - 1
          BY <2>2, <5>1
        <5>2. CASE c \notin Managed!Top .. Managed!Top + n - 1
          BY <1>1, <5>2 DEF Managed!TypeOK
        <5> QED BY <5>1, <5>2
      <4> QED BY <2>1, <4>1
    <3>3. mmemPtr' \in [Handle -> 1 .. MmemSize + 1] /\ mmemSize' \in [Handle -> Nat]
      BY <1>1, <2>1, <2>2 DEF Managed!TypeOK
    <3> QED BY <2>1, <2>5, <3>1, <3>2, <3>3 DEF Managed!TypeOK
  <2> QED BY <2>6, <2>7 DEF MmemIInv
<1> QED BY <1>2, <1>3

LEMMA MmemFreeSound ==
  ASSUME MmemIInv, NEW h \in Handle, Managed!Free(h)
  PROVE  MmemIInv'
<1> DEFINE n == Len(mmemMem.list)
<1>1. PICK i \in 1 .. n : MmemFreesAt(h, i)
  BY MmemFreeIs
<1>2. /\ MmemTyped(mmemMem.list, n, mmemPtr, mmemSize, Managed!Top) /\ MmemTiled(mmemMem.list, n, mmemPtr, mmemSize, Managed!Top)
      /\ n \in Nat /\ Managed!Top \in 1 .. MmemSize + 1 /\ MmemSize \in Nat
  BY MmemState, MmemBounds
<1>3. /\ \A j \in 1 .. n : mmemMem.list[j] \in Handle
      /\ \A g \in Handle : mmemPtr[g] \in 1 .. MmemSize + 1 /\ mmemSize[g] \in Nat
      /\ mmemMem.avail \in 0 .. MmemSize
      /\ mmemMem.data \in [1 .. MmemSize -> {Nobody} \union (Handle \X Nat)]
  BY <1>2, SMTT(20) DEF MmemTyped, MmemIInv, Managed!TypeOK
<1>4. \A j, k \in 1 .. n : j < k => /\ mmemMem.list[j] # mmemMem.list[k]
                                    /\ mmemPtr[mmemMem.list[j]] + mmemSize[mmemMem.list[j]] <= mmemPtr[mmemMem.list[k]]
  BY <1>2 DEF MmemTiled, MmemOrdered
<1>5. mmemMem.list[i] = h /\ mmemPtr[h] + mmemSize[h] <= Managed!Top
  BY <1>1 DEF MmemFreesAt
<1>6. MmemClosedUp(mmemMem.list, n, mmemPtr, mmemSize, i, mmemPtr', mmemSize')
  <2> SUFFICES ASSUME NEW j \in 1 .. n, j # i
               PROVE  /\ mmemSize'[mmemMem.list[j]] = mmemSize[mmemMem.list[j]]
                      /\ mmemPtr'[mmemMem.list[j]] = IF j < i THEN mmemPtr[mmemMem.list[j]]
                                             ELSE mmemPtr[mmemMem.list[j]] - mmemSize[mmemMem.list[i]]
    BY DEF MmemClosedUp
  <2>1. mmemMem.list[j] # h
    <3>1. j < i \/ i < j
      BY <1>2
    <3> QED BY <1>4, <1>5, <3>1
  <2>2. mmemSize'[mmemMem.list[j]] = mmemSize[mmemMem.list[j]]
    BY <1>1, <1>3, <2>1 DEF MmemFreesAt
  <2>3. mmemPtr'[mmemMem.list[j]] = IF \E k \in i + 1 .. n : mmemMem.list[j] = mmemMem.list[k]
                            THEN mmemPtr[mmemMem.list[j]] - mmemSize[h] ELSE mmemPtr[mmemMem.list[j]]
    BY <1>1, <1>3, <2>1 DEF MmemFreesAt
  <2>4. CASE j < i
    <3>1. ASSUME NEW k \in i + 1 .. n PROVE mmemMem.list[j] # mmemMem.list[k]
      <4>1. k \in 1 .. n /\ j < k
        BY <1>2, <2>4
      <4> QED BY <1>4, <4>1
    <3> QED BY <2>2, <2>3, <2>4, <3>1
  <2>5. CASE ~(j < i)
    <3>1. j \in i + 1 .. n
      BY <1>2, <2>5
    <3> QED BY <1>5, <2>2, <2>3, <2>5, <3>1
  <2> QED BY <2>4, <2>5
<1>7. Managed!Top' = Managed!Top - mmemSize[h]
  BY <1>1, <1>2, <1>3 DEF Managed!Top, MmemFreesAt
<1>8. MmemTiled(mmemMem.list, Len(mmemMem.list), mmemPtr, mmemSize, Managed!Top)'
  <2>1. MmemTiled(MmemDropped(mmemMem.list, i), n - 1, mmemPtr', mmemSize', Managed!Top - mmemSize[mmemMem.list[i]])
    BY <1>2, <1>6, MmemClosed
  <2> QED BY <1>1, <1>5, <1>7, <2>1 DEF MmemFreesAt
<1>9. Managed!TypeOK'
  <2>1. mmemMem'.list \in Seq(Handle) /\ mmemDenied' = <<>> /\ mmemSize' \in [Handle -> Nat]
    BY <1>1 DEF MmemFreesAt, MmemIInv, Managed!TypeOK
  <2>2. mmemMem'.avail \in 0 .. MmemSize
    <3>1. mmemPtr[h] \in 1 .. MmemSize + 1 /\ mmemSize[h] \in Nat /\ mmemMem'.avail = mmemMem.avail + mmemSize[h]
      BY <1>1 DEF MmemFreesAt
    <3> QED BY <1>2, <1>3, <1>5, <3>1, SMTT(20) DEF Managed!Top
  <2>3. mmemPtr' \in [Handle -> 1 .. MmemSize + 1]
    <3>1. ASSUME NEW g \in Handle, NEW j \in i + 1 .. n, g = mmemMem.list[j]
          PROVE  mmemPtr[g] - mmemSize[h] \in 1 .. MmemSize + 1
      <4>1. j \in 1 .. n /\ i < j
        BY <1>2
      <4>2. mmemPtr[h] + mmemSize[h] <= mmemPtr[g]
        BY <1>4, <1>5, <3>1, <4>1
      <4>3. mmemPtr[g] \in 1 .. MmemSize + 1 /\ mmemPtr[h] \in 1 .. MmemSize + 1 /\ mmemSize[h] \in Nat
        BY <1>3
      <4> QED BY <1>2, <4>2, <4>3
    <3>2. 1 \in 1 .. MmemSize + 1
      BY <1>2
    <3> QED BY <1>1, <1>3, <3>1, <3>2 DEF MmemFreesAt
  <2>4. mmemMem'.data \in [1 .. MmemSize -> {Nobody} \union (Handle \X Nat)]
    <3>1. ASSUME NEW c \in 1 .. MmemSize
          PROVE  (IF c < mmemPtr[h] THEN mmemMem.data[c]
                  ELSE IF c < Managed!Top - mmemSize[h] THEN mmemMem.data[c + mmemSize[h]] ELSE Nobody)
                 \in {Nobody} \union (Handle \X Nat)
      <4>1. c < Managed!Top - mmemSize[h] => c + mmemSize[h] \in 1 .. MmemSize
        BY <1>2, <1>3
      <4> QED BY <1>3, <4>1
    <3> QED BY <1>1, <3>1 DEF MmemFreesAt
  <2> QED BY <2>1, <2>2, <2>3, <2>4 DEF Managed!TypeOK
<1> QED BY <1>8, <1>9 DEF MmemIInv

LEMMA MmemInductive == MmemIInv /\ [Managed!Next]_Managed!vars => MmemIInv'
<1> SUFFICES ASSUME MmemIInv, [Managed!Next]_Managed!vars PROVE MmemIInv'
  OBVIOUS
<1>1. CASE \E h \in Handle : Managed!Free(h)
  BY <1>1, MmemFreeSound
<1>2. CASE \E h \in Handle : \E k \in MmemSizes : Managed!Alloc(h, k)
  BY <1>2, MmemAllocSound
<1>3. CASE UNCHANGED Managed!vars
  BY <1>3 DEF MmemIInv, Managed!TypeOK, Managed!Top, Managed!vars
<1> QED BY <1>1, <1>2, <1>3 DEF Managed!Next

LEMMA MmemInvariance == Managed!Spec => []MmemIInv
BY MmemInitSound, MmemInductive, PTL DEF Managed!Spec

LEMMA MmemIntegritySound == MmemIInv => Managed!Integrity
<1> SUFFICES ASSUME MmemIInv PROVE Managed!Integrity
  OBVIOUS
<1> DEFINE n == Len(mmemMem.list)
<1>1. /\ MmemTiled(mmemMem.list, n, mmemPtr, mmemSize, Managed!Top) /\ n \in Nat /\ DOMAIN mmemMem.list = 1 .. n
  BY MmemState DEF MmemTyped
<1>2. Managed!IsInjective(mmemMem.list)
  <2>1. \A i, j \in 1 .. n : mmemMem.list[i] = mmemMem.list[j] => i = j
    <3> SUFFICES ASSUME NEW i \in 1 .. n, NEW j \in 1 .. n, i # j
                 PROVE  mmemMem.list[i] # mmemMem.list[j]
      OBVIOUS
    <3>1. i < j \/ j < i
      BY <1>1
    <3> QED BY <1>1, <3>1 DEF MmemTiled, MmemOrdered
  <2> QED BY <1>1, <2>1 DEF Managed!IsInjective
<1>3. MmemChained(mmemMem.list, n, mmemPtr, mmemSize, Managed!Top)
  BY <1>1 DEF MmemTiled
<1>4. ASSUME NEW i \in 1 .. n
      PROVE  mmemPtr[mmemMem.list[i]] = IF i - 1 = 0 THEN 1 ELSE mmemPtr[mmemMem.list[i - 1]] + mmemSize[mmemMem.list[i - 1]]
  <2>1. CASE i = 1
    <3>1. i - 1 = 0 /\ n > 0
      BY <1>1, <2>1
    <3> QED BY <1>3, <2>1, <3>1 DEF MmemChained
  <2>2. CASE i # 1
    <3>1. i - 1 # 0 /\ i - 1 \in 1 .. n - 1 /\ (i - 1) + 1 = i
      BY <1>1, <2>2
    <3>2. mmemPtr[mmemMem.list[(i - 1) + 1]] = mmemPtr[mmemMem.list[i - 1]] + mmemSize[mmemMem.list[i - 1]]
      BY <1>3, <3>1 DEF MmemChained
    <3> QED BY <3>1, <3>2
  <2> QED BY <2>1, <2>2
<1>5. Managed!Top = IF n = 0 THEN 1 ELSE mmemPtr[mmemMem.list[n]] + mmemSize[mmemMem.list[n]]
  BY <1>3 DEF MmemChained
<1> QED BY <1>1, <1>2, <1>4, <1>5 DEF Managed!Integrity


\* mmem_free leaves no gap: the blocks lie one behind the other in the order of
\* the list, each struct mmem points at its own, and avail_memory is the rest.
THEOREM MmemIntegrityHolds == Managed!Spec => []Managed!Integrity
BY MmemInvariance, MmemIntegritySound, PTL

-----------------------------------------------------------------------------
(***************************************************************************)
(* lv_mem.  The entries fill the memory; each client's is in use and large *)
(* enough, and one in use that is nobody's, as lv_mem_realloc leaves it,   *)
(* has no data.                                                            *)
(***************************************************************************)
LEMMA LvMemBounds == LvCells \in Nat \ {0, 1} /\ LvSizes \subseteq Nat /\ MaxLost \in Nat
BY HeapsAssumption DEF Lv!LvMemAssumption

\* The headers of m are those of the entries H, which fill the memory.
LvMemShape(m, H) ==
  /\ H \subseteq 0 .. LvCells - 2 /\ 0 \in H
  /\ \A e \in H : m.size[e] \in Nat /\ e + 1 + m.size[e] \in H \union {LvCells}
  /\ \A e, f \in H : e < f => e + 1 + m.size[e] <= f

\* The type of the memory inside of an operation.
LvMemMemory == [size : [Lv!Cell -> Lv!Cell \union {Lv!None}], used : SUBSET Lv!Cell,
           data : [Lv!Cell -> {Nobody} \union (Handle \X Nat)]]

LvMemHeads(m) == {c \in Lv!Cell : m.size[c] # Lv!None}

\* Client h's entry is in use, as long as one it asked for, and no one else's.
LvMemHas(m, H, a, h) ==
  /\ a[h] \in m.used /\ a[h] \in H
  /\ \E s \in LvSizes : m.size[a[h]] = Lv!Units(s) \/ m.size[a[h]] = Lv!Units(s) + 1
  /\ \A g \in Handle : g # h => a[g] # a[h]

\* Entry e is in use, though no client has it.
LvMemOrphan(m, H, a, e) == e \in m.used /\ e \in H /\ \A h \in Handle : a[h] # e

\* Behind each free entry is one in use.
LvMemNeat(m, H) ==
  \A e \in H : e \notin m.used => e + 1 + m.size[e] \in m.used \union {LvCells}

\* The memory m, whose entries are H, serves the clients, who have the entries
\* a; none is lost but x and those without data; and if it is tidy, then no two
\* free entries lie side by side.
LvMemServes(m, H, a, neat, x) ==
  /\ m \in LvMemMemory /\ LvMemShape(m, H) /\ a \in [Handle -> Lv!Cell \union {Lv!None}]
  /\ \A h \in Handle : a[h] # Lv!None => LvMemHas(m, H, a, h)
  /\ \A e \in H : LvMemOrphan(m, H, a, e) /\ e # x => m.size[e] = 0
  /\ neat => LvMemNeat(m, H)

\* The headers found in memory are the entries; and mem.used says which are in use.
LvMemIInv ==
  /\ Lv!TypeOK /\ lvMem.used \subseteq LvMemHeads(lvMem)
  /\ LvMemServes(lvMem, LvMemHeads(lvMem), lvAt, lvTidy, Lv!None)
-----------------------------------------------------------------------------
(* The entries. *)

LEMMA LvMemCells == LvCells \in Nat /\ LvCells >= 2 /\ 0 \in Lv!Cell /\ Lv!None \notin Lv!Cell /\ Lv!Cell \subseteq Nat
BY LvMemBounds DEF Lv!Cell, Lv!None

\* The sizes of the entries, as what is behind them.
LEMMA LvMemShapeTiles ==
  ASSUME NEW m, NEW H, LvMemShape(m, H)
  PROVE  Tiles(H \union {LvCells}, [e \in H |-> e + 1 + m.size[e]], 0, LvCells)
<1> DEFINE g == [e \in H |-> e + 1 + m.size[e]]
           K == H \union {LvCells}
<1>1. H \subseteq 0 .. LvCells - 2 /\ 0 \in H
  BY DEF LvMemShape
<1>2. K \subseteq 0 .. LvCells /\ 0 \in K /\ LvCells \in K
  BY <1>1, LvMemCells
<1>3. ASSUME NEW e \in K \ {LvCells}
      PROVE  g[e] \in K /\ e < g[e] /\ \A f \in K : e < f => g[e] <= f
  <2>1. e \in H /\ e \in Nat /\ g[e] = e + 1 + m.size[e] /\ m.size[e] \in Nat /\ g[e] \in K
    BY <1>1 DEF LvMemShape
  <2>2. e < g[e]
    BY <2>1
  <2>3. ASSUME NEW f \in K, e < f PROVE g[e] <= f
    <3>1. CASE f \in H
      BY <2>1, <2>3, <3>1 DEF LvMemShape
    <3>2. CASE f = LvCells
      <4>1. g[e] \in 0 .. LvCells
        BY <1>2, <2>1
      <4> QED BY <3>2, <4>1
    <3> QED BY <3>1, <3>2
  <2> QED BY <2>1, <2>2, <2>3
<1> QED BY <1>2, <1>3 DEF Tiles

\* ent_get_next.
LEMMA LvMemNextIs ==
  ASSUME NEW m, NEW H, LvMemShape(m, H), NEW e \in H
  PROVE  Lv!NextOf(m, e) = IF e + 1 + m.size[e] = LvCells THEN Lv!None ELSE e + 1 + m.size[e]
<1>1. /\ H \subseteq 0 .. LvCells - 2 /\ e \in Nat /\ m.size[e] \in Nat
      /\ e + 1 + m.size[e] \in H \union {LvCells}
  BY DEF LvMemShape
<1>2. e + 1 + m.size[e] = LvCells \/ e + 1 + m.size[e] \in 0 .. LvCells - 2
  BY <1>1
<1> QED BY <1>2, LvMemCells DEF Lv!NextOf

LEMMA LvMemEntriesDef ==
  ASSUME NEW m, NEW H, LvMemShape(m, H)
  PROVE  /\ Lv!Entries(m)[1] = 0
         /\ \A i \in 1 .. LvCells - 1 :
              Lv!Entries(m)[i + 1] = IF Lv!Entries(m)[i] = Lv!None THEN Lv!None ELSE Lv!NextOf(m, Lv!Entries(m)[i])
<1> DEFINE S == H \union {Lv!None}
           f == [e \in S |-> IF e = Lv!None THEN Lv!None ELSE Lv!NextOf(m, e)]
           W(w) == w = [i \in 1 .. LvCells |->
                          IF i = 1 THEN 0
                          ELSE IF w[i - 1] = Lv!None THEN Lv!None ELSE Lv!NextOf(m, w[i - 1])]
<1>1. 0 \in H /\ H \subseteq 0 .. LvCells - 2 /\ Lv!None \notin H
  BY DEF LvMemShape, Lv!None
<1>2. f \in [S -> S]
  <2>1. ASSUME NEW e \in H PROVE Lv!NextOf(m, e) \in S
    BY <2>1, LvMemNextIs DEF LvMemShape
  <2> QED BY <2>1, <1>1
<1>3. \E w : W(w)
  <2>1. 0 \in S /\ LvCells \in Nat
    BY <1>1, LvMemCells
  <2>2. PICK w \in [1 .. LvCells -> S] : IsWalk(w, 0, f, LvCells)
    <3> HIDE DEF f, S
    <3> QED BY <1>2, <2>1, WalkExists
  <2>3. ASSUME NEW i \in 1 .. LvCells, i # 1
        PROVE  f[w[i - 1]] = IF w[i - 1] = Lv!None THEN Lv!None ELSE Lv!NextOf(m, w[i - 1])
    <3>1. i - 1 \in 1 .. LvCells
      BY <2>3, LvMemCells
    <3>2. w[i - 1] \in S
      BY <3>1
    <3> QED BY <3>2
  <2>4. W(w)
    <3> HIDE DEF f
    <3> QED BY <2>2, <2>3 DEF IsWalk
  <2> QED BY <2>4
<1>4. Lv!Entries(m) = CHOOSE w : W(w)
  BY DEF Lv!Entries
<1>5. W(Lv!Entries(m))
  <2> HIDE DEF W
  <2> QED BY <1>3, <1>4
<1> HIDE DEF S, f
<1>6. 1 \in 1 .. LvCells
  BY LvMemCells
<1>7. ASSUME NEW i \in 1 .. LvCells - 1
      PROVE  Lv!Entries(m)[i + 1] = IF Lv!Entries(m)[i] = Lv!None THEN Lv!None ELSE Lv!NextOf(m, Lv!Entries(m)[i])
  <2>1. i + 1 \in 1 .. LvCells /\ i + 1 # 1 /\ (i + 1) - 1 = i
    BY LvMemCells
  <2> QED BY <1>5, <2>1
<1> QED BY <1>5, <1>6, <1>7

LEMMA LvMemEntriesAre ==
  ASSUME NEW m, NEW H, LvMemShape(m, H)
  PROVE  Lv!EntrySet(m) = H
<1> DEFINE w == Lv!Entries(m)
           g == [e \in H |-> e + 1 + m.size[e]]
           K == H \union {LvCells}
<1>1. w[1] = 0 /\ \A i \in 1 .. LvCells - 1 : w[i + 1] = IF w[i] = Lv!None THEN Lv!None ELSE Lv!NextOf(m, w[i])
  BY LvMemEntriesDef
<1>2. 0 \in H /\ H \subseteq 0 .. LvCells - 2 /\ Lv!None \notin H
  BY DEF LvMemShape, Lv!None
<1>3. LvCells \in Nat /\ LvCells \notin H
  BY <1>2, LvMemCells
<1>4. \A i \in 1 .. LvCells : w[i] \in H \union {Lv!None}
  <2>1. ASSUME NEW i \in 1 .. LvCells - 1, w[i] \in H \union {Lv!None} PROVE w[i + 1] \in H \union {Lv!None}
    <3>1. CASE w[i] = Lv!None
      BY <1>1, <3>1
    <3>2. CASE w[i] # Lv!None
      <4>1. w[i] \in H /\ w[i + 1] = Lv!NextOf(m, w[i])
        BY <1>1, <2>1, <3>2
      <4> QED BY <4>1, LvMemNextIs DEF LvMemShape
    <3> QED BY <3>1, <3>2
  <2> DEFINE S == H \union {Lv!None}
  <2>2. w[1] \in S /\ \A i \in 1 .. LvCells - 1 : w[i] \in S => w[i + 1] \in S
    BY <1>1, <1>2, <2>1
  <2> HIDE DEF w, S
  <2>3. \A i \in 1 .. LvCells : w[i] \in S
    BY <1>3, <2>2, WalkStays
  <2> QED BY <2>3 DEF S
<1>5. Tiles(K, g, 0, LvCells)
  BY LvMemShapeTiles
<1>6. ASSUME NEW i \in 1 .. LvCells - 1, w[i] \in K \ {LvCells}, g[w[i]] \in H
      PROVE  w[i + 1] = g[w[i]]
  <2>1. w[i] \in H /\ w[i] # Lv!None /\ g[w[i]] = w[i] + 1 + m.size[w[i]]
    BY <1>2, <1>6
  <2>2. Lv!NextOf(m, w[i]) = g[w[i]]
    BY <1>3, <1>6, <2>1, LvMemNextIs
  <2> QED BY <1>1, <2>1, <2>2
<1>7. \A e \in H : \E i \in 1 .. LvCells : w[i] = e
  <2>1. K \ {LvCells} \subseteq H /\ H \subseteq K /\ 0 \in Nat
    BY <1>3
  <2>2. Within(H, 0, LvCells)
    BY <1>2, <1>3 DEF Within
  <2>3. Follows(w, g, K, H, LvCells, LvCells)
    BY <1>6 DEF Follows
  <2> HIDE DEF w, g, K
  <2>4. Reaches(w, H, LvCells)
    BY <1>1, <1>2, <1>3, <1>5, <2>1, <2>2, <2>3, WalkReaches
  <2> QED BY <2>4 DEF Reaches
<1> QED BY <1>2, <1>4, <1>7 DEF Lv!EntrySet
-----------------------------------------------------------------------------
(* The operations on the memory. *)

\* What Trunc makes of m: t, with the entries K.
LvMemTruncated(m, H, e, n, t, K) ==
  /\ t \in LvMemMemory /\ t.data = m.data /\ LvMemShape(t, K)
  /\ t.size[e] \in {n, n + 1} /\ \A f \in H \ {e} : t.size[f] = m.size[f]
  /\ \/ K = H /\ t.used = m.used /\ t.size[e] = m.size[e]
     \/ \E r \in Lv!Cell \ H : /\ K = H \union {r} /\ t.used = m.used \ {r}
                               /\ e + 1 + t.size[e] = r /\ r + 1 + t.size[r] = e + 1 + m.size[e]

LEMMA LvMemTruncIs ==
  ASSUME NEW m \in LvMemMemory, NEW H, LvMemShape(m, H), NEW e \in H, NEW n \in Nat, n <= m.size[e]
  PROVE  \E K : LvMemTruncated(m, H, e, n, Lv!Trunc(m, e, n), K)
<1>1. /\ H \subseteq 0 .. LvCells - 2 /\ 0 \in H /\ e \in Nat /\ m.size[e] \in Nat
      /\ e + 1 + m.size[e] \in H \union {LvCells}
  BY DEF LvMemShape
<1>0. \A x \in H : x \in 0 .. LvCells - 2 /\ x \in Nat
  BY ONLY <1>1
<1>2. CASE m.size[e] \in {n, n + 1}
  <2>1. Lv!Trunc(m, e, n) = m
    BY <1>2 DEF Lv!Trunc
  <2>2. LvMemTruncated(m, H, e, n, m, H)
    BY <1>2 DEF LvMemTruncated
  <2> QED BY <2>1, <2>2
<1>3. CASE m.size[e] \notin {n, n + 1}
  <2> DEFINE t == Lv!Trunc(m, e, n)
             r == e + 1 + n
             K == H \union {r}
  <2>1. m.size[e] >= n + 2
    BY <1>1, <1>3
  <2>2. r + 1 + (m.size[e] - n - 1) = e + 1 + m.size[e]
    BY <1>1
  <2>3. e + 1 + m.size[e] \in 0 .. LvCells
    BY <1>1, LvMemCells
  <2>4. e < r /\ r \in 0 .. LvCells - 2 /\ r \in Lv!Cell /\ e \in Lv!Cell /\ r # e
    BY <1>1, <2>1, <2>3, LvMemCells DEF Lv!Cell
  <2>5. r \notin H
    <3>1. SUFFICES ASSUME r \in H PROVE FALSE
      OBVIOUS
    <3>2. e + 1 + m.size[e] <= r
      BY <2>4, <3>1 DEF LvMemShape
    <3> QED BY <1>1, <2>1, <3>2
  <2>6. m.size[e] - n - 1 \in Lv!Cell /\ n \in Lv!Cell /\ m.size[e] - n - 1 \in Nat
    BY <1>1, <2>1, <2>3, LvMemCells DEF Lv!Cell
  <2>7. m.size \in [Lv!Cell -> Lv!Cell \union {Lv!None}] /\ m.used \subseteq Lv!Cell
        /\ m.data \in [Lv!Cell -> {Nobody} \union (Handle \X Nat)]
    BY DEF LvMemMemory
  <2>8. t = [m EXCEPT !.size[r] = m.size[e] - n - 1, !.size[e] = n, !.used = @ \ {r}]
    BY <1>3 DEF Lv!Trunc
  <2>9. /\ t.size = [[m.size EXCEPT ![r] = m.size[e] - n - 1] EXCEPT ![e] = n]
        /\ t.used = m.used \ {r} /\ t.data = m.data
        /\ t \in LvMemMemory
    <3> HIDE DEF t, r
    <3>1. /\ t.size = [[m.size EXCEPT ![r] = m.size[e] - n - 1] EXCEPT ![e] = n]
          /\ t.used = m.used \ {r} /\ t.data = m.data
          /\ t = [size |-> t.size, used |-> t.used, data |-> t.data]
      BY <2>8 DEF LvMemMemory
    <3>2. t.size \in [Lv!Cell -> Lv!Cell \union {Lv!None}]
      <4> DEFINE z == [m.size EXCEPT ![r] = m.size[e] - n - 1]
      <4>1. z \in [Lv!Cell -> Lv!Cell \union {Lv!None}]
        BY <2>6, <2>7
      <4> HIDE DEF z
      <4>2. [z EXCEPT ![e] = n] \in [Lv!Cell -> Lv!Cell \union {Lv!None}]
        BY <2>6, <4>1
      <4> QED BY <3>1, <4>2 DEF z
    <3>3. t.used \in SUBSET Lv!Cell /\ t.data \in [Lv!Cell -> {Nobody} \union (Handle \X Nat)]
      BY <2>7, <3>1
    <3> QED BY <3>1, <3>2, <3>3 DEF LvMemMemory
  <2>10. /\ t.size[e] = n /\ t.size[r] = m.size[e] - n - 1
         /\ \A f \in H \ {e} : t.size[f] = m.size[f]
    <3> HIDE DEF t, r
    <3>1. \A f \in H : f \in Lv!Cell
      BY <1>1, LvMemCells DEF Lv!Cell
    <3> QED BY <2>4, <2>5, <2>7, <2>9, <3>1
  <2> HIDE DEF t
  <2>11. LvMemShape(t, K)
    <3>1. K \subseteq 0 .. LvCells - 2 /\ 0 \in K
      BY <1>1, <2>4
    <3>2. ASSUME NEW f \in K PROVE t.size[f] \in Nat /\ f + 1 + t.size[f] \in K \union {LvCells}
      <4>1. CASE f = e
        BY <1>1, <2>10, <4>1
      <4>2. CASE f = r
        BY <1>1, <2>2, <2>6, <2>10, <4>2
      <4>3. CASE f # e /\ f # r
        <5>1. f \in H \ {e} /\ t.size[f] = m.size[f]
          BY <2>10, <4>3
        <5> QED BY <5>1 DEF LvMemShape
      <4> QED BY <4>1, <4>2, <4>3
    <3>3. ASSUME NEW f \in K, NEW k \in K, f < k PROVE f + 1 + t.size[f] <= k
      <4>1. CASE f \in H /\ k \in H /\ f # e
        BY <2>10, <3>3, <4>1 DEF LvMemShape
      <4>2. CASE f = e /\ k \in H
        <5>1. e + 1 + m.size[e] <= k /\ k \in 0 .. LvCells - 2
          BY <1>1, <3>3, <4>2 DEF LvMemShape
        <5> QED BY <1>1, <2>1, <2>10, <4>2, <5>1
      <4>3. CASE f = r /\ k \in H
        <5>1. k \in 0 .. LvCells - 2 /\ e < k
          BY <1>1, <2>4, <3>3, <4>3, SMTT(20)
        <5>2. e + 1 + m.size[e] <= k
          BY <4>3, <5>1 DEF LvMemShape
        <5> QED BY <2>2, <2>10, <4>3, <5>2
      <4>4. CASE f \in H /\ k = r
        <5>1. f \in 0 .. LvCells - 2 /\ (f < e \/ f = e \/ e < f)
          <6>1. f \in 0 .. LvCells - 2 /\ f \in Nat /\ e \in Nat
            BY ONLY <1>0, <1>1, <4>4
          <6> QED BY ONLY <6>1
        <5>2. CASE f < e
          <6>1. f + 1 + m.size[f] <= e /\ t.size[f] = m.size[f] /\ m.size[f] \in Nat
            BY <2>10, <4>4, <5>2 DEF LvMemShape
          <6> QED BY <1>1, <2>4, <4>4, <5>1, <6>1
        <5>3. CASE f = e
          BY <1>1, <2>10, <4>4, <5>3
        <5>4. CASE e < f
          <6>1. e + 1 + m.size[e] <= f
            BY <4>4, <5>4 DEF LvMemShape
          <6> QED BY <1>1, <2>1, <3>3, <4>4, <5>1, <6>1
        <5> QED BY <5>1, <5>2, <5>3, <5>4
      <4>5. f = r => k # r
        BY <2>4, <3>3
      <4> QED BY <4>1, <4>2, <4>3, <4>4, <4>5
    <3> QED BY <3>1, <3>2, <3>3 DEF LvMemShape
  <2>12. LvMemTruncated(m, H, e, n, t, K)
    <3> HIDE DEF r
    <3>1. e + 1 + t.size[e] = r
      BY <2>10 DEF r
    <3>2. r + 1 + t.size[r] = e + 1 + m.size[e]
      BY <2>2, <2>10
    <3> QED BY <2>4, <2>5, <2>9, <2>10, <2>11, <3>1, <3>2 DEF LvMemTruncated
  <2> QED BY <2>12 DEF t
<1> QED BY <1>2, <1>3

\* Up to where the free entries behind e follow one another.
LvMemUpto(m, H, e, j) ==
  /\ j \in H \union {LvCells} /\ e < j /\ j \in m.used \union {LvCells}
  /\ \A k \in H : e < k /\ k < j => k \notin m.used

LEMMA LvMemJoinedIs ==
  ASSUME NEW m, NEW H, LvMemShape(m, H), NEW e \in H
  PROVE  \E j : LvMemUpto(m, H, e, j) /\ Lv!JoinedSize(m, e) = j - e - 1
<1> DEFINE run == {n \in H : n >= e /\ \A k \in H : e < k /\ k <= n => k \notin m.used}
<1>1. H \subseteq 0 .. LvCells - 2 /\ LvCells \in Nat /\ LvCells - 2 \in Nat
  BY LvMemCells DEF LvMemShape
<1>2. Lv!EntrySet(m) = H
  BY LvMemEntriesAre
<1>3. run \subseteq 0 .. LvCells - 2 /\ e \in run
  <2>1. e \in Nat /\ e >= e
    BY <1>1
  <2>2. ASSUME NEW k \in H, e < k, k <= e PROVE FALSE
    <3>1. k \in Nat
      BY <1>1
    <3> QED BY <2>1, <2>2, <3>1
  <2> QED BY <1>1, <2>1, <2>2
<1>4. PICK l \in run : \A k \in run : k <= l
  <2> HIDE DEF run
  <2>1. run \in SUBSET (0 .. LvCells - 2) /\ run # {}
    BY <1>3
  <2> QED BY <1>1, <2>1, Greatest
<1> DEFINE last == CHOOSE n \in run : \A k \in run : k <= n
<1>5. last = l
  <2> DEFINE Top(n) == n \in run /\ \A k \in run : k <= n
  <2>1. last \in run /\ \A k \in run : k <= last
    <3> HIDE DEF run
    <3> QED BY <1>4
  <2>2. last <= l /\ l <= last /\ l \in Nat /\ last \in Nat
    <3> HIDE DEF run, last
    <3>1. l \in run /\ last \in run
      BY <1>4, <2>1
    <3> QED BY <1>1, <1>3, <1>4, <2>1, <3>1
  <2> QED BY <2>2
<1>6. Lv!JoinedSize(m, e) = l + m.size[l] - e
  BY <1>2, <1>5 DEF Lv!JoinedSize
<1> DEFINE j == l + 1 + m.size[l]
<1>7. /\ l \in H /\ l >= e /\ l \in Nat /\ e \in Nat /\ m.size[l] \in Nat
      /\ j \in H \union {LvCells}
  BY <1>1 DEF LvMemShape
<1>8. e < j /\ j = l + 1 + m.size[l] /\ l < j /\ j \in Nat
  BY <1>7
<1>9. ASSUME NEW k \in H, e < k, k < j PROVE k \notin m.used
  <2>1. k \in Nat /\ ~(l < k)
    <3>1. l < k => j <= k
      BY <1>7 DEF LvMemShape
    <3>2. k \in Nat
      BY <1>1
    <3> QED BY <1>8, <1>9, <3>1, <3>2
  <2>2. k <= l
    BY <1>7, <2>1
  <2> QED BY <1>9, <2>2
<1>10. j \in H => j \in m.used
  <2>1. SUFFICES ASSUME j \in H, j \notin m.used PROVE FALSE
    OBVIOUS
  <2>2. \A k \in H : e < k /\ k <= j => k \notin m.used
    <3>1. SUFFICES ASSUME NEW k \in H, e < k, k <= j PROVE k \notin m.used
      OBVIOUS
    <3>2. k < j \/ k = j
      BY <1>1, <1>8, <3>1
    <3> QED BY <1>9, <2>1, <3>1, <3>2
  <2>3. j \in run
    BY <1>7, <1>8, <2>1, <2>2
  <2>4. j <= l
    BY <1>4, <2>3
  <2> QED BY <1>7, <1>8, <2>4
<1> HIDE DEF j
<1>11. LvMemUpto(m, H, e, j) /\ Lv!JoinedSize(m, e) = j - e - 1
  <2>1. Lv!JoinedSize(m, e) = j - e - 1
    BY <1>6, <1>7, <1>8
  <2> QED BY <1>7, <1>8, <1>9, <1>10, <2>1 DEF LvMemUpto
<1> QED BY <1>11
-----------------------------------------------------------------------------
(* What the operations owe the clients. *)

LEMMA LvMemUnitsNat == ASSUME NEW s \in LvSizes PROVE s \in Nat /\ Lv!Units(s) \in Nat
BY LvMemBounds DEF Lv!Units

LEMMA LvMemMemoryIs ==
  ASSUME NEW m \in LvMemMemory
  PROVE  /\ m.size \in [Lv!Cell -> Lv!Cell \union {Lv!None}] /\ m.used \subseteq Lv!Cell
         /\ m.data \in [Lv!Cell -> {Nobody} \union (Handle \X Nat)]
BY DEF LvMemMemory

LEMMA LvMemShapeIs ==
  ASSUME NEW m, NEW H, LvMemShape(m, H)
  PROVE  /\ H \subseteq 0 .. LvCells - 2 /\ 0 \in H /\ H \subseteq Lv!Cell
         /\ \A e \in H : /\ e \in Nat /\ m.size[e] \in Nat /\ e # Lv!None /\ e # LvCells
                         /\ e + 1 + m.size[e] \in H \union {LvCells}
<1>1. H \subseteq 0 .. LvCells - 2 /\ 0 \in H
  BY DEF LvMemShape
<1>2. \A e \in 0 .. LvCells - 2 : e \in Nat /\ e # Lv!None /\ e # LvCells /\ e \in Lv!Cell
  BY LvMemCells DEF Lv!Cell, Lv!None
<1> QED BY <1>1, <1>2 DEF LvMemShape

\* Only the sizes of the entries matter.
LEMMA LvMemSameShape ==
  ASSUME NEW m, NEW H, LvMemShape(m, H), NEW n, \A e \in H : n.size[e] = m.size[e]
  PROVE  LvMemShape(n, H)
BY DEF LvMemShape

\* The entry of a is cut to what is asked for, and it is given to h.
LEMMA LvMemAllocServes ==
  ASSUME NEW m, NEW H, NEW a, NEW neat, LvMemServes(m, H, a, neat, Lv!None), m.used \subseteq H,
         NEW h \in Handle, NEW e \in H, e \notin m.used, NEW s \in LvSizes, Lv!Units(s) <= m.size[e]
  PROVE  \E K : /\ LvMemServes(Lv!Alloc(m, e, Lv!Units(s)), K, [a EXCEPT ![h] = e], neat, a[h])
                /\ H \subseteq K
                /\ \A f \in H : f # e => Lv!Alloc(m, e, Lv!Units(s)).size[f] = m.size[f]
                /\ Lv!Alloc(m, e, Lv!Units(s)).data = m.data
                /\ m.used \subseteq Lv!Alloc(m, e, Lv!Units(s)).used
<1> DEFINE n == Lv!Units(s)
           t == Lv!Trunc(m, e, n)
           l == Lv!Alloc(m, e, n)
           b == [a EXCEPT ![h] = e]
<1>1. /\ m \in LvMemMemory /\ LvMemShape(m, H) /\ a \in [Handle -> Lv!Cell \union {Lv!None}] /\ n \in Nat
      /\ H \subseteq Lv!Cell
  BY LvMemUnitsNat, LvMemShapeIs DEF LvMemServes
<1>2. PICK K : LvMemTruncated(m, H, e, n, t, K)
  BY <1>1, LvMemTruncIs
<1>3. t \in LvMemMemory /\ l = [t EXCEPT !.used = @ \union {e}]
  BY <1>2 DEF LvMemTruncated, Lv!Alloc
<1> HIDE DEF n, t, l
<1>4. l \in LvMemMemory /\ l.size = t.size /\ l.data = t.data /\ l.used = t.used \union {e}
  <2>1. l.size = t.size /\ l.data = t.data /\ l.used = t.used \union {e}
    BY <1>3 DEF LvMemMemory
  <2>2. l = [size |-> l.size, used |-> l.used, data |-> l.data]
    BY <1>3 DEF LvMemMemory
  <2>3. e \in Lv!Cell
    BY <1>1
  <2> QED BY <1>3, <2>1, <2>2, <2>3 DEF LvMemMemory
<1>5. /\ l.data = m.data /\ LvMemShape(l, K) /\ H \subseteq K
      /\ l.size[e] = n \/ l.size[e] = n + 1
      /\ \A f \in H : f # e => l.size[f] = m.size[f]
  <2>1. LvMemShape(t, K) /\ H \subseteq K
    BY <1>2 DEF LvMemTruncated
  <2>2. LvMemShape(l, K)
    BY <1>4, <2>1, LvMemSameShape
  <2> QED BY <1>2, <1>4, <2>1, <2>2 DEF LvMemTruncated
<1>6. \/ K = H /\ l.used = m.used \union {e} /\ l.size[e] = m.size[e]
      \/ \E r \in Lv!Cell : /\ r \notin H /\ K = H \union {r}
                            /\ l.used = (m.used \ {r}) \union {e}
                            /\ r + 1 + l.size[r] = e + 1 + m.size[e]
  BY <1>2, <1>4 DEF LvMemTruncated
<1>7. m.used \subseteq l.used /\ l.used \subseteq m.used \union {e}
      /\ \A f \in K : f \in l.used => f \in H
  BY <1>6
<1>8. b \in [Handle -> Lv!Cell \union {Lv!None}] /\ b[h] = e /\ \A g \in Handle : g # h => b[g] = a[g]
  BY <1>1
<1>9. \A g \in Handle : a[g] # Lv!None => /\ a[g] \in m.used /\ a[g] \in H
                                          /\ \A k \in Handle : k # g => a[k] # a[g]
  BY DEF LvMemServes, LvMemHas
<1> HIDE DEF b
<1>10. ASSUME NEW g \in Handle, b[g] # Lv!None PROVE LvMemHas(l, K, b, g)
  <2>1. CASE g = h
    <3>1. \A k \in Handle : k # h => b[k] # e
      <4>1. SUFFICES ASSUME NEW k \in Handle, k # h, a[k] = e PROVE FALSE
        BY <1>8
      <4>2. e # Lv!None
        BY <1>1, LvMemShapeIs
      <4> QED BY <1>9, <4>1, <4>2
    <3> QED BY <1>4, <1>5, <1>8, <2>1, <3>1 DEF LvMemHas, n
  <2>2. CASE g # h
    <3>1. b[g] = a[g] /\ a[g] # Lv!None /\ LvMemHas(m, H, a, g)
      BY <1>8, <1>10, <2>2 DEF LvMemServes
    <3>2. a[g] \in m.used /\ a[g] \in H /\ a[g] # e
      BY <1>9, <3>1
    <3>3. l.size[a[g]] = m.size[a[g]] /\ a[g] \in l.used /\ a[g] \in K
      BY <1>5, <1>7, <3>2
    <3>4. \A k \in Handle : k # g => b[k] # b[g]
      BY <1>8, <1>9, <3>1, <3>2
    <3> QED BY <3>1, <3>3, <3>4 DEF LvMemHas
  <2> QED BY <2>1, <2>2
<1>11. ASSUME NEW f \in K, LvMemOrphan(l, K, b, f), f # a[h] PROVE l.size[f] = 0
  <2>1. f # e /\ f \in l.used
    BY <1>8, <1>11 DEF LvMemOrphan
  <2>2. f \in m.used /\ f \in H
    BY <1>7, <2>1
  <2>3. \A g \in Handle : a[g] # f
    BY <1>8, <1>11 DEF LvMemOrphan
  <2>4. f # Lv!None
    BY <1>1, <2>2, LvMemShapeIs
  <2>5. m.size[f] = 0
    BY <2>2, <2>3, <2>4 DEF LvMemServes, LvMemOrphan
  <2> QED BY <1>5, <2>1, <2>2, <2>5
<1>12. ASSUME neat PROVE LvMemNeat(l, K)
  <2>1. \A f \in H : f \notin m.used => f + 1 + m.size[f] \in m.used \union {LvCells}
    BY <1>12 DEF LvMemServes, LvMemNeat
  <2>2. SUFFICES ASSUME NEW f \in K, f \notin l.used
                 PROVE  f + 1 + l.size[f] \in l.used \union {LvCells}
    BY DEF LvMemNeat
  <2>3. CASE f \in H
    <3>1. f # e /\ f \notin m.used /\ l.size[f] = m.size[f]
      BY <1>4, <1>5, <1>7, <2>2, <2>3
    <3> QED BY <1>7, <2>1, <2>3, <3>1
  <2>4. CASE f \notin H
    <3>1. f + 1 + l.size[f] = e + 1 + m.size[e]
      BY <1>6, <2>4
    <3> QED BY <1>7, <2>1, <3>1
  <2> QED BY <2>3, <2>4
<1>13. LvMemServes(l, K, b, neat, a[h])
  BY <1>4, <1>5, <1>8, <1>10, <1>11, <1>12 DEF LvMemServes
<1> QED BY <1>5, <1>7, <1>13 DEF l, n, b
\* Entry e, which no client has, is given back.
LEMMA LvMemReleaseServes ==
  ASSUME NEW m, NEW H, NEW a, NEW neat, NEW e \in H, LvMemServes(m, H, a, neat, e),
         \A h \in Handle : a[h] # e
  PROVE  \E K : LvMemServes(Lv!Release(m, e), K, a, FALSE, Lv!None)
<1> DEFINE l == Lv!Release(m, e)
<1>1. /\ m \in LvMemMemory /\ LvMemShape(m, H) /\ a \in [Handle -> Lv!Cell \union {Lv!None}]
      /\ H \subseteq Lv!Cell /\ e \in Nat /\ LvCells \in Nat /\ LvCells \notin H
      /\ \A f \in H : f \in Nat /\ m.size[f] \in Nat /\ f + 1 + m.size[f] \in H \union {LvCells}
  BY LvMemShapeIs, LvMemCells DEF LvMemServes
<1>2. PICK j : LvMemUpto(m, H, e, j) /\ Lv!JoinedSize(m, e) = j - e - 1
  BY <1>1, LvMemJoinedIs
<1> DEFINE K == {k \in H : k <= e \/ j <= k}
<1>3. /\ j \in H \union {LvCells} /\ e < j /\ j \in Nat /\ j <= LvCells
      /\ \A k \in H : e < k /\ k < j => k \notin m.used
  <2>1. j \in 0 .. LvCells
    BY <1>1, <1>2, LvMemShapeIs DEF LvMemUpto
  <2> QED BY <1>2, <2>1 DEF LvMemUpto
<1>4. l = [m EXCEPT !.used = @ \ {e}, !.size[e] = j - e - 1]
  BY <1>2 DEF Lv!Release
<1> HIDE DEF l
<1>5. /\ l \in LvMemMemory /\ l.used = m.used \ {e} /\ l.data = m.data
      /\ l.size[e] = j - e - 1 /\ \A f \in H : f # e => l.size[f] = m.size[f]
  <2>1. /\ l.size = [m.size EXCEPT ![e] = j - e - 1] /\ l.used = m.used \ {e}
        /\ l.data = m.data /\ l = [size |-> l.size, used |-> l.used, data |-> l.data]
    <3>1. m \in LvMemMemory
      BY <1>1
    <3> QED BY <1>4, <3>1 DEF LvMemMemory
  <2>2. j - e - 1 \in Lv!Cell
    BY <1>1, <1>3, LvMemCells DEF Lv!Cell
  <2>3. m.size \in [Lv!Cell -> Lv!Cell \union {Lv!None}] /\ m.used \subseteq Lv!Cell
        /\ m.data \in [Lv!Cell -> {Nobody} \union (Handle \X Nat)]
    BY <1>1, LvMemMemoryIs
  <2>4. l.size \in [Lv!Cell -> Lv!Cell \union {Lv!None}]
    BY <2>1, <2>2, <2>3
  <2>5. l \in LvMemMemory
    BY <2>1, <2>3, <2>4 DEF LvMemMemory
  <2>6. l.size[e] = j - e - 1 /\ \A f \in H : f # e => l.size[f] = m.size[f]
    BY <1>1, <2>1, <2>3
  <2> QED BY <2>1, <2>5, <2>6
<1>6. LvMemShape(l, K)
  <2>1. K \subseteq 0 .. LvCells - 2 /\ 0 \in K /\ K \subseteq H
    <3>1. H \subseteq 0 .. LvCells - 2 /\ 0 \in H /\ 0 <= e
      BY <1>1 DEF LvMemShape
    <3> QED BY <3>1
  <2>2. ASSUME NEW f \in K PROVE l.size[f] \in Nat /\ f + 1 + l.size[f] \in K \union {LvCells}
    <3>1. CASE f = e
      <4>1. e + 1 + l.size[f] = j /\ l.size[f] \in Nat
        BY <1>1, <1>3, <1>5, <3>1
      <4>2. j \in K \union {LvCells}
        BY <1>3
      <4> QED BY <3>1, <4>1, <4>2
    <3>2. CASE f # e
      <4> DEFINE n == f + 1 + m.size[f]
      <4>1. l.size[f] = m.size[f] /\ n \in H \union {LvCells} /\ n \in Nat /\ f \in Nat
        BY <1>1, <1>5, <3>2
      <4>2. n \in H => n <= e \/ j <= n
        <5>1. CASE f < e
          <6>1. n <= e
            BY <1>1, <2>1, <5>1 DEF LvMemShape
          <6> QED BY <6>1
        <5>2. CASE ~(f < e)
          <6>1. j <= f
            BY <1>1, <3>2, <5>2, <4>1
          <6>2. f < n
            BY <1>1, <2>1, <4>1
          <6> QED BY <1>3, <4>1, <6>1, <6>2
        <5> QED BY <5>1, <5>2
      <4> QED BY <1>1, <4>1, <4>2, <2>1
    <3> QED BY <3>1, <3>2
  <2>3. ASSUME NEW f \in K, NEW k \in K, f < k PROVE f + 1 + l.size[f] <= k
    <3>1. CASE f = e
      <4>1. j <= k /\ e + 1 + (j - e - 1) = j
        BY <1>1, <1>3, <2>3, <3>1
      <4> QED BY <1>5, <3>1, <4>1
    <3>2. CASE f # e
      BY <1>1, <1>5, <2>1, <2>3, <3>2 DEF LvMemShape
    <3> QED BY <3>1, <3>2
  <2> QED BY <2>1, <2>2, <2>3 DEF LvMemShape
<1>7. \A f \in H : f \in m.used => f \in K
  <2>1. SUFFICES ASSUME NEW f \in H, f \in m.used PROVE f \in K
    OBVIOUS
  <2>2. ~(e < f /\ f < j) /\ f \in Nat
    BY <1>1, <1>3, <2>1
  <2> QED BY <1>1, <1>3, <2>2
<1>8. ASSUME NEW g \in Handle, a[g] # Lv!None PROVE LvMemHas(l, K, a, g)
  <2>1. LvMemHas(m, H, a, g) /\ a[g] # e
    BY <1>8 DEF LvMemServes
  <2>2. a[g] \in m.used /\ a[g] \in H
    BY <2>1 DEF LvMemHas
  <2>3. a[g] \in l.used /\ a[g] \in K /\ l.size[a[g]] = m.size[a[g]]
    BY <1>5, <1>7, <2>1, <2>2
  <2> QED BY <2>1, <2>3 DEF LvMemHas
<1>9. ASSUME NEW f \in K, LvMemOrphan(l, K, a, f) PROVE l.size[f] = 0
  <2>1. f # e /\ f \in H /\ LvMemOrphan(m, H, a, f)
    BY <1>5, <1>9 DEF LvMemOrphan
  <2> QED BY <1>5, <2>1 DEF LvMemServes
<1>10. LvMemServes(l, K, a, FALSE, Lv!None)
  BY <1>1, <1>5, <1>6, <1>8, <1>9 DEF LvMemServes
<1> QED BY <1>10 DEF l

\* The entry h has is cut.
LEMMA LvMemTruncServes ==
  ASSUME NEW m, NEW H, NEW a, NEW neat, LvMemServes(m, H, a, neat, Lv!None), m.used \subseteq H,
         NEW h \in Handle, a[h] # Lv!None, NEW s \in LvSizes, Lv!Units(s) <= m.size[a[h]]
  PROVE  \E K : /\ LvMemServes(Lv!Trunc(m, a[h], Lv!Units(s)), K, a, FALSE, Lv!None)
                /\ Lv!Trunc(m, a[h], Lv!Units(s)).data = m.data
<1> DEFINE e == a[h]
           n == Lv!Units(s)
           l == Lv!Trunc(m, e, n)
<1>1. /\ m \in LvMemMemory /\ LvMemShape(m, H) /\ a \in [Handle -> Lv!Cell \union {Lv!None}] /\ n \in Nat
      /\ H \subseteq Lv!Cell /\ e \in H
  BY LvMemUnitsNat, LvMemShapeIs DEF LvMemServes, LvMemHas
<1>2. PICK K : LvMemTruncated(m, H, e, n, l, K)
  BY <1>1, LvMemTruncIs
<1> HIDE DEF l, n, e
<1>3. /\ l \in LvMemMemory /\ l.data = m.data /\ LvMemShape(l, K) /\ H \subseteq K
      /\ l.size[e] = n \/ l.size[e] = n + 1
      /\ \A f \in H : f # e => l.size[f] = m.size[f]
  BY <1>2 DEF LvMemTruncated
<1>4. m.used \subseteq l.used /\ l.used \subseteq m.used
  BY <1>2 DEF LvMemTruncated
<1>5. ASSUME NEW g \in Handle, a[g] # Lv!None PROVE LvMemHas(l, K, a, g)
  <2>1. LvMemHas(m, H, a, g)
    BY <1>5 DEF LvMemServes
  <2>2. a[g] \in l.used /\ a[g] \in K /\ a[g] \in H /\ \A k \in Handle : k # g => a[k] # a[g]
    BY <1>3, <1>4, <2>1 DEF LvMemHas
  <2>3. CASE a[g] = e
    BY <1>3, <2>2, <2>3 DEF LvMemHas, n
  <2>4. CASE a[g] # e
    BY <1>3, <2>1, <2>2, <2>4 DEF LvMemHas
  <2> QED BY <2>3, <2>4
<1>6. ASSUME NEW f \in K, LvMemOrphan(l, K, a, f) PROVE l.size[f] = 0
  <2>1. f # e /\ f \in m.used /\ f \in H
    BY <1>4, <1>6 DEF LvMemOrphan, e
  <2>2. LvMemOrphan(m, H, a, f) /\ f # Lv!None
    BY <1>1, <1>6, <2>1, LvMemShapeIs DEF LvMemOrphan
  <2> QED BY <1>3, <2>1, <2>2 DEF LvMemServes
<1>7. LvMemServes(l, K, a, FALSE, Lv!None)
  BY <1>1, <1>3, <1>5, <1>6 DEF LvMemServes
<1> QED BY <1>3, <1>7 DEF l, n, e

\* Data are copied from entry e, which has n units of them.
LEMMA LvMemCopyServes ==
  ASSUME NEW m, NEW H, NEW a, NEW neat, NEW x, LvMemServes(m, H, a, neat, x),
         NEW e \in H, NEW f \in H, NEW n \in Nat, n <= m.size[e]
  PROVE  /\ LvMemServes(Lv!Copy(m, e, f, n), H, a, neat, x)
         /\ Lv!Copy(m, e, f, n).size = m.size /\ Lv!Copy(m, e, f, n).used = m.used
<1> DEFINE l == Lv!Copy(m, e, f, n)
           value(c) == IF c \in f + 1 .. f + n THEN m.data[e + (c - f)] ELSE m.data[c]
<1>1. /\ m \in LvMemMemory /\ m.data \in [Lv!Cell -> {Nobody} \union (Handle \X Nat)] /\ LvMemShape(m, H)
      /\ e \in Nat /\ m.size[e] \in Nat /\ e + 1 + m.size[e] \in H \union {LvCells} /\ f \in Nat
  BY LvMemMemoryIs, LvMemShapeIs DEF LvMemServes
<1>2. e + 1 + m.size[e] \in 0 .. LvCells
  BY <1>1, LvMemShapeIs, LvMemCells
<1>3. ASSUME NEW c \in Lv!Cell PROVE value(c) \in {Nobody} \union (Handle \X Nat)
  <2>1. CASE c \in f + 1 .. f + n
    <3>1. e + (c - f) \in Lv!Cell
      BY <1>1, <1>2, <2>1, LvMemCells DEF Lv!Cell
    <3> QED BY <1>1, <2>1, <3>1
  <2>2. CASE c \notin f + 1 .. f + n
    BY <1>1, <2>2
  <2> QED BY <2>1, <2>2
<1>4. l = [m EXCEPT !.data = [c \in Lv!Cell |-> value(c)]]
  <2>1. \A c \in Lv!Cell : m.data[c] = m.data[c]
    OBVIOUS
  <2> QED BY DEF Lv!Copy
<1> HIDE DEF l, value
<1>5. /\ l.size = m.size /\ l.used = m.used /\ l.data = [c \in Lv!Cell |-> value(c)]
      /\ l = [size |-> l.size, used |-> l.used, data |-> l.data]
  BY <1>1, <1>4 DEF LvMemMemory
<1>6. l.data \in [Lv!Cell -> {Nobody} \union (Handle \X Nat)]
  BY <1>3, <1>5
<1>7. l \in LvMemMemory
  BY <1>1, <1>5, <1>6, LvMemMemoryIs DEF LvMemMemory
<1>8. LvMemShape(l, H)
  BY <1>1, <1>5, LvMemSameShape
<1>9. LvMemServes(l, H, a, neat, x)
  BY <1>5, <1>7, <1>8 DEF LvMemServes, LvMemHas, LvMemOrphan, LvMemNeat
<1> QED BY <1>5, <1>9 DEF l

\* lv_mem_defrag: what is left of the entries are those that are used and those
\* that are not behind a free one.
LEMMA LvMemDefragServes ==
  ASSUME NEW m, NEW H, NEW a, NEW neat, LvMemServes(m, H, a, neat, Lv!None), m.used \subseteq H
  PROVE  \E K : LvMemServes(Lv!Defragged(m), K, a, TRUE, Lv!None) /\ Lv!Defragged(m).data = m.data
<1> DEFINE l == Lv!Defragged(m)
           Next1(e) == e + 1 + Lv!JoinedSize(m, e)
           K == {k \in H : \A e \in H : e \notin m.used /\ e < k => Next1(e) <= k}
<1>1. /\ m \in LvMemMemory /\ LvMemShape(m, H) /\ a \in [Handle -> Lv!Cell \union {Lv!None}]
      /\ H \subseteq Lv!Cell /\ LvCells \in Nat /\ LvCells \notin H
      /\ \A f \in H : f \in Nat /\ m.size[f] \in Nat /\ f + 1 + m.size[f] \in H \union {LvCells}
  BY LvMemShapeIs, LvMemCells DEF LvMemServes
<1>2. Lv!EntrySet(m) = H
  BY <1>1, LvMemEntriesAre
<1>3. ASSUME NEW e \in H
      PROVE  /\ Next1(e) \in H \union {LvCells} /\ e < Next1(e) /\ Next1(e) \in Nat
             /\ Next1(e) \in m.used \union {LvCells} /\ Next1(e) <= LvCells
             /\ Lv!JoinedSize(m, e) \in Lv!Cell /\ Lv!JoinedSize(m, e) \in Nat
             /\ \A k \in H : e < k /\ k < Next1(e) => k \notin m.used
  <2>1. PICK j : LvMemUpto(m, H, e, j) /\ Lv!JoinedSize(m, e) = j - e - 1
    BY <1>1, LvMemJoinedIs
  <2>2. j \in 0 .. LvCells /\ e \in Nat
    BY <1>1, <2>1, LvMemShapeIs DEF LvMemUpto
  <2>3. e < j
    BY <2>1 DEF LvMemUpto
  <2>4. Next1(e) = j
    BY <2>1, <2>2
  <2>5. j - e - 1 \in Lv!Cell /\ j - e - 1 \in Nat
    BY <2>2, <2>3, LvMemCells DEF Lv!Cell
  <2>6. j \in Nat /\ j <= LvCells
    BY <1>1, <2>2
  <2>7. Lv!JoinedSize(m, e) \in Lv!Cell /\ Lv!JoinedSize(m, e) \in Nat
    BY <2>1, <2>5
  <2> HIDE DEF Next1
  <2> QED BY <2>1, <2>3, <2>4, <2>6, <2>7 DEF LvMemUpto
<1>4. /\ l \in LvMemMemory /\ l.used = m.used /\ l.data = m.data
      /\ \A f \in H : l.size[f] = IF f \in m.used THEN m.size[f] ELSE Lv!JoinedSize(m, f)
  <2>1. /\ l.size = [c \in Lv!Cell |-> IF c \in H \ m.used THEN Lv!JoinedSize(m, c) ELSE m.size[c]]
        /\ l.used = m.used /\ l.data = m.data
        /\ l = [size |-> l.size, used |-> l.used, data |-> l.data]
    BY <1>1, <1>2 DEF Lv!Defragged, LvMemMemory
  <2>2. l.size \in [Lv!Cell -> Lv!Cell \union {Lv!None}]
    <3>1. m.size \in [Lv!Cell -> Lv!Cell \union {Lv!None}]
      BY <1>1, LvMemMemoryIs
    <3>2. \A c \in H : Lv!JoinedSize(m, c) \in Lv!Cell
      BY <1>3
    <3> HIDE DEF l
    <3> QED BY <2>1, <3>1, <3>2
  <2> HIDE DEF l
  <2>3. l \in LvMemMemory
    BY <1>1, <2>1, <2>2, LvMemMemoryIs DEF LvMemMemory
  <2> QED BY <1>1, <2>1, <2>3
<1> HIDE DEF l
<1>5. ASSUME NEW k \in H, k \in m.used PROVE k \in K
  <2>1. SUFFICES ASSUME NEW e \in H, e \notin m.used, e < k PROVE Next1(e) <= k
    BY <1>5
  <2>2. ~(k < Next1(e))
    BY <1>3, <1>5, <2>1
  <2> QED BY <1>1, <1>3, <2>2
<1>6. ASSUME NEW f \in K
      PROVE  /\ l.size[f] \in Nat /\ f + 1 + l.size[f] \in K \union {LvCells}
             /\ f \in H /\ \A k \in K : f < k => f + 1 + l.size[f] <= k
  <2>1. CASE f \in m.used
    <3> DEFINE n == f + 1 + m.size[f]
    <3>1. /\ l.size[f] = m.size[f] /\ n \in H \union {LvCells} /\ f \in Nat /\ n \in Nat
          /\ m.size[f] \in Nat /\ f \in H
      BY <1>1, <1>4, <2>1
    <3>2. \A k \in K : f < k => n <= k
      BY <1>1, <3>1 DEF LvMemShape
    <3>3. ASSUME n \in H, NEW e \in H, e \notin m.used, e < n PROVE Next1(e) <= n
      <4>1. e # f /\ e \in Nat
        BY <1>1, <2>1, <3>3
      <4>2. ~(f < e)
        <5>1. f < e => n <= e
          BY <1>1, <3>1 DEF LvMemShape
        <5> QED BY <3>1, <3>3, <4>1, <5>1
      <4>3. e < f
        BY <3>1, <4>1, <4>2
      <4>4. Next1(e) <= f /\ Next1(e) \in Nat
        BY <1>3, <3>3, <4>3
      <4> QED BY <3>1, <4>4
    <3>4. n \in K \union {LvCells}
      BY <3>1, <3>3
    <3> QED BY <3>1, <3>2, <3>4
  <2>2. CASE f \notin m.used
    <3>1. /\ f \in H /\ f \in Nat /\ l.size[f] = Lv!JoinedSize(m, f) /\ f + 1 + l.size[f] = Next1(f)
          /\ l.size[f] \in Nat
      BY <1>1, <1>3, <1>4, <2>2
    <3>2. Next1(f) \in K \union {LvCells}
      BY <1>3, <1>5, <3>1
    <3>3. \A k \in K : f < k => Next1(f) <= k
      BY <2>2, <3>1
    <3> QED BY <3>1, <3>2, <3>3
  <2> QED BY <2>1, <2>2
<1>7. LvMemShape(l, K)
  <2>1. H \subseteq 0 .. LvCells - 2 /\ 0 \in H
    BY <1>1 DEF LvMemShape
  <2>2. 0 \in K
    <3>1. \A e \in H : ~(e < 0)
      BY <1>1
    <3> QED BY <2>1, <3>1
  <2>3. K \subseteq 0 .. LvCells - 2
    BY <2>1
  <2> HIDE DEF K
  <2> QED BY <1>6, <2>2, <2>3 DEF LvMemShape
<1>8. ASSUME NEW g \in Handle, a[g] # Lv!None PROVE LvMemHas(l, K, a, g)
  <2>1. LvMemHas(m, H, a, g)
    BY <1>8 DEF LvMemServes
  <2>2. a[g] \in m.used /\ a[g] \in H
    BY <2>1 DEF LvMemHas
  <2>3. a[g] \in l.used /\ a[g] \in K /\ l.size[a[g]] = m.size[a[g]]
    BY <1>4, <1>5, <2>2
  <2> QED BY <2>1, <2>3 DEF LvMemHas
<1>9. ASSUME NEW f \in K, LvMemOrphan(l, K, a, f), f # Lv!None PROVE l.size[f] = 0
  <2>1. f \in H /\ LvMemOrphan(m, H, a, f)
    BY <1>4, <1>9 DEF LvMemOrphan
  <2> QED BY <1>4, <1>9, <2>1 DEF LvMemServes, LvMemOrphan
<1>10. LvMemNeat(l, K)
  <2>1. SUFFICES ASSUME NEW f \in K, f \notin l.used
                 PROVE  f + 1 + l.size[f] \in l.used \union {LvCells}
    BY DEF LvMemNeat
  <2>2. f + 1 + l.size[f] = Next1(f)
    BY <1>4, <2>1
  <2> QED BY <1>3, <1>4, <2>2
<1>11. LvMemServes(l, K, a, TRUE, Lv!None)
  <2> HIDE DEF K
  <2> QED BY <1>1, <1>4, <1>7, <1>8, <1>9, <1>10 DEF LvMemServes
<1> QED BY <1>4, <1>11 DEF l
-----------------------------------------------------------------------------
(* The steps. *)

\* What was made of the memory is the memory, once the clients have written.
LEMMA LvMemSettledServes ==
  ASSUME NEW m, NEW H, NEW a, NEW neat \in BOOLEAN, NEW wrote, LvMemServes(m, H, a, neat, Lv!None),
         \A c \in DOMAIN wrote : wrote[c] \in Handle \X Nat,
         Lv!Settled(m, a, wrote), lvTidy' = neat
  PROVE  LvMemIInv'
<1> DEFINE body(g) == IF a[g] = Lv!None THEN {} ELSE a[g] + 1 .. a[g] + m.size[a[g]]
           kept    == (UNION {body(g) : g \in Handle}) \ H
           value(c) == IF c \in DOMAIN wrote THEN wrote[c]
                       ELSE IF c \in kept THEN m.data[c] ELSE Nobody
<1>1. /\ m \in LvMemMemory /\ LvMemShape(m, H) /\ H \subseteq Lv!Cell /\ a \in [Handle -> Lv!Cell \union {Lv!None}]
  BY LvMemShapeIs DEF LvMemServes
<1>2. Lv!EntrySet(m) = H
  BY <1>1, LvMemEntriesAre
<1>3. /\ lvAt' = a /\ lvDenied' = <<>>
      /\ lvMem' = [size |-> [c \in Lv!Cell |-> IF c \in H THEN m.size[c] ELSE Lv!None],
                 used |-> m.used \intersect H, data |-> [c \in Lv!Cell |-> value(c)]]
  BY <1>2 DEF Lv!Settled
<1>4. /\ m.size \in [Lv!Cell -> Lv!Cell \union {Lv!None}]
      /\ m.data \in [Lv!Cell -> {Nobody} \union (Handle \X Nat)]
      /\ \A e \in H : m.size[e] \in Nat /\ m.size[e] # Lv!None
  BY <1>1, LvMemMemoryIs, LvMemShapeIs DEF Lv!None
<1>5. \A c \in Lv!Cell : value(c) \in {Nobody} \union (Handle \X Nat)
  BY <1>4
<1> HIDE DEF value
<1>6. /\ lvMem'.size = [c \in Lv!Cell |-> IF c \in H THEN m.size[c] ELSE Lv!None]
      /\ lvMem'.used = m.used \intersect H /\ lvMem'.data = [c \in Lv!Cell |-> value(c)]
  BY <1>3
<1>7. lvMem' \in LvMemMemory
  <2>1. lvMem'.size \in [Lv!Cell -> Lv!Cell \union {Lv!None}]
    BY <1>4, <1>6
  <2>2. lvMem'.data \in [Lv!Cell -> {Nobody} \union (Handle \X Nat)]
    BY <1>5, <1>6
  <2>3. lvMem'.used \subseteq Lv!Cell
    BY <1>1, <1>6
  <2>4. lvMem' = [size |-> lvMem'.size, used |-> lvMem'.used, data |-> lvMem'.data]
    BY <1>3
  <2> QED BY <2>1, <2>2, <2>3, <2>4 DEF LvMemMemory
<1>8. \A e \in H : lvMem'.size[e] = m.size[e]
  BY <1>1, <1>6
<1>9. LvMemHeads(lvMem') = H
  BY <1>1, <1>4, <1>6 DEF LvMemHeads
<1>10. LvMemShape(lvMem', H)
  BY <1>1, <1>8, LvMemSameShape
<1>11. ASSUME NEW h \in Handle, a[h] # Lv!None PROVE LvMemHas(lvMem', H, a, h)
  <2>1. LvMemHas(m, H, a, h)
    BY <1>11 DEF LvMemServes
  <2> QED BY <1>6, <1>8, <2>1 DEF LvMemHas
<1>12. ASSUME NEW e \in H, LvMemOrphan(lvMem', H, a, e), e # Lv!None PROVE lvMem'.size[e] = 0
  BY <1>6, <1>8, <1>12 DEF LvMemServes, LvMemOrphan
<1>13. ASSUME neat PROVE LvMemNeat(lvMem', H)
  <2>1. SUFFICES ASSUME NEW e \in H, e \notin lvMem'.used
                 PROVE  e + 1 + lvMem'.size[e] \in lvMem'.used \union {LvCells}
    BY DEF LvMemNeat
  <2>2. e \notin m.used /\ lvMem'.size[e] = m.size[e]
    BY <1>6, <1>8, <2>1
  <2>3. e + 1 + m.size[e] \in m.used \union {LvCells}
    BY <1>13, <2>2 DEF LvMemServes, LvMemNeat
  <2>4. e + 1 + m.size[e] \in H \union {LvCells}
    BY <1>1 DEF LvMemShape
  <2> QED BY <1>6, <2>2, <2>3, <2>4
<1>14. LvMemServes(lvMem', H, a, neat, Lv!None)
  BY <1>1, <1>7, <1>10, <1>11, <1>12, <1>13 DEF LvMemServes
<1>15. Lv!TypeOK'
  BY <1>1, <1>3, <1>7, LvMemMemoryIs DEF Lv!TypeOK
<1>16. (lvMem.used \subseteq LvMemHeads(lvMem))' /\ LvMemServes(lvMem, LvMemHeads(lvMem), lvAt, lvTidy, Lv!None)'
  <2>1. lvTidy' = neat
    OBVIOUS
  <2> QED BY <1>3, <1>6, <1>9, <1>14, <2>1
<1> QED BY <1>15, <1>16 DEF LvMemIInv

LEMMA LvMemFreshServes ==
  /\ LvMemServes(Lv!Fresh, {0}, [h \in Handle |-> Lv!None], TRUE, Lv!None)
  /\ LvMemHeads(Lv!Fresh) = {0} /\ Lv!Fresh.used = {}
<1>1. /\ Lv!Fresh.size = [c \in Lv!Cell |-> IF c = 0 THEN LvCells - 1 ELSE Lv!None]
      /\ Lv!Fresh.used = {} /\ Lv!Fresh.data = [c \in Lv!Cell |-> Nobody]
      /\ Lv!Fresh = [size |-> Lv!Fresh.size, used |-> Lv!Fresh.used, data |-> Lv!Fresh.data]
  BY DEF Lv!Fresh
<1>2. LvCells - 1 \in Lv!Cell /\ 0 \in Lv!Cell /\ LvCells - 1 # Lv!None /\ 0 \in 0 .. LvCells - 2
      /\ 0 + 1 + (LvCells - 1) = LvCells /\ LvCells - 1 \in Nat
  BY LvMemCells DEF Lv!Cell, Lv!None
<1>3. Lv!Fresh.size[0] = LvCells - 1
  BY <1>1, <1>2
<1>4. Lv!Fresh \in LvMemMemory
  <2>1. Lv!Fresh.size \in [Lv!Cell -> Lv!Cell \union {Lv!None}]
    BY <1>1, <1>2
  <2>2. Lv!Fresh.data \in [Lv!Cell -> {Nobody} \union (Handle \X Nat)]
    BY <1>1
  <2> QED BY <1>1, <2>1, <2>2 DEF LvMemMemory
<1>5. LvMemShape(Lv!Fresh, {0})
  BY <1>2, <1>3 DEF LvMemShape
<1>6. LvMemHeads(Lv!Fresh) = {0}
  BY <1>1, <1>2 DEF LvMemHeads
<1>7. LvMemNeat(Lv!Fresh, {0})
  BY <1>2, <1>3 DEF LvMemNeat
<1>8. LvMemServes(Lv!Fresh, {0}, [h \in Handle |-> Lv!None], TRUE, Lv!None)
  BY <1>1, <1>4, <1>5, <1>7 DEF LvMemServes, LvMemOrphan
<1> QED BY <1>1, <1>6, <1>8

LEMMA LvMemInitSound == Lv!Init => LvMemIInv
<1> SUFFICES ASSUME Lv!Init PROVE LvMemIInv
  OBVIOUS
<1>1. lvMem = Lv!Fresh /\ lvAt = [h \in Handle |-> Lv!None] /\ lvDenied = <<>> /\ lvTidy = TRUE
  BY DEF Lv!Init
<1>2. LvMemServes(lvMem, LvMemHeads(lvMem), lvAt, lvTidy, Lv!None) /\ lvMem.used \subseteq LvMemHeads(lvMem) /\ lvMem \in LvMemMemory
  BY <1>1, LvMemFreshServes DEF LvMemServes
<1>3. Lv!TypeOK
  BY <1>1, <1>2, LvMemMemoryIs DEF Lv!TypeOK
<1> QED BY <1>2, <1>3 DEF LvMemIInv

LEMMA LvMemDeinitSound == Lv!Deinit => LvMemIInv'
<1> SUFFICES ASSUME Lv!Deinit PROVE LvMemIInv'
  OBVIOUS
<1>1. lvMem' = Lv!Fresh /\ lvAt' = [h \in Handle |-> Lv!None] /\ lvDenied' = <<>> /\ lvTidy' = TRUE
  BY DEF Lv!Deinit
<1>2. (LvMemServes(lvMem, LvMemHeads(lvMem), lvAt, lvTidy, Lv!None) /\ lvMem.used \subseteq LvMemHeads(lvMem) /\ lvMem \in LvMemMemory)'
  BY <1>1, LvMemFreshServes DEF LvMemServes
<1>3. Lv!TypeOK'
  BY <1>1, <1>2, LvMemMemoryIs DEF Lv!TypeOK
<1> QED BY <1>2, <1>3 DEF LvMemIInv

LEMMA LvMemStateIs ==
  ASSUME LvMemIInv
  PROVE  /\ LvMemServes(lvMem, LvMemHeads(lvMem), lvAt, lvTidy, Lv!None) /\ lvMem.used \subseteq LvMemHeads(lvMem)
         /\ lvMem \in LvMemMemory /\ LvMemShape(lvMem, LvMemHeads(lvMem)) /\ Lv!EntrySet(lvMem) = LvMemHeads(lvMem)
         /\ lvAt \in [Handle -> Lv!Cell \union {Lv!None}] /\ lvTidy \in BOOLEAN
         /\ \A h \in Handle : lvAt[h] # Lv!None => LvMemHas(lvMem, LvMemHeads(lvMem), lvAt, h)
<1>1. LvMemServes(lvMem, LvMemHeads(lvMem), lvAt, lvTidy, Lv!None) /\ lvMem.used \subseteq LvMemHeads(lvMem) /\ lvTidy \in BOOLEAN
  BY DEF LvMemIInv, Lv!TypeOK
<1>2. lvMem \in LvMemMemory /\ LvMemShape(lvMem, LvMemHeads(lvMem)) /\ lvAt \in [Handle -> Lv!Cell \union {Lv!None}]
      /\ \A h \in Handle : lvAt[h] # Lv!None => LvMemHas(lvMem, LvMemHeads(lvMem), lvAt, h)
  BY <1>1 DEF LvMemServes
<1> QED BY <1>1, <1>2, LvMemEntriesAre

LEMMA LvMemDeniedSound ==
  ASSUME LvMemIInv, NEW h \in Handle, NEW n \in Nat, Lv!Denied(h, n)
  PROVE  LvMemIInv'
<1>1. lvDenied' = <<h, n + 1>> /\ lvMem' = lvMem /\ lvAt' = lvAt /\ lvTidy' = lvTidy
  BY DEF Lv!Denied
<1>2. Lv!TypeOK'
  BY <1>1 DEF LvMemIInv, Lv!TypeOK
<1> QED BY <1>1, <1>2 DEF LvMemIInv

\* The first entry that fits is one.
LEMMA LvMemFitIs ==
  ASSUME LvMemIInv, NEW n, NEW e \in Lv!FirstFits(lvMem, n)
  PROVE  e \in LvMemHeads(lvMem) /\ e \notin lvMem.used /\ n <= lvMem.size[e]
<1>1. e \in LvMemHeads(lvMem) /\ e \notin lvMem.used /\ lvMem.size[e] >= n
  BY LvMemStateIs DEF Lv!FirstFits
<1> QED BY <1>1

LEMMA LvMemWroteTyped ==
  ASSUME NEW m, NEW h \in Handle, NEW e \in Nat, NEW k \in Nat
  PROVE  \A c \in DOMAIN Lv!Wrote(m, h, e, k) : Lv!Wrote(m, h, e, k)[c] \in Handle \X Nat
<1>1. SUFFICES ASSUME NEW c \in e + 1 + k .. e + m.size[e] PROVE <<h, c - e + 1>> \in Handle \X Nat
  BY DEF Lv!Wrote
<1>2. c - e + 1 \in Nat
  OBVIOUS
<1> QED BY <1>2

LEMMA LvMemMallocSound ==
  ASSUME LvMemIInv, NEW h \in Handle, NEW s \in LvSizes, Lv!Malloc(h, s)
  PROVE  LvMemIInv'
<1> DEFINE n == Lv!Units(s)
<1>1. lvAt[h] = Lv!None /\ n \in Nat
  BY LvMemUnitsNat DEF Lv!Malloc
<1>2. ASSUME NEW e \in Lv!FirstFits(lvMem, n), Lv!Given(Lv!Alloc(lvMem, e, n), h, e, 0), UNCHANGED lvTidy
      PROVE  LvMemIInv'
  <2> DEFINE l == Lv!Alloc(lvMem, e, n)
             b == [lvAt EXCEPT ![h] = e]
  <2>1. e \in LvMemHeads(lvMem) /\ e \notin lvMem.used /\ n <= lvMem.size[e]
    BY <1>2, LvMemFitIs
  <2>2. e \in Nat
    BY <2>1, LvMemStateIs, LvMemShapeIs
  <2>3. PICK K : LvMemServes(l, K, b, lvTidy, lvAt[h])
    BY <2>1, LvMemStateIs, LvMemAllocServes
  <2>4. Lv!Settled(l, b, Lv!Wrote(l, h, e, 0))
    BY <1>2 DEF Lv!Given
  <2> HIDE DEF l, b
  <2>5. LvMemServes(l, K, b, lvTidy, Lv!None)
    BY <1>1, <2>3
  <2>6. lvTidy' = lvTidy /\ lvTidy \in BOOLEAN
    BY <1>2, LvMemStateIs
  <2>7. \A c \in DOMAIN Lv!Wrote(l, h, e, 0) : Lv!Wrote(l, h, e, 0)[c] \in Handle \X Nat
    BY <2>2, LvMemWroteTyped
  <2> QED BY <2>4, <2>5, <2>6, <2>7, LvMemSettledServes
<1>3. CASE Lv!Denied(h, n)
  BY <1>1, <1>3, LvMemDeniedSound
<1> QED BY <1>2, <1>3 DEF Lv!Malloc

LEMMA LvMemFreeServes ==
  ASSUME LvMemIInv, NEW h \in Handle, lvAt[h] # Lv!None
  PROVE  \E K : LvMemServes(Lv!Release(lvMem, lvAt[h]), K, [lvAt EXCEPT ![h] = Lv!None], FALSE, Lv!None)
<1> DEFINE H == LvMemHeads(lvMem)
           b == [lvAt EXCEPT ![h] = Lv!None]
           e == lvAt[h]
<1>1. e # Lv!None
  OBVIOUS
<1>2. LvMemServes(lvMem, H, lvAt, lvTidy, Lv!None) /\ lvAt \in [Handle -> Lv!Cell \union {Lv!None}] /\ LvMemHas(lvMem, H, lvAt, h)
  BY <1>1, LvMemStateIs
<1>3. /\ b \in [Handle -> Lv!Cell \union {Lv!None}] /\ b[h] = Lv!None
      /\ \A g \in Handle : g # h => b[g] = lvAt[g] /\ lvAt[g] # e
  BY <1>2 DEF LvMemHas
<1> HIDE DEF b, e
<1>4. LvMemServes(lvMem, H, b, lvTidy, e)
  <2>1. ASSUME NEW g \in Handle, b[g] # Lv!None PROVE LvMemHas(lvMem, H, b, g)
    <3>1. g # h /\ b[g] = lvAt[g] /\ lvAt[g] # Lv!None
      BY <1>3, <2>1
    <3>2. LvMemHas(lvMem, H, lvAt, g)
      BY <1>2, <3>1 DEF LvMemServes
    <3>3. \A k \in Handle : k # g => b[k] # lvAt[g]
      BY <1>3, <3>1, <3>2 DEF LvMemHas
    <3> QED BY <3>1, <3>2, <3>3 DEF LvMemHas
  <2>2. ASSUME NEW f \in H, LvMemOrphan(lvMem, H, b, f), f # e PROVE lvMem.size[f] = 0
    <3>1. LvMemOrphan(lvMem, H, lvAt, f)
      BY <1>3, <2>2 DEF LvMemOrphan, e
    <3>2. f # Lv!None
      BY LvMemStateIs, LvMemShapeIs
    <3> QED BY <1>2, <3>1, <3>2 DEF LvMemServes
  <2> HIDE DEF H
  <2> QED BY <1>2, <1>3, <2>1, <2>2 DEF LvMemServes
<1>5. e \in H /\ \A g \in Handle : b[g] # e
  BY <1>1, <1>2, <1>3 DEF LvMemHas, e
<1>6. \E K : LvMemServes(Lv!Release(lvMem, e), K, b, FALSE, Lv!None)
  <2> HIDE DEF H
  <2> QED BY <1>4, <1>5, LvMemReleaseServes
<1> QED BY <1>6 DEF b, e

LEMMA LvMemFreeSound ==
  ASSUME LvMemIInv, NEW h \in Handle, Lv!Free(h)
  PROVE  LvMemIInv'
<1>1. /\ lvAt[h] # Lv!None /\ lvTidy' = FALSE
      /\ Lv!Settled(Lv!Release(lvMem, lvAt[h]), [lvAt EXCEPT ![h] = Lv!None], <<>>)
  BY DEF Lv!Free
<1>2. PICK K : LvMemServes(Lv!Release(lvMem, lvAt[h]), K, [lvAt EXCEPT ![h] = Lv!None], FALSE, Lv!None)
  BY <1>1, LvMemFreeServes
<1>3. \A c \in DOMAIN <<>> : <<>>[c] \in Handle \X Nat
  OBVIOUS
<1> QED BY <1>1, <1>2, <1>3, LvMemSettledServes

LEMMA LvMemShrinkSound ==
  ASSUME LvMemIInv, NEW h \in Handle, NEW s \in LvSizes, Lv!Shrink(h, s)
  PROVE  LvMemIInv'
<1>1. /\ lvAt[h] # Lv!None /\ s < 4 * lvMem.size[lvAt[h]] /\ lvTidy' = FALSE
      /\ Lv!Settled(Lv!Trunc(lvMem, lvAt[h], Lv!Units(s)), lvAt, <<>>)
  BY DEF Lv!Shrink
<1>2. LvMemHas(lvMem, LvMemHeads(lvMem), lvAt, h) /\ lvMem.size[lvAt[h]] \in Nat
  BY <1>1, LvMemStateIs, LvMemShapeIs DEF LvMemHas
<1>3. Lv!Units(s) <= lvMem.size[lvAt[h]]
  BY <1>1, <1>2, LvMemUnitsNat DEF Lv!Units
<1>4. PICK K : LvMemServes(Lv!Trunc(lvMem, lvAt[h], Lv!Units(s)), K, lvAt, FALSE, Lv!None)
  BY <1>1, <1>3, LvMemStateIs, LvMemTruncServes
<1>5. \A c \in DOMAIN <<>> : <<>>[c] \in Handle \X Nat
  OBVIOUS
<1> QED BY <1>1, <1>4, <1>5, LvMemSettledServes

\* The memory behind a realloc to more: the new entry holds what the old one held.
LvMemGrown(h, e, n) ==
  LET m == Lv!Copy(Lv!Alloc(lvMem, e, n), lvAt[h], e, lvMem.size[lvAt[h]])
  IN  IF lvMem.size[lvAt[h]] = 0 THEN m ELSE Lv!Release(m, lvAt[h])

LEMMA LvMemGrowServes ==
  ASSUME LvMemIInv, NEW h \in Handle, lvAt[h] # Lv!None, NEW s \in LvSizes, NEW e \in Lv!FirstFits(lvMem, Lv!Units(s))
  PROVE  \E K : LvMemServes(LvMemGrown(h, e, Lv!Units(s)), K, [lvAt EXCEPT ![h] = e], FALSE, Lv!None)
<1> DEFINE n == Lv!Units(s)
           old == lvMem.size[lvAt[h]]
           H == LvMemHeads(lvMem)
           l == Lv!Alloc(lvMem, e, n)
           m == Lv!Copy(l, lvAt[h], e, old)
           b == [lvAt EXCEPT ![h] = e]
<1>1. LvMemHas(lvMem, H, lvAt, h) /\ old \in Nat /\ lvAt[h] \in H /\ lvAt[h] \in Nat /\ lvAt[h] \in lvMem.used
  BY LvMemStateIs, LvMemShapeIs DEF LvMemHas
<1>2. e \in H /\ e \notin lvMem.used /\ n <= lvMem.size[e] /\ e # lvAt[h]
  BY <1>1, LvMemFitIs
<1>3. PICK K : /\ LvMemServes(l, K, b, lvTidy, lvAt[h]) /\ H \subseteq K
               /\ \A f \in H : f # e => l.size[f] = lvMem.size[f]
  <2>1. LvMemServes(lvMem, H, lvAt, lvTidy, Lv!None) /\ lvMem.used \subseteq H
    BY LvMemStateIs
  <2> HIDE DEF H
  <2> QED BY <1>2, <2>1, LvMemAllocServes
<1>4. b[h] = e /\ \A g \in Handle : b[g] # lvAt[h]
  <2>1. lvAt \in [Handle -> Lv!Cell \union {Lv!None}]
    BY LvMemStateIs
  <2> QED BY <1>1, <1>2, <2>1 DEF LvMemHas
<1> HIDE DEF l, b
<1>5. lvAt[h] \in K /\ e \in K /\ l.size[lvAt[h]] = old
  BY <1>1, <1>2, <1>3
<1>6. LvMemServes(m, K, b, lvTidy, lvAt[h]) /\ m.size = l.size
  BY <1>1, <1>3, <1>5, LvMemCopyServes
<1> HIDE DEF m
<1>7. CASE old = 0
  <2>1. m.size[lvAt[h]] = 0
    BY <1>5, <1>6, <1>7
  <2>2. LvMemServes(m, K, b, FALSE, Lv!None)
    BY <1>6, <2>1 DEF LvMemServes
  <2> QED BY <1>7, <2>2 DEF LvMemGrown, m, l, b
<1>8. CASE old # 0
  <2>1. \E L : LvMemServes(Lv!Release(m, lvAt[h]), L, b, FALSE, Lv!None)
    BY <1>4, <1>5, <1>6, LvMemReleaseServes
  <2> QED BY <1>8, <2>1 DEF LvMemGrown, m, l, b
<1> QED BY <1>7, <1>8

LEMMA LvMemGrowSound ==
  ASSUME LvMemIInv, NEW h \in Handle, NEW s \in LvSizes, Lv!Grow(h, s)
  PROVE  LvMemIInv'
<1> DEFINE n == Lv!Units(s)
           old == lvMem.size[lvAt[h]]
<1>1. lvAt[h] # Lv!None /\ n \in Nat
  BY LvMemUnitsNat DEF Lv!Grow
<1>2. old \in Nat
  BY <1>1, LvMemStateIs, LvMemShapeIs DEF LvMemHas
<1>3. ASSUME NEW e \in Lv!FirstFits(lvMem, n), Lv!Given(LvMemGrown(h, e, n), h, e, old), lvTidy' = FALSE
      PROVE  LvMemIInv'
  <2> DEFINE r == LvMemGrown(h, e, n)
             b == [lvAt EXCEPT ![h] = e]
  <2>1. e \in Nat
    BY <1>3, LvMemFitIs, LvMemStateIs, LvMemShapeIs
  <2>2. \E L : LvMemServes(r, L, b, FALSE, Lv!None)
    BY <1>1, <1>3, LvMemGrowServes
  <2>3. Lv!Settled(r, b, Lv!Wrote(r, h, e, old))
    BY <1>3 DEF Lv!Given
  <2> HIDE DEF r, b
  <2>4. \A c \in DOMAIN Lv!Wrote(r, h, e, old) : Lv!Wrote(r, h, e, old)[c] \in Handle \X Nat
    BY <1>2, <2>1, LvMemWroteTyped
  <2> QED BY <1>3, <2>2, <2>3, <2>4, LvMemSettledServes
<1>4. CASE Lv!Denied(h, n)
  BY <1>1, <1>4, LvMemDeniedSound
<1> QED BY <1>3, <1>4 DEF Lv!Grow, LvMemGrown

LEMMA LvMemDefragSound ==
  ASSUME LvMemIInv, Lv!Defrag
  PROVE  LvMemIInv'
<1>1. Lv!Settled(Lv!Defragged(lvMem), lvAt, <<>>) /\ lvTidy' = TRUE
  BY DEF Lv!Defrag
<1>2. PICK K : LvMemServes(Lv!Defragged(lvMem), K, lvAt, TRUE, Lv!None)
  BY LvMemStateIs, LvMemDefragServes
<1>3. \A c \in DOMAIN <<>> : <<>>[c] \in Handle \X Nat
  OBVIOUS
<1> QED BY <1>1, <1>2, <1>3, LvMemSettledServes

LEMMA LvMemInductive == LvMemIInv /\ [Lv!Next]_Lv!vars => LvMemIInv'
<1> SUFFICES ASSUME LvMemIInv, [Lv!Next]_Lv!vars PROVE LvMemIInv'
  OBVIOUS
<1>1. CASE UNCHANGED Lv!vars
  <2>1. lvMem' = lvMem /\ lvAt' = lvAt /\ lvDenied' = lvDenied /\ lvTidy' = lvTidy
    BY <1>1 DEF Lv!vars
  <2> QED BY <2>1 DEF LvMemIInv, Lv!TypeOK
<1>2. CASE Lv!Next
  BY <1>2, LvMemDeinitSound, LvMemDefragSound, LvMemFreeSound, LvMemMallocSound, LvMemShrinkSound, LvMemGrowSound DEF Lv!Next
<1> QED BY <1>1, <1>2

LEMMA LvMemInvariance == Lv!Spec => []LvMemIInv
BY LvMemInitSound, LvMemInductive, PTL DEF Lv!Spec


LEMMA LvMemIntegritySound == LvMemIInv => Lv!Integrity /\ Lv!Coalesced
<1> SUFFICES ASSUME LvMemIInv PROVE Lv!Integrity /\ Lv!Coalesced
  OBVIOUS
<1> DEFINE H == LvMemHeads(lvMem)
<1>1. LvMemServes(lvMem, H, lvAt, lvTidy, Lv!None) /\ lvMem.used \subseteq H /\ Lv!EntrySet(lvMem) = H /\ LvMemShape(lvMem, H)
  BY LvMemStateIs
<1>2. ASSUME NEW h \in Handle, lvAt[h] # Lv!None PROVE lvAt[h] \in lvMem.used
  BY <1>2, LvMemStateIs DEF LvMemHas
<1>3. ASSUME NEW e \in Lv!Lost(lvMem, lvAt) PROVE lvMem.size[e] = 0
  <2>1. e \in H /\ LvMemOrphan(lvMem, H, lvAt, e) /\ e # Lv!None
    BY <1>1, LvMemShapeIs DEF Lv!Lost, LvMemOrphan
  <2> QED BY <1>1, <2>1 DEF LvMemServes
<1>4. \E e \in H : e + 1 + lvMem.size[e] = LvCells
  <2>1. Tiles(H \union {LvCells}, [e \in H |-> e + 1 + lvMem.size[e]], 0, LvCells)
    BY <1>1, LvMemShapeTiles
  <2>2. 0 \in Nat /\ LvCells \in Nat /\ LvCells \in H \union {LvCells} /\ LvCells # 0
    BY LvMemCells
  <2> DEFINE g == [e \in H |-> e + 1 + lvMem.size[e]]
             K == H \union {LvCells}
  <2>3. PICK p \in K \ {LvCells} : p < LvCells /\ g[p] = LvCells
    <3>1. Tiles(K, g, 0, LvCells) /\ 0 \in Nat /\ LvCells \in Nat /\ LvCells \in K /\ LvCells # 0
      BY <2>1, <2>2
    <3>2. \A lo, hi \in Nat : \A J, f : Tiles(J, f, lo, hi) => \A e \in J : e # lo => \E p \in J \ {hi} : p < e /\ f[p] = e
      BY Predecessor
    <3> HIDE DEF g, K, H
    <3>3. \A J, f : Tiles(J, f, 0, LvCells) => \A e \in J : e # 0 => \E p \in J \ {LvCells} : p < e /\ f[p] = e
      BY ONLY <3>1, <3>2
    <3>4. Tiles(K, g, 0, LvCells)
      BY ONLY <3>1
    <3>5. ASSUME NEW J, Tiles(J, g, 0, LvCells) PROVE \A e \in J : e # 0 => \E p \in J \ {LvCells} : p < e /\ g[p] = e
      BY <3>3, <3>5
    <3>6. \A e \in K : e # 0 => \E p \in K \ {LvCells} : p < e /\ g[p] = e
      BY ONLY <3>4, <3>5
    <3> QED BY ONLY <3>1, <3>6
  <2> QED BY <2>3
<1>5. Lv!Integrity
  BY <1>1, <1>2, <1>3, <1>4 DEF Lv!Integrity
<1>6. ASSUME lvTidy, NEW e \in H, e \notin lvMem.used, Lv!NextOf(lvMem, e) # Lv!None
      PROVE  Lv!NextOf(lvMem, e) \in lvMem.used
  <2>1. Lv!NextOf(lvMem, e) = e + 1 + lvMem.size[e] /\ e + 1 + lvMem.size[e] # LvCells
    BY <1>1, <1>6, LvMemNextIs
  <2> QED BY <1>1, <1>6, <2>1 DEF LvMemServes, LvMemNeat
<1>7. Lv!Coalesced
  BY <1>1, <1>6 DEF Lv!Coalesced
<1> QED BY <1>5, <1>7

\* The entries fill the memory, each client's is in use, and what is in use and
\* nobody's has no data: lv_mem_realloc loses no more.
THEOREM LvMemIntegrityHolds == Lv!Spec => []Lv!Integrity
<1>1. LvMemIInv => Lv!Integrity
  BY LvMemIntegritySound
<1> QED BY <1>1, LvMemInvariance, PTL

\* Behind lv_mem_defrag, and until something is given back, no two free entries lie
\* side by side.
THEOREM LvMemCoalescedHolds == Lv!Spec => []Lv!Coalesced
<1>1. LvMemIInv => Lv!Coalesced
  BY LvMemIntegritySound
<1> QED BY <1>1, LvMemInvariance, PTL

-----------------------------------------------------------------------------
(***************************************************************************)
(* tlsf.  The sizes found in memory are those of blocks that fill the      *)
(* pools.  The free ones, no two side by side, are each on the one list    *)
(* that its size selects and marked as free in the block behind; the       *)
(* others are the clients', who hold no block twice and none that is not   *)
(* aligned as they asked.  What an operation does in between is said with  *)
(* three sets of blocks: those marked as free, those marked in the block   *)
(* behind, and those on the lists.                                         *)
(***************************************************************************)
LEMMA TlsfBounds ==
  /\ SlLog2 \in Nat /\ FlCount \in Nat \ {0} /\ TlsfSizes \subseteq Nat
  /\ TlsfCells \in Nat /\ Split \in 5 .. TlsfCells - 5
  /\ Split - 2 < TwoLevel!block_size_max /\ TlsfCells - Split - 2 < TwoLevel!block_size_max
  /\ Aligns \subseteq Nat \ {0} /\ \A a \in Aligns : \E k \in 1 .. a : a = TwoLevel!Bit[k]
  /\ \A size \in TlsfSizes \ {0} : TwoLevel!Adjusted(size, 1) > 0
BY HeapsAssumption DEF TwoLevel!TlsfAssumption

-----------------------------------------------------------------------------
(* What holds of the memory. *)

\* The sequence s without its k-th member.
TlsfDropped(s, k) == SubSeq(s, 1, k - 1) \o SubSeq(s, k + 1, Len(s))

TlsfHeads(S) == {c \in TwoLevel!Cell : S[c] # TwoLevel!None}
TlsfEnds == {Split - 1, TlsfCells - 1}
TlsfNx(S, b) == b + 1 + S[b]

\* What a block b of the sizes S is followed by.
TlsfLies(S, b) ==
  /\ S[b] >= TwoLevel!block_size_min /\ TlsfNx(S, b) \in TlsfHeads(S)
  /\ \A c \in TlsfHeads(S) : b < c => TlsfNx(S, b) <= c

\* The sizes S are those of blocks that fill the pools Q.
TlsfTiled(S, Q) ==
  /\ S \in [TwoLevel!Cell -> TwoLevel!Cell \union {TwoLevel!None}] /\ Q \subseteq TwoLevel!Pool
  /\ \A p \in Q : p \in TlsfHeads(S) /\ TwoLevel!Sentinel(p) \in TlsfHeads(S) /\ S[TwoLevel!Sentinel(p)] = 0
  /\ \A b \in TlsfHeads(S) : \E p \in Q : p <= b /\ b <= TwoLevel!Sentinel(p)
  /\ \A b \in TlsfHeads(S) \ TlsfEnds : TlsfLies(S, b)

\* The blocks that are in use when F are free.
TlsfUsed(S, F) == TlsfHeads(S) \ (F \union TlsfEnds)

\* The blocks of P are those that the next one knows to be free, and finds.
TlsfMarked(prev, prevFree, S, P) ==
  /\ P \subseteq TlsfHeads(S) \ TlsfEnds
  /\ prev \in [TwoLevel!Cell -> TwoLevel!Cell \union {TwoLevel!None}]
  /\ prevFree = {TlsfNx(S, x) : x \in P}
  /\ \A x \in P : prev[TlsfNx(S, x)] = x

\* The blocks of X are those on the lists.
TlsfListed(lists, sl, fl, S, X) ==
  /\ X \subseteq TlsfHeads(S) \ TlsfEnds
  /\ lists \in [TwoLevel!ClassIndex -> Seq(TwoLevel!Cell)] /\ sl \subseteq TwoLevel!ClassIndex
  /\ fl = {c[1] : c \in sl}
  /\ \A c \in TwoLevel!ClassIndex :
       /\ c \in sl <=> lists[c] # <<>>
       /\ TwoLevel!IsInjective(lists[c])
       /\ TwoLevel!Range(lists[c]) = {b \in X : TwoLevel!Class(S[b]) = c}

TlsfDatas == [TwoLevel!Cell -> {Nobody} \union (Handle \X Nat)]

TlsfIsMem(m) ==
  m = [fl |-> m.fl, sl |-> m.sl, lists |-> m.lists, pools |-> m.pools, size |-> m.size,
       prev |-> m.prev, free |-> m.free, prevFree |-> m.prevFree, data |-> m.data]

\* In the middle of an operation: the blocks of F have the mark of a free block,
\* those of P are known to be free by the next one, and those of X are on a list.
TlsfLike(m, S, Q, F, P, X) ==
  /\ TlsfIsMem(m) /\ m.size = S /\ m.pools = Q /\ m.free = F
  /\ F \subseteq TlsfHeads(S) \ TlsfEnds
  /\ TlsfMarked(m.prev, m.prevFree, S, P)
  /\ TlsfListed(m.lists, m.sl, m.fl, S, X)
  /\ m.data \in TlsfDatas

\* Between two operations.
TlsfApart(S, F) == \A x \in F : TlsfNx(S, x) \notin F
TlsfGood(m, S, Q, F) == TlsfTiled(S, Q) /\ TlsfLike(m, S, Q, F, F, F) /\ TlsfApart(S, F)

-----------------------------------------------------------------------------
(* Powers of two. *)

\* The first n of them.
TlsfPowers(w, n) == w \in [0 .. n -> Nat] /\ \A k \in 0 .. n : w[k] = IF k = 0 THEN 1 ELSE 2 * w[k - 1]

LEMMA TlsfPowersExist == \A n \in Nat : \E w : TlsfPowers(w, n)
<1> DEFINE T == {n \in Nat : \E w : TlsfPowers(w, n)}
<1>1. 0 \in T
  <2>1. TlsfPowers([k \in 0 .. 0 |-> 1], 0)
    BY DEF TlsfPowers
  <2> QED BY <2>1
<1>2. ASSUME NEW n \in T PROVE n + 1 \in T
  <2>1. PICK w : TlsfPowers(w, n)
    OBVIOUS
  <2> DEFINE v == [k \in 0 .. n + 1 |-> IF k = n + 1 THEN 2 * w[n] ELSE w[k]]
  <2>2. n \in Nat /\ n \in 0 .. n /\ w[n] \in Nat
    BY <2>1 DEF TlsfPowers
  <2>3. ASSUME NEW k \in 0 .. n + 1 PROVE v[k] \in Nat /\ v[k] = IF k = 0 THEN 1 ELSE 2 * v[k - 1]
    <3>1. CASE k = n + 1
      <4>1. n \in 0 .. n + 1 /\ n # n + 1 /\ k # 0 /\ k - 1 = n
        BY <2>2, <3>1
      <4>2. v[n] = w[n] /\ v[k] = 2 * w[n]
        BY <4>1, <3>1
      <4> QED BY <4>1, <4>2, <2>2
    <3>2. CASE k # n + 1
      <4>1. k \in 0 .. n /\ v[k] = w[k]
        BY <2>2, <3>2
      <4>2. w[k] \in Nat /\ w[k] = IF k = 0 THEN 1 ELSE 2 * w[k - 1]
        BY <2>1, <4>1 DEF TlsfPowers
      <4>3. CASE k = 0
        BY <4>1, <4>2, <4>3
      <4>4. CASE k # 0
        <5>1. k - 1 \in 0 .. n + 1 /\ k - 1 # n + 1
          BY <4>1, <4>4, <2>2
        <5>2. v[k - 1] = w[k - 1]
          BY <5>1
        <5> QED BY <4>1, <4>2, <4>4, <5>2
      <4> QED BY <4>3, <4>4
    <3> QED BY <3>1, <3>2
  <2>4. TlsfPowers(v, n + 1)
    <3>1. v \in [0 .. n + 1 -> Nat]
      BY <2>3
    <3> HIDE DEF v
    <3> QED BY <3>1, <2>3 DEF TlsfPowers
  <2> QED BY <2>4, <2>2
<1>3. T = Nat
  <2>1. T \in SUBSET Nat
    OBVIOUS
  <2> HIDE DEF T
  <2> QED BY <1>1, <1>2, <2>1, SetInduction
<1> QED BY <1>3

\* They begin alike.
LEMMA TlsfPowersAgree ==
  ASSUME NEW n \in Nat, NEW m \in Nat, NEW w, NEW v, TlsfPowers(w, n), TlsfPowers(v, m)
  PROVE  \A k \in Nat : k <= n /\ k <= m => w[k] = v[k]
<1> DEFINE T == {k \in Nat : k <= n /\ k <= m => w[k] = v[k]}
<1>1. 0 \in T
  BY DEF TlsfPowers
<1>2. ASSUME NEW k \in T PROVE k + 1 \in T
  <2>1. SUFFICES ASSUME k + 1 <= n, k + 1 <= m PROVE w[k + 1] = v[k + 1]
    OBVIOUS
  <2>2. w[k] = v[k] /\ k + 1 \in 0 .. n /\ k + 1 \in 0 .. m /\ k + 1 # 0 /\ (k + 1) - 1 = k
    BY <2>1
  <2> QED BY <2>2 DEF TlsfPowers
<1>3. T = Nat
  <2>1. T \in SUBSET Nat
    OBVIOUS
  <2> HIDE DEF T
  <2> QED BY <1>1, <1>2, <2>1, SetInduction
<1> QED BY <1>3

TlsfIsBit(f) == f = [k \in Nat |-> IF k = 0 THEN 1 ELSE 2 * f[k - 1]]

LEMMA TlsfBitIs ==
  /\ TwoLevel!Bit[0] = 1 /\ \A k \in Nat : TwoLevel!Bit[k + 1] = 2 * TwoLevel!Bit[k]
  /\ \A k \in Nat : TwoLevel!Bit[k] \in Nat
<1> DEFINE W(n) == CHOOSE w : TlsfPowers(w, n)
           F == [k \in Nat |-> W(k)[k]]
<1>1. ASSUME NEW n \in Nat PROVE TlsfPowers(W(n), n)
  BY TlsfPowersExist
<1>2. ASSUME NEW k \in Nat PROVE F[k] \in Nat /\ F[k] = IF k = 0 THEN 1 ELSE 2 * F[k - 1]
  <2>1. TlsfPowers(W(k), k) /\ F[k] = W(k)[k]
    BY <1>1
  <2> HIDE DEF W
  <2>2. CASE k = 0
    <3>1. 0 \in 0 .. 0
      OBVIOUS
    <3> QED BY <2>1, <2>2, <3>1 DEF TlsfPowers
  <2>3. CASE k # 0
    <3>1. k - 1 \in Nat /\ k \in 0 .. k /\ k - 1 <= k - 1 /\ k - 1 <= k
      BY <2>3
    <3>2. TlsfPowers(W(k - 1), k - 1) /\ F[k - 1] = W(k - 1)[k - 1]
      BY <1>1, <3>1
    <3>3. W(k - 1)[k - 1] = W(k)[k - 1]
      BY <2>1, <3>1, <3>2, TlsfPowersAgree
    <3>4. W(k)[k] \in Nat /\ W(k)[k] = 2 * W(k)[k - 1]
      BY <2>1, <2>3, <3>1 DEF TlsfPowers
    <3> QED BY <2>1, <2>3, <3>2, <3>3, <3>4
  <2> QED BY <2>2, <2>3
<1>3. TlsfIsBit(F)
  <2>1. F = [k \in Nat |-> F[k]]
    OBVIOUS
  <2> HIDE DEF F
  <2> QED BY <2>1, <1>2 DEF TlsfIsBit
<1>4. TlsfIsBit(TwoLevel!Bit)
  <2> HIDE DEF F
  <2>1. TwoLevel!Bit = CHOOSE f : TlsfIsBit(f)
    BY DEF TwoLevel!Bit, TlsfIsBit
  <2> QED BY <2>1, <1>3
<1>5. ASSUME NEW k \in Nat PROVE TwoLevel!Bit[k] = IF k = 0 THEN 1 ELSE 2 * TwoLevel!Bit[k - 1]
  BY <1>4 DEF TlsfIsBit
<1>6. ASSUME NEW k \in Nat PROVE TwoLevel!Bit[k + 1] = 2 * TwoLevel!Bit[k]
  <2>1. k + 1 \in Nat /\ k + 1 # 0 /\ (k + 1) - 1 = k
    OBVIOUS
  <2> QED BY <2>1, <1>5
<1>7. TwoLevel!Bit[0] = 1
  BY <1>5
<1>8. \A k \in Nat : TwoLevel!Bit[k] \in Nat
  <2> DEFINE T == {k \in Nat : TwoLevel!Bit[k] \in Nat}
  <2>1. 0 \in T
    BY <1>7
  <2>2. ASSUME NEW k \in T PROVE k + 1 \in T
    <3>1. k \in Nat /\ TwoLevel!Bit[k] \in Nat
      OBVIOUS
    <3> QED BY <1>6, <3>1
  <2>3. T \in SUBSET Nat
    OBVIOUS
  <2>4. T = Nat
    <3> HIDE DEF T
    <3> QED BY <2>1, <2>2, <2>3, SetInduction
  <2> QED BY <2>4
<1> QED BY <1>6, <1>7, <1>8

LEMMA TlsfBitGrows == \A k \in Nat : TwoLevel!Bit[k] \in Nat /\ k < TwoLevel!Bit[k] /\ TwoLevel!Bit[k] >= 1
<1> DEFINE T == {k \in Nat : k < TwoLevel!Bit[k]}
<1>1. 0 \in T
  BY TlsfBitIs
<1>2. ASSUME NEW k \in T PROVE k + 1 \in T
  <2>1. k \in Nat /\ k < TwoLevel!Bit[k] /\ TwoLevel!Bit[k] \in Nat /\ TwoLevel!Bit[k + 1] = 2 * TwoLevel!Bit[k]
    BY TlsfBitIs
  <2> QED BY <2>1
<1>3. T = Nat
  <2>1. T \in SUBSET Nat
    OBVIOUS
  <2> HIDE DEF T
  <2> QED BY <1>1, <1>2, <2>1, SetInduction
<1>4. ASSUME NEW k \in Nat PROVE TwoLevel!Bit[k] \in Nat /\ k < TwoLevel!Bit[k] /\ TwoLevel!Bit[k] >= 1
  <2>1. TwoLevel!Bit[k] \in Nat /\ k < TwoLevel!Bit[k]
    BY <1>3, TlsfBitIs
  <2> QED BY <2>1
<1> QED BY <1>4

LEMMA TlsfBitProduct ==
  ASSUME NEW j \in Nat
  PROVE  \A k \in Nat : TwoLevel!Bit[j + k] = TwoLevel!Bit[j] * TwoLevel!Bit[k]
<1> DEFINE T == {k \in Nat : TwoLevel!Bit[j + k] = TwoLevel!Bit[j] * TwoLevel!Bit[k]}
<1>0. TwoLevel!Bit[j] \in Nat
  BY TlsfBitIs
<1>1. 0 \in T
  <2>1. j + 0 = j /\ TwoLevel!Bit[0] = 1 /\ TwoLevel!Bit[j] * 1 = TwoLevel!Bit[j]
    BY <1>0, TlsfBitIs
  <2> QED BY <2>1
<1>2. ASSUME NEW k \in T PROVE k + 1 \in T
  <2>1. k \in Nat /\ TwoLevel!Bit[k] \in Nat /\ j + k \in Nat /\ TwoLevel!Bit[j + k] = TwoLevel!Bit[j] * TwoLevel!Bit[k]
    BY TlsfBitIs
  <2>2. TwoLevel!Bit[k + 1] = 2 * TwoLevel!Bit[k] /\ TwoLevel!Bit[(j + k) + 1] = 2 * TwoLevel!Bit[j + k]
    BY <2>1, TlsfBitIs
  <2>3. j + (k + 1) = (j + k) + 1
    BY <2>1
  <2>4. TwoLevel!Bit[j] * (2 * TwoLevel!Bit[k]) = 2 * (TwoLevel!Bit[j] * TwoLevel!Bit[k])
    BY <1>0, <2>1
  <2>5. TwoLevel!Bit[j + (k + 1)] = TwoLevel!Bit[j] * TwoLevel!Bit[k + 1]
    BY <2>1, <2>2, <2>3, <2>4
  <2> QED BY <2>5, <2>1
<1>3. T = Nat
  <2>1. T \in SUBSET Nat
    OBVIOUS
  <2> HIDE DEF T
  <2> QED BY <1>1, <1>2, <2>1, SetInduction
<1> QED BY <1>3

LEMMA TlsfBitMonotone ==
  ASSUME NEW j \in Nat, NEW k \in Nat, j <= k
  PROVE  TwoLevel!Bit[j] <= TwoLevel!Bit[k]
<1>1. k - j \in Nat /\ j + (k - j) = k
  OBVIOUS
<1>2. TwoLevel!Bit[k] = TwoLevel!Bit[j] * TwoLevel!Bit[k - j]
  BY <1>1, TlsfBitProduct
<1>3. TwoLevel!Bit[j] \in Nat /\ TwoLevel!Bit[k - j] \in Nat /\ TwoLevel!Bit[k - j] >= 1
  BY <1>1, TlsfBitGrows
<1> QED BY <1>2, <1>3
-----------------------------------------------------------------------------
(* Division and remainder. *)

LEMMA TlsfDivIs ==
  ASSUME NEW n \in Nat, NEW q \in Nat \ {0}
  PROVE  n \div q \in Nat /\ (n \div q) * q <= n /\ n < (n \div q) * q + q
OBVIOUS

LEMMA TlsfDivBetween ==
  ASSUME NEW n \in Nat, NEW q \in Nat \ {0}, NEW a \in Nat, NEW b \in Nat, a * q <= n, n < b * q
  PROVE  a <= n \div q /\ n \div q < b
<1> DEFINE d == n \div q
<1>1. d \in Nat /\ d * q <= n /\ n < d * q + q
  BY TlsfDivIs
<1> HIDE DEF d
<1>2. ASSUME d < a PROVE FALSE
  <2>1. d + 1 <= a
    BY <1>1, <1>2
  <2>2. (d + 1) * q <= a * q
    BY <1>1, <2>1
  <2>3. (d + 1) * q = d * q + q
    BY <1>1
  <2>4. d * q \in Nat /\ a * q \in Nat
    BY <1>1
  <2> QED BY <1>1, <2>2, <2>3, <2>4
<1>3. ASSUME b <= d PROVE FALSE
  <2>1. b * q <= d * q
    BY <1>1, <1>3
  <2>2. d * q \in Nat /\ b * q \in Nat
    BY <1>1
  <2> QED BY <1>1, <2>1, <2>2
<1>4. a <= d /\ d < b
  BY <1>1, <1>2, <1>3
<1> QED BY <1>4 DEF d

LEMMA TlsfModOfMultiple ==
  ASSUME NEW k \in Nat, NEW a \in Nat \ {0}
  PROVE  (k * a) % a = 0
OBVIOUS

\* AlignUp gives the first multiple there is.
LEMMA TlsfAlignUpIs ==
  ASSUME NEW n \in Nat, NEW a \in Nat \ {0}
  PROVE  /\ TwoLevel!AlignUp(n, a) \in Nat /\ n <= TwoLevel!AlignUp(n, a) /\ TwoLevel!AlignUp(n, a) <= n + a - 1
         /\ TwoLevel!AlignUp(n, a) % a = 0
<1> DEFINE d == (n + a - 1) \div a
<1>1. n + a - 1 \in Nat
  OBVIOUS
<1>2. d \in Nat /\ d * a <= n + a - 1 /\ n + a - 1 < d * a + a
  BY <1>1, TlsfDivIs
<1>3. TwoLevel!AlignUp(n, a) = d * a
  BY DEF TwoLevel!AlignUp
<1> HIDE DEF d
<1>4. (d * a) % a = 0 /\ d * a \in Nat
  BY <1>2, TlsfModOfMultiple
<1> QED BY <1>2, <1>3, <1>4

LEMMA TlsfAlignUpByOne ==
  ASSUME NEW n \in Nat
  PROVE  TwoLevel!AlignUp(n, 1) = n
BY DEF TwoLevel!AlignUp

-----------------------------------------------------------------------------
(* The classes. *)

LEMMA TlsfLog2Is ==
  ASSUME NEW n \in Nat \ {0}
  PROVE  TwoLevel!Log2(n) \in Nat /\ TwoLevel!Bit[TwoLevel!Log2(n)] <= n /\ n < TwoLevel!Bit[TwoLevel!Log2(n) + 1]
<1> DEFINE S == {k \in 0 .. n : TwoLevel!Bit[k] <= n}
<1>1. S \in SUBSET (0 .. n) /\ S # {}
  <2>1. 0 \in S
    BY TlsfBitIs
  <2> QED BY <2>1
<1>2. PICK k \in S : \A m \in S : m <= k
  BY <1>1, Greatest
<1>3. k \in 0 .. n /\ k \in Nat /\ TwoLevel!Bit[k] <= n
  BY <1>2
<1>4. n < TwoLevel!Bit[k + 1]
  <2>1. TwoLevel!Bit[k + 1] \in Nat /\ k + 1 < TwoLevel!Bit[k + 1] /\ k + 1 \in Nat
    BY <1>3, TlsfBitGrows
  <2>2. CASE k + 1 \in 0 .. n
    <3>1. k + 1 \notin S
      BY <1>2, <1>3
    <3> QED BY <2>1, <2>2, <3>1
  <2>3. CASE k + 1 \notin 0 .. n
    BY <2>1, <2>3
  <2> QED BY <2>2, <2>3
<1>5. TwoLevel!Log2(n) \in 0 .. n /\ TwoLevel!Bit[TwoLevel!Log2(n)] <= n /\ n < TwoLevel!Bit[TwoLevel!Log2(n) + 1]
  BY <1>3, <1>4 DEF TwoLevel!Log2
<1> QED BY <1>5

LEMMA TlsfLog2Monotone ==
  ASSUME NEW x \in Nat \ {0}, NEW n \in Nat, x <= n
  PROVE  TwoLevel!Log2(x) <= TwoLevel!Log2(n)
<1>1. /\ TwoLevel!Log2(x) \in Nat /\ TwoLevel!Bit[TwoLevel!Log2(x)] <= x /\ TwoLevel!Log2(n) \in Nat /\ n < TwoLevel!Bit[TwoLevel!Log2(n) + 1]
  <2>1. n \in Nat \ {0}
    OBVIOUS
  <2> QED BY <2>1, TlsfLog2Is
<1>2. ASSUME TwoLevel!Log2(n) + 1 <= TwoLevel!Log2(x) PROVE FALSE
  <2>1. TwoLevel!Bit[TwoLevel!Log2(n) + 1] <= TwoLevel!Bit[TwoLevel!Log2(x)]
    BY <1>1, <1>2, TlsfBitMonotone
  <2>2. TwoLevel!Bit[TwoLevel!Log2(x)] \in Nat /\ TwoLevel!Bit[TwoLevel!Log2(n) + 1] \in Nat
    BY <1>1, TlsfBitGrows
  <2> QED BY <1>1, <2>1, <2>2
<1> QED BY <1>1, <1>2

LEMMA TlsfLog2AtLeast ==
  ASSUME NEW j \in Nat, NEW n \in Nat, TwoLevel!Bit[j] <= n
  PROVE  n # 0 /\ j <= TwoLevel!Log2(n) /\ TwoLevel!Log2(n) \in Nat /\ TwoLevel!Log2(n) - j \in Nat
<1>0. n # 0 /\ TwoLevel!Bit[j] \in Nat
  BY TlsfBitGrows
<1>1. TwoLevel!Log2(n) \in Nat /\ n < TwoLevel!Bit[TwoLevel!Log2(n) + 1]
  BY <1>0, TlsfLog2Is
<1>2. ASSUME TwoLevel!Log2(n) + 1 <= j PROVE FALSE
  <2>1. TwoLevel!Bit[TwoLevel!Log2(n) + 1] <= TwoLevel!Bit[j] /\ TwoLevel!Bit[TwoLevel!Log2(n) + 1] \in Nat
    BY <1>1, <1>2, TlsfBitMonotone, TlsfBitGrows
  <2> QED BY <1>0, <1>1, <2>1
<1> QED BY <1>0, <1>1, <1>2

LEMMA TlsfConsts ==
  /\ SlLog2 \in Nat /\ FlCount \in Nat /\ FlCount >= 1
  /\ TlsfCells \in Nat /\ Split \in Nat /\ Split >= 5 /\ Split + 5 <= TlsfCells
  /\ TwoLevel!Bit[SlLog2] \in Nat /\ TwoLevel!Bit[SlLog2] >= 1
  /\ TwoLevel!block_size_max \in Nat
  /\ Split - 2 < TwoLevel!block_size_max /\ TlsfCells - Split - 2 < TwoLevel!block_size_max
<1>1. /\ SlLog2 \in Nat /\ FlCount \in Nat /\ FlCount >= 1
      /\ TlsfCells \in Nat /\ Split \in 5 .. TlsfCells - 5
      /\ Split - 2 < TwoLevel!block_size_max /\ TlsfCells - Split - 2 < TwoLevel!block_size_max
  BY TlsfBounds
<1>2. FlCount - 1 + SlLog2 \in Nat
  BY <1>1
<1>3. TwoLevel!block_size_max \in Nat /\ TwoLevel!Bit[SlLog2] \in Nat /\ TwoLevel!Bit[SlLog2] >= 1
  BY <1>1, <1>2, TlsfBitGrows DEF TwoLevel!block_size_max
<1> QED BY <1>1, <1>3

\* The second part of the class of a large block.
LEMMA TlsfSecond ==
  ASSUME NEW n \in Nat, TwoLevel!Bit[SlLog2] <= n
  PROVE  LET q == TwoLevel!Bit[TwoLevel!Log2(n) - SlLog2]
         IN  /\ q \in Nat \ {0} /\ n \div q \in Nat
             /\ TwoLevel!Bit[SlLog2] <= n \div q /\ n \div q < 2 * TwoLevel!Bit[SlLog2]
<1> DEFINE k == TwoLevel!Log2(n)
           q == TwoLevel!Bit[k - SlLog2]
           M == TwoLevel!Bit[SlLog2]
<1>1. k \in Nat /\ SlLog2 \in Nat /\ k - SlLog2 \in Nat /\ n # 0
  BY TlsfLog2AtLeast, TlsfConsts
<1>2. TwoLevel!Bit[k] <= n /\ n < TwoLevel!Bit[k + 1]
  BY <1>1, TlsfLog2Is
<1>3. q \in Nat \ {0} /\ M \in Nat
  BY <1>1, TlsfBitGrows, TlsfConsts
<1> HIDE DEF k
<1>4. TwoLevel!Bit[k] = M * q
  <2>1. SlLog2 + (k - SlLog2) = k
    BY <1>1
  <2> QED BY <1>1, <2>1, TlsfBitProduct
<1>5. TwoLevel!Bit[k + 1] = (2 * M) * q
  <2>1. TwoLevel!Bit[k + 1] = 2 * TwoLevel!Bit[k]
    BY <1>1, TlsfBitIs
  <2> HIDE DEF M, q
  <2> QED BY <1>3, <1>4, <2>1
<1>6. 2 * M \in Nat
  BY <1>3
<1>7. n \div q \in Nat /\ M <= n \div q /\ n \div q < 2 * M
  <2> HIDE DEF M, q
  <2> QED BY <1>2, <1>3, <1>4, <1>5, <1>6, TlsfDivBetween, TlsfDivIs
<1> QED BY <1>3, <1>7 DEF k

LEMMA TlsfClassIs ==
  ASSUME NEW n \in Nat, n < TwoLevel!block_size_max
  PROVE  TwoLevel!Class(n) \in TwoLevel!ClassIndex
<1> DEFINE M == TwoLevel!Bit[SlLog2]
<1>0. M \in Nat /\ M >= 1 /\ SlLog2 \in Nat /\ FlCount \in Nat /\ FlCount >= 1
  BY TlsfConsts
<1>1. CASE n < M
  <2>1. TwoLevel!Class(n) = <<0, n>>
    BY <1>1 DEF TwoLevel!Class
  <2>2. n \in 0 .. M - 1 /\ 0 \in 0 .. FlCount - 1
    BY <1>0, <1>1
  <2> QED BY <2>1, <2>2 DEF TwoLevel!ClassIndex
<1>2. CASE ~(n < M)
  <2> DEFINE k == TwoLevel!Log2(n)
             d == n \div TwoLevel!Bit[k - SlLog2]
  <2>1. TwoLevel!Class(n) = <<k - SlLog2 + 1, d - M>>
    BY <1>2 DEF TwoLevel!Class
  <2>2. M <= n
    BY <1>0, <1>2
  <2>3. k \in Nat /\ SlLog2 <= k /\ n # 0
    BY <1>0, <2>2, TlsfLog2AtLeast
  <2>4. d \in Nat /\ M <= d /\ d < 2 * M
    BY <2>2, TlsfSecond
  <2>5. k < FlCount - 1 + SlLog2
    <3>1. TwoLevel!Bit[k] <= n /\ FlCount - 1 + SlLog2 \in Nat
      BY <1>0, <2>3, TlsfLog2Is
    <3> HIDE DEF k
    <3>2. ASSUME FlCount - 1 + SlLog2 <= k PROVE FALSE
      <4>1. TwoLevel!block_size_max <= TwoLevel!Bit[k]
        BY <2>3, <3>1, <3>2, TlsfBitMonotone DEF TwoLevel!block_size_max
      <4>2. TwoLevel!Bit[k] \in Nat /\ TwoLevel!block_size_max \in Nat
        BY <2>3, TlsfBitGrows, TlsfConsts
      <4> QED BY <3>1, <4>1, <4>2
    <3> QED BY <1>0, <2>3, <3>2
  <2> HIDE DEF k, d
  <2>6. k - SlLog2 + 1 \in 0 .. FlCount - 1 /\ d - M \in 0 .. M - 1
    <3> HIDE DEF M
    <3> QED BY <1>0, <2>3, <2>4, <2>5
  <2> QED BY <2>1, <2>6 DEF TwoLevel!ClassIndex
<1> QED BY <1>1, <1>2
-----------------------------------------------------------------------------
(* What the search finds. *)

\* Class c comes behind class s, or is s.
TlsfBehind(c, s) == c[1] > s[1] \/ (c[1] = s[1] /\ c[2] >= s[2])

\* A block whose class comes behind the one searched for has the units asked for.
LEMMA TlsfSearchIs ==
  ASSUME NEW n \in Nat, NEW x \in Nat, TlsfBehind(TwoLevel!Class(x), TwoLevel!SearchClass(n))
  PROVE  n <= x
<1> DEFINE M == TwoLevel!Bit[SlLog2]
<1>0. M \in Nat /\ M >= 1 /\ SlLog2 \in Nat
  BY TlsfConsts
<1> SUFFICES ASSUME x < n PROVE FALSE
  OBVIOUS
<1>1. CASE n < M
  <2>1. TwoLevel!SearchClass(n) = <<0, n>> /\ TwoLevel!Class(x) = <<0, x>>
    BY <1>0, <1>1 DEF TwoLevel!SearchClass, TwoLevel!Class
  <2> QED BY <2>1 DEF TlsfBehind
<1>2. CASE ~(n < M)
  <2> DEFINE k == TwoLevel!Log2(n)
             q == TwoLevel!Bit[k - SlLog2]
             r == n + q - 1
  <2>1. M <= n
    BY <1>0, <1>2
  <2>2. k \in Nat /\ k - SlLog2 \in Nat /\ n # 0 /\ SlLog2 <= k
    BY <1>0, <2>1, TlsfLog2AtLeast
  <2>3. q \in Nat \ {0}
    BY <2>1, TlsfSecond
  <2>4. r \in Nat /\ n <= r /\ M <= r
    <3> HIDE DEF M, q
    <3> QED BY <1>0, <2>1, <2>3
  <2>5. TwoLevel!SearchClass(n) = TwoLevel!Class(r)
    BY <1>2 DEF TwoLevel!SearchClass
  <2>6. TwoLevel!Class(r) = <<TwoLevel!Log2(r) - SlLog2 + 1, r \div TwoLevel!Bit[TwoLevel!Log2(r) - SlLog2] - M>>
    <3> HIDE DEF r
    <3> QED BY <1>0, <2>4 DEF TwoLevel!Class
  <2>7. k <= TwoLevel!Log2(r) /\ TwoLevel!Log2(r) \in Nat
    <3>1. n \in Nat \ {0} /\ r \in Nat \ {0}
      BY <2>2, <2>4
    <3> HIDE DEF r
    <3> QED BY <3>1, <2>4, TlsfLog2Monotone, TlsfLog2Is
  <2>8. CASE x < M
    <3>1. TwoLevel!Class(x) = <<0, x>>
      BY <2>8 DEF TwoLevel!Class
    <3>2. TwoLevel!Log2(r) - SlLog2 + 1 > 0
      <4> HIDE DEF k, r
      <4> QED BY <1>0, <2>2, <2>7
    <3> HIDE DEF k, q, r, M
    <3>3. TwoLevel!SearchClass(n)[1] > 0 /\ TwoLevel!Class(x)[1] = 0 /\ TwoLevel!SearchClass(n)[1] \in Int
      <4> HIDE DEF r
      <4> QED BY <2>5, <2>6, <3>1, <3>2, <1>0, <2>7
    <3> QED BY <3>3 DEF TlsfBehind
  <2>9. CASE ~(x < M)
    <3>1. M <= x /\ x # 0 /\ x <= n
      BY <1>0, <2>9
    <3>2. TwoLevel!Log2(x) \in Nat /\ TwoLevel!Log2(x) <= k
      <4>1. x \in Nat \ {0}
        BY <3>1
      <4> QED BY <3>1, <4>1, TlsfLog2Monotone, TlsfLog2Is
    <3>3. TwoLevel!Class(x) = <<TwoLevel!Log2(x) - SlLog2 + 1, x \div TwoLevel!Bit[TwoLevel!Log2(x) - SlLog2] - M>>
      BY <2>9 DEF TwoLevel!Class
    <3>4. CASE TwoLevel!Log2(x) # TwoLevel!Log2(r)
      <4>1. TwoLevel!Class(x)[1] < TwoLevel!SearchClass(n)[1] /\ TwoLevel!Class(x)[1] \in Int /\ TwoLevel!SearchClass(n)[1] \in Int
        <5>1. TwoLevel!Class(x)[1] = TwoLevel!Log2(x) - SlLog2 + 1 /\ TwoLevel!SearchClass(n)[1] = TwoLevel!Log2(r) - SlLog2 + 1
          BY <3>3, <2>5, <2>6
        <5> HIDE DEF k, q, r, M
        <5> QED BY <5>1, <3>2, <3>4, <2>7, <2>2, <1>0
      <4> QED BY <4>1 DEF TlsfBehind
    <3>5. CASE TwoLevel!Log2(x) = TwoLevel!Log2(r)
      <4>1. TwoLevel!Log2(r) = k
        BY <2>2, <2>7, <3>2, <3>5
      <4> DEFINE d == x \div q
                 e == r \div q
      <4>2. TwoLevel!Class(x) = <<k - SlLog2 + 1, d - M>> /\ TwoLevel!SearchClass(n) = <<k - SlLog2 + 1, e - M>>
        BY <3>3, <3>5, <4>1, <2>5, <2>6
      <4>3. d \in Nat /\ d * q <= x /\ x < d * q + q
        <5> HIDE DEF q
        <5> QED BY <2>3, TlsfDivIs
      <4>4. e \in Nat /\ e * q <= r /\ r < e * q + q
        <5> HIDE DEF q, r
        <5> QED BY <2>3, <2>4, TlsfDivIs
      <4>5. d < e
        <5> HIDE DEF d, e, q
        <5>1. ASSUME e <= d PROVE FALSE
          <6>1. e * q <= d * q /\ e * q \in Nat /\ d * q \in Nat
            BY <5>1, <4>3, <4>4, <2>3
          <6>2. d * q <= n - 1 /\ r = n + q - 1
            BY <4>3, <6>1
          <6> HIDE DEF r
          <6>3. (d + 1) * q = d * q + q
            BY <4>3, <2>3
          <6>4. r < d * q + q
            BY <6>1, <4>4, <2>3, <2>4
          <6>5. n - 1 < d * q
            BY <6>4, <6>2, <6>1, <2>3
          <6> QED BY <6>5, <6>2, <6>1
        <5> QED BY <5>1, <4>3, <4>4
      <4> HIDE DEF d, e, k, q, r, M
      <4>6. TwoLevel!Class(x)[1] = TwoLevel!SearchClass(n)[1] /\ TwoLevel!Class(x)[2] < TwoLevel!SearchClass(n)[2]
            /\ TwoLevel!Class(x)[1] \in Int /\ TwoLevel!Class(x)[2] \in Int /\ TwoLevel!SearchClass(n)[2] \in Int
        BY <4>2, <4>3, <4>4, <4>5, <1>0, <2>2
      <4> QED BY <4>6 DEF TlsfBehind
    <3> QED BY <3>4, <3>5
  <2> QED BY <2>8, <2>9
<1> QED BY <1>1, <1>2

LEMMA TlsfSuitableIs ==
  ASSUME NEW m, NEW n, m.sl \subseteq TwoLevel!ClassIndex, m.fl = {d[1] : d \in m.sl},
         NEW c \in TwoLevel!Suitable(m, n)
  PROVE  c \in m.sl /\ n # 0 /\ TlsfBehind(c, TwoLevel!SearchClass(n))
<1> DEFINE s == TwoLevel!SearchClass(n)
           same == {d \in m.sl : d[1] = s[1] /\ d[2] >= s[2]}
           above == {f \in m.fl : f > s[1]}
           row == IF same # {} THEN same ELSE {d \in m.sl : d[1] \in above /\ \A f \in above : d[1] <= f}
<1>1. n # 0 /\ ~(same = {} /\ above = {}) /\ c \in row
  BY DEF TwoLevel!Suitable
<1>2. CASE same # {}
  BY <1>1, <1>2 DEF TlsfBehind
<1>3. CASE same = {}
  <2>1. above # {} /\ c \in m.sl /\ c[1] \in above
    BY <1>1, <1>3
  <2>5. c[1] > s[1]
    <3> HIDE DEF s
    <3> QED BY <2>1
  <2>6. TlsfBehind(c, s)
    <3> HIDE DEF s
    <3> QED BY <2>5 DEF TlsfBehind
  <2>7. c \in m.sl /\ n # 0
    BY ONLY <1>1, <2>1
  <2> QED BY ONLY <2>6, <2>7
<1> QED BY <1>2, <1>3
-----------------------------------------------------------------------------
(* Blocks next to one another. *)

LEMMA TlsfTiledIs ==
  ASSUME NEW S, NEW Q, TlsfTiled(S, Q)
  PROVE  /\ S \in [TwoLevel!Cell -> TwoLevel!Cell \union {TwoLevel!None}] /\ Q \subseteq TwoLevel!Pool
         /\ TlsfHeads(S) \subseteq TwoLevel!Cell /\ TlsfHeads(S) \subseteq Nat
         /\ \A b \in TlsfHeads(S) : b \in Nat /\ S[b] \in Nat
         /\ \A b \in TlsfHeads(S) \ TlsfEnds : TlsfLies(S, b) /\ TlsfNx(S, b) \in Nat /\ b < TlsfNx(S, b)
         /\ \A p \in Q : /\ p \in TlsfHeads(S) /\ p \notin TlsfEnds
                         /\ TwoLevel!Sentinel(p) \in TlsfHeads(S) /\ TwoLevel!Sentinel(p) \in TlsfEnds /\ S[TwoLevel!Sentinel(p)] = 0
                         /\ p < TwoLevel!Sentinel(p)
         /\ \A b \in TlsfHeads(S) : \E p \in Q : p <= b /\ b <= TwoLevel!Sentinel(p)
<1>0. TwoLevel!Cell \subseteq Nat /\ TwoLevel!None \notin Nat
  BY TlsfConsts DEF TwoLevel!Cell, TwoLevel!None
<1>1. S \in [TwoLevel!Cell -> TwoLevel!Cell \union {TwoLevel!None}] /\ Q \subseteq TwoLevel!Pool /\ TlsfHeads(S) \subseteq TwoLevel!Cell
  BY DEF TlsfTiled, TlsfHeads
<1>2. ASSUME NEW b \in TlsfHeads(S) PROVE b \in Nat /\ S[b] \in Nat
  <2>1. b \in TwoLevel!Cell /\ S[b] # TwoLevel!None
    BY DEF TlsfHeads
  <2> QED BY <1>0, <1>1, <2>1
<1>3. ASSUME NEW b \in TlsfHeads(S) \ TlsfEnds PROVE TlsfLies(S, b) /\ TlsfNx(S, b) \in Nat /\ b < TlsfNx(S, b)
  <2>1. TlsfLies(S, b) /\ b \in Nat /\ S[b] \in Nat
    BY <1>2 DEF TlsfTiled
  <2> QED BY <2>1 DEF TlsfNx
<1>4. ASSUME NEW p \in Q
      PROVE  /\ p \in TlsfHeads(S) /\ p \notin TlsfEnds
             /\ TwoLevel!Sentinel(p) \in TlsfHeads(S) /\ TwoLevel!Sentinel(p) \in TlsfEnds /\ S[TwoLevel!Sentinel(p)] = 0
             /\ p < TwoLevel!Sentinel(p)
  <2>1. p \in TlsfHeads(S) /\ TwoLevel!Sentinel(p) \in TlsfHeads(S) /\ S[TwoLevel!Sentinel(p)] = 0
    BY DEF TlsfTiled
  <2>2. p \in {0, Split}
    BY <1>1 DEF TwoLevel!Pool
  <2>3. p \notin TlsfEnds /\ p < TwoLevel!Sentinel(p) /\ TwoLevel!Sentinel(p) \in TlsfEnds
    BY <2>2, TlsfConsts DEF TlsfEnds, TwoLevel!Sentinel
  <2> QED BY <2>1, <2>3
<1>5. \A b \in TlsfHeads(S) : \E p \in Q : p <= b /\ b <= TwoLevel!Sentinel(p)
  BY DEF TlsfTiled
<1> QED BY <1>0, <1>1, <1>2, <1>3, <1>4, <1>5

\* Every block lies in a pool, and the next one too.
LEMMA TlsfInPool ==
  ASSUME NEW S, NEW Q, TlsfTiled(S, Q), NEW b \in TlsfHeads(S) \ TlsfEnds
  PROVE  /\ \E p \in Q : /\ p <= b /\ b < TwoLevel!Sentinel(p) /\ TlsfNx(S, b) <= TwoLevel!Sentinel(p)
                         /\ p \in {0, Split} /\ TwoLevel!Sentinel(p) \in Nat
         /\ S[b] < TwoLevel!block_size_max
<1>1. /\ b \in Nat /\ S[b] \in Nat /\ TlsfNx(S, b) \in Nat
      /\ \A c \in TlsfHeads(S) : b < c => TlsfNx(S, b) <= c
  BY TlsfTiledIs DEF TlsfLies
<1>2. PICK p \in Q : p <= b /\ b <= TwoLevel!Sentinel(p)
  BY TlsfTiledIs
<1>3. p \in {0, Split} /\ TwoLevel!Sentinel(p) \in TlsfHeads(S) /\ TwoLevel!Sentinel(p) \in TlsfEnds /\ TwoLevel!Sentinel(p) \in Nat
  BY TlsfTiledIs DEF TwoLevel!Pool
<1>4. b # TwoLevel!Sentinel(p)
  BY <1>3
<1>5. b < TwoLevel!Sentinel(p)
  BY <1>1, <1>2, <1>3, <1>4
<1>6. TlsfNx(S, b) <= TwoLevel!Sentinel(p)
  BY <1>1, <1>3, <1>5
<1>7. S[b] < TwoLevel!block_size_max
  <2>1. TwoLevel!Sentinel(p) - p - 1 < TwoLevel!block_size_max
    BY <1>3, TlsfConsts DEF TwoLevel!Sentinel
  <2>2. p \in Nat /\ TwoLevel!Sentinel(p) - p - 1 >= S[b]
    BY <1>1, <1>2, <1>3, <1>6, TlsfConsts DEF TlsfNx
  <2> QED BY <1>1, <1>3, <2>1, <2>2, TlsfConsts
<1> QED BY <1>2, <1>3, <1>5, <1>6, <1>7

\* No two blocks are followed by the same one.
LEMMA TlsfNextOnce ==
  ASSUME NEW S, NEW Q, TlsfTiled(S, Q), NEW b \in TlsfHeads(S) \ TlsfEnds, NEW c \in TlsfHeads(S) \ TlsfEnds, b # c
  PROVE  TlsfNx(S, b) # TlsfNx(S, c)
<1>1. /\ b \in Nat /\ c \in Nat /\ b < TlsfNx(S, b) /\ c < TlsfNx(S, c)
      /\ TlsfNx(S, b) \in Nat /\ TlsfNx(S, c) \in Nat
      /\ (b < c => TlsfNx(S, b) <= c) /\ (c < b => TlsfNx(S, c) <= b)
  BY TlsfTiledIs DEF TlsfLies
<1> QED BY <1>1

\* The first block of a pool follows none.
LEMMA TlsfPoolFollowsNone ==
  ASSUME NEW S, NEW Q, TlsfTiled(S, Q), NEW b \in TlsfHeads(S) \ TlsfEnds, NEW p \in TwoLevel!Pool
  PROVE  TlsfNx(S, b) # p
<1>1. PICK q \in Q : /\ q <= b /\ b < TwoLevel!Sentinel(q) /\ TlsfNx(S, b) <= TwoLevel!Sentinel(q)
                     /\ q \in {0, Split} /\ TwoLevel!Sentinel(q) \in Nat
  BY TlsfInPool
<1>2. b \in Nat /\ TlsfNx(S, b) \in Nat /\ b < TlsfNx(S, b)
  BY TlsfTiledIs
<1>3. p \in {0, Split}
  BY DEF TwoLevel!Pool
<1> QED BY <1>1, <1>2, <1>3, TlsfConsts DEF TwoLevel!Sentinel

\* T is S with block b split behind n units, r being the second part.
TlsfCutAt(S, T, b, n, r) ==
  /\ b \in TlsfHeads(S) \ TlsfEnds /\ n \in Nat /\ n >= TwoLevel!block_size_min /\ n + TwoLevel!HeaderUnits <= S[b]
  /\ r = b + 1 + n /\ T = [S EXCEPT ![b] = n, ![r] = S[b] - n - 1]

LEMMA TlsfCutIs ==
  ASSUME NEW S, NEW Q, TlsfTiled(S, Q), NEW T, NEW b, NEW n, NEW r, TlsfCutAt(S, T, b, n, r)
  PROVE  /\ TlsfTiled(T, Q) /\ TlsfHeads(T) = TlsfHeads(S) \union {r} /\ r \notin TlsfHeads(S) /\ r \notin TlsfEnds
         /\ r \in Nat /\ r \in TwoLevel!Cell
         /\ TlsfNx(T, b) = r /\ TlsfNx(T, r) = TlsfNx(S, b)
         /\ \A x \in TlsfHeads(S) \ {b} : T[x] = S[x] /\ TlsfNx(T, x) = TlsfNx(S, x)
<1>0. /\ b \in TlsfHeads(S) \ TlsfEnds /\ n \in Nat /\ n >= 3 /\ n + 4 <= S[b]
      /\ r = b + 1 + n /\ T = [S EXCEPT ![b] = n, ![r] = S[b] - n - 1]
  BY DEF TlsfCutAt, TwoLevel!HeaderUnits, TwoLevel!block_size_min
<1>1. /\ b \in Nat /\ S[b] \in Nat /\ TlsfNx(S, b) \in Nat /\ TlsfNx(S, b) \in TlsfHeads(S)
      /\ \A c \in TlsfHeads(S) : b < c => TlsfNx(S, b) <= c
      /\ TlsfNx(S, b) = b + 1 + S[b]
  BY <1>0, TlsfTiledIs DEF TlsfLies, TlsfNx
<1>2. b < r /\ r < TlsfNx(S, b) /\ r \in Nat
  BY <1>0, <1>1
<1>3. r \notin TlsfHeads(S)
  BY <1>1, <1>2, TlsfTiledIs
<1>4. PICK p \in Q : /\ p <= b /\ b < TwoLevel!Sentinel(p) /\ TlsfNx(S, b) <= TwoLevel!Sentinel(p)
                     /\ p \in {0, Split} /\ TwoLevel!Sentinel(p) \in Nat
  BY <1>0, TlsfInPool
<1>5. r < TwoLevel!Sentinel(p) /\ p <= r
  BY <1>1, <1>2, <1>4, TlsfConsts
<1>6. r \notin TlsfEnds /\ r \in TwoLevel!Cell
  BY <1>2, <1>4, <1>5, TlsfConsts DEF TlsfEnds, TwoLevel!Sentinel, TwoLevel!Cell
<1>7. /\ T[b] = n /\ T[r] = S[b] - n - 1 /\ T[r] \in Nat /\ T[r] >= 3
      /\ \A x \in TwoLevel!Cell \ {b, r} : T[x] = S[x]
      /\ T \in [TwoLevel!Cell -> TwoLevel!Cell \union {TwoLevel!None}]
  <2>1. S \in [TwoLevel!Cell -> TwoLevel!Cell \union {TwoLevel!None}] /\ b \in TwoLevel!Cell /\ S[b] \in TwoLevel!Cell /\ r # b
    <3>1. S \in [TwoLevel!Cell -> TwoLevel!Cell \union {TwoLevel!None}] /\ b \in TwoLevel!Cell /\ S[b] # TwoLevel!None
      BY <1>0, TlsfTiledIs DEF TlsfHeads
    <3> QED BY <3>1, <1>2, <1>1
  <2>2. n \in TwoLevel!Cell /\ S[b] - n - 1 \in TwoLevel!Cell /\ S[b] - n - 1 \in Nat
    BY <2>1, <1>0, <1>1, TlsfConsts DEF TwoLevel!Cell
  <2>3. T \in [TwoLevel!Cell -> TwoLevel!Cell \union {TwoLevel!None}]
    BY <1>0, <2>1, <2>2, <1>6
  <2>4. T[b] = n /\ T[r] = S[b] - n - 1 /\ \A x \in TwoLevel!Cell \ {b, r} : T[x] = S[x]
    BY <1>0, <1>6, <2>1
  <2> QED BY <2>2, <2>3, <2>4, <1>0, <1>1
<1>8. TlsfHeads(T) = TlsfHeads(S) \union {r}
  <2>1. n # TwoLevel!None /\ T[r] # TwoLevel!None
    BY <1>0, <1>7 DEF TwoLevel!None
  <2>2. b \in TlsfHeads(S)
    BY <1>0
  <2> QED BY <1>6, <1>7, <2>1, <2>2 DEF TlsfHeads
<1>9. ASSUME NEW x \in TlsfHeads(S) \ {b} PROVE T[x] = S[x] /\ TlsfNx(T, x) = TlsfNx(S, x)
  <2>1. x \in TwoLevel!Cell \ {b, r}
    BY <1>3, TlsfTiledIs
  <2> QED BY <2>1, <1>7 DEF TlsfNx
<1>10. TlsfNx(T, b) = r /\ TlsfNx(T, r) = TlsfNx(S, b)
  BY <1>0, <1>1, <1>7 DEF TlsfNx
<1>11. TlsfTiled(T, Q)
  <2>1. Q \subseteq TwoLevel!Pool
    BY TlsfTiledIs
  <2>2. ASSUME NEW q \in Q
        PROVE  q \in TlsfHeads(T) /\ TwoLevel!Sentinel(q) \in TlsfHeads(T) /\ T[TwoLevel!Sentinel(q)] = 0
    <3>1. q \in TlsfHeads(S) /\ TwoLevel!Sentinel(q) \in TlsfHeads(S) /\ TwoLevel!Sentinel(q) \in TlsfEnds /\ S[TwoLevel!Sentinel(q)] = 0
      BY TlsfTiledIs
    <3> QED BY <3>1, <1>0, <1>8, <1>9
  <2>3. ASSUME NEW x \in TlsfHeads(T) PROVE \E q \in Q : q <= x /\ x <= TwoLevel!Sentinel(q)
    <3>1. CASE x = r
      BY <3>1, <1>4, <1>5, <1>2
    <3>2. CASE x # r
      BY <3>2, <1>8, TlsfTiledIs
    <3> QED BY <3>1, <3>2
  <2>4. ASSUME NEW x \in TlsfHeads(T) \ TlsfEnds PROVE TlsfLies(T, x)
    <3>1. CASE x = r
      <4>1. T[r] >= TwoLevel!block_size_min /\ TlsfNx(T, r) \in TlsfHeads(T)
        BY <1>1, <1>7, <1>8, <1>10 DEF TwoLevel!block_size_min
      <4>2. ASSUME NEW c \in TlsfHeads(T), r < c PROVE TlsfNx(T, r) <= c
        <5>1. c \in TlsfHeads(S) /\ c \in Nat
          BY <1>2, <1>8, <4>2, TlsfTiledIs
        <5> QED BY <5>1, <1>1, <1>2, <1>10, <4>2
      <4> QED BY <4>1, <4>2, <3>1 DEF TlsfLies
    <3>2. CASE x = b
      <4>1. T[b] >= TwoLevel!block_size_min /\ TlsfNx(T, b) \in TlsfHeads(T)
        BY <1>0, <1>7, <1>8, <1>10 DEF TwoLevel!block_size_min
      <4>2. ASSUME NEW c \in TlsfHeads(T), b < c PROVE TlsfNx(T, b) <= c
        <5>1. CASE c = r
          BY <5>1, <1>10, <1>2
        <5>2. CASE c # r
          <6>1. c \in TlsfHeads(S) /\ c \in Nat
            BY <5>2, <1>8, TlsfTiledIs
          <6> QED BY <6>1, <1>1, <1>2, <1>10, <4>2
        <5> QED BY <5>1, <5>2
      <4> QED BY <4>1, <4>2, <3>2 DEF TlsfLies
    <3>3. CASE x # r /\ x # b
      <4>1. x \in TlsfHeads(S) \ TlsfEnds /\ x \in Nat
        BY <3>3, <1>8, TlsfTiledIs
      <4>2. S[x] >= TwoLevel!block_size_min /\ TlsfNx(S, x) \in TlsfHeads(S) /\ TlsfNx(S, x) \in Nat
            /\ \A c \in TlsfHeads(S) : x < c => TlsfNx(S, x) <= c
        BY <4>1, TlsfTiledIs DEF TlsfLies
      <4>3. T[x] = S[x] /\ TlsfNx(T, x) = TlsfNx(S, x)
        BY <4>1, <3>3, <1>9
      <4>4. ASSUME NEW c \in TlsfHeads(T), x < c PROVE TlsfNx(S, x) <= c
        <5>1. CASE c = r
          <6>1. x < b
            <7>1. b < x => TlsfNx(S, b) <= x
              BY <4>1, <1>1
            <7> QED BY <7>1, <4>1, <3>3, <1>1, <1>2, <4>4, <5>1
          <6>2. TlsfNx(S, x) <= b
            BY <6>1, <4>2, <1>0
          <6> QED BY <6>2, <5>1, <1>1, <1>2, <4>2
        <5>2. CASE c # r
          BY <5>2, <4>2, <4>4, <1>8
        <5> QED BY <5>1, <5>2
      <4> QED BY <4>2, <4>3, <4>4, <1>8 DEF TlsfLies
    <3> QED BY <3>1, <3>2, <3>3
  <2> HIDE DEF TlsfCutAt
  <2> QED BY <1>7, <2>1, <2>2, <2>3, <2>4 DEF TlsfTiled
<1> QED BY <1>2, <1>3, <1>6, <1>8, <1>9, <1>10, <1>11

\* T is S with the block b, which p is followed by, joined to p.
TlsfJoinAt(S, T, p, b) ==
  /\ p \in TlsfHeads(S) \ TlsfEnds /\ b \in TlsfHeads(S) \ TlsfEnds /\ b = TlsfNx(S, p)
  /\ T = [S EXCEPT ![p] = S[p] + S[b] + 1, ![b] = TwoLevel!None]

LEMMA TlsfJoinIs ==
  ASSUME NEW S, NEW Q, TlsfTiled(S, Q), NEW T, NEW p, NEW b, TlsfJoinAt(S, T, p, b)
  PROVE  /\ TlsfTiled(T, Q) /\ TlsfHeads(T) = TlsfHeads(S) \ {b} /\ b # p /\ p \in TlsfHeads(T)
         /\ TlsfNx(T, p) = TlsfNx(S, b)
         /\ \A x \in TlsfHeads(S) \ {b, p} : T[x] = S[x] /\ TlsfNx(T, x) = TlsfNx(S, x)
<1>0. /\ p \in TlsfHeads(S) \ TlsfEnds /\ b \in TlsfHeads(S) \ TlsfEnds /\ b = TlsfNx(S, p)
      /\ T = [S EXCEPT ![p] = S[p] + S[b] + 1, ![b] = TwoLevel!None]
  BY DEF TlsfJoinAt
<1>1. /\ p \in Nat /\ b \in Nat /\ p < b /\ S[p] \in Nat /\ S[b] \in Nat
      /\ S[p] >= 3 /\ S[b] >= 3
      /\ TlsfNx(S, b) \in Nat /\ TlsfNx(S, b) \in TlsfHeads(S) /\ b < TlsfNx(S, b)
      /\ \A c \in TlsfHeads(S) : b < c => TlsfNx(S, b) <= c
      /\ \A c \in TlsfHeads(S) : p < c => b <= c
      /\ TlsfNx(S, b) = b + 1 + S[b] /\ b = p + 1 + S[p]
  <2>1. TlsfLies(S, p) /\ TlsfLies(S, b) /\ p \in Nat /\ b \in Nat /\ p < b /\ S[p] \in Nat /\ S[b] \in Nat
        /\ b < TlsfNx(S, b) /\ TlsfNx(S, b) \in Nat
    BY <1>0, TlsfTiledIs
  <2> QED BY <2>1, <1>0 DEF TlsfLies, TlsfNx, TwoLevel!block_size_min
<1>2. S \in [TwoLevel!Cell -> TwoLevel!Cell \union {TwoLevel!None}] /\ p \in TwoLevel!Cell /\ b \in TwoLevel!Cell /\ p # b
      /\ TlsfNx(S, b) \in TwoLevel!Cell
  BY <1>0, <1>1, TlsfTiledIs
<1>3. /\ T[p] = S[p] + S[b] + 1 /\ T[b] = TwoLevel!None /\ \A x \in TwoLevel!Cell \ {p, b} : T[x] = S[x]
      /\ T \in [TwoLevel!Cell -> TwoLevel!Cell \union {TwoLevel!None}] /\ T[p] \in Nat
  <2>1. S[p] + S[b] + 1 \in TwoLevel!Cell
    <3>1. TlsfCells \in Nat /\ TlsfNx(S, b) \in 0 .. TlsfCells - 1
      BY <1>2, TlsfConsts DEF TwoLevel!Cell
    <3>2. S[p] + S[b] + 1 \in Nat /\ S[p] + S[b] + 1 <= TlsfNx(S, b)
      BY ONLY <1>1, SMTT(20)
    <3> QED BY ONLY <3>1, <3>2, SMTT(20) DEF TwoLevel!Cell
  <2>2. T \in [TwoLevel!Cell -> TwoLevel!Cell \union {TwoLevel!None}]
    BY <1>0, <1>2, <2>1
  <2> QED BY <1>0, <1>1, <1>2, <2>2
<1>4. TlsfHeads(T) = TlsfHeads(S) \ {b}
  <2>1. T[p] # TwoLevel!None
    BY <1>3 DEF TwoLevel!None
  <2>2. p \in TlsfHeads(S) /\ TlsfHeads(S) \subseteq TwoLevel!Cell
    BY <1>0, TlsfTiledIs
  <2> QED BY <1>3, <2>1, <2>2 DEF TlsfHeads
<1>5. TlsfNx(T, p) = TlsfNx(S, b)
  BY <1>1, <1>3 DEF TlsfNx
<1>6. ASSUME NEW x \in TlsfHeads(S) \ {b, p} PROVE T[x] = S[x] /\ TlsfNx(T, x) = TlsfNx(S, x)
  <2>1. x \in TwoLevel!Cell \ {p, b}
    BY TlsfTiledIs
  <2> QED BY <2>1, <1>3 DEF TlsfNx
<1>7. TlsfTiled(T, Q)
  <2>1. Q \subseteq TwoLevel!Pool
    BY TlsfTiledIs
  <2>2. ASSUME NEW q \in Q
        PROVE  q \in TlsfHeads(T) /\ TwoLevel!Sentinel(q) \in TlsfHeads(T) /\ T[TwoLevel!Sentinel(q)] = 0
    <3>1. q \in TlsfHeads(S) /\ TwoLevel!Sentinel(q) \in TlsfHeads(S) /\ TwoLevel!Sentinel(q) \in TlsfEnds /\ S[TwoLevel!Sentinel(q)] = 0
      BY TlsfTiledIs
    <3>2. q # b
      BY <1>0, <2>1, TlsfPoolFollowsNone
    <3> QED BY <3>1, <3>2, <1>0, <1>4, <1>6
  <2>3. ASSUME NEW x \in TlsfHeads(T) PROVE \E q \in Q : q <= x /\ x <= TwoLevel!Sentinel(q)
    BY <1>4, TlsfTiledIs
  <2>4. ASSUME NEW x \in TlsfHeads(T) \ TlsfEnds PROVE TlsfLies(T, x)
    <3>1. CASE x = p
      <4>1. T[p] >= TwoLevel!block_size_min /\ TlsfNx(T, p) \in TlsfHeads(T)
        BY <1>1, <1>3, <1>4, <1>5 DEF TwoLevel!block_size_min
      <4>2. ASSUME NEW c \in TlsfHeads(T), p < c PROVE TlsfNx(T, p) <= c
        <5>1. c \in TlsfHeads(S) /\ c # b /\ c \in Nat
          BY <1>4, TlsfTiledIs
        <5>2. b < c
          BY <5>1, <1>1, <4>2
        <5> QED BY <5>1, <5>2, <1>1, <1>5
      <4> QED BY <4>1, <4>2, <3>1 DEF TlsfLies
    <3>2. CASE x # p
      <4>1. x \in TlsfHeads(S) \ TlsfEnds /\ x # b
        BY <1>4
      <4>2. S[x] >= TwoLevel!block_size_min /\ TlsfNx(S, x) \in TlsfHeads(S)
            /\ \A c \in TlsfHeads(S) : x < c => TlsfNx(S, x) <= c
        BY <4>1, TlsfTiledIs DEF TlsfLies
      <4>3. T[x] = S[x] /\ TlsfNx(T, x) = TlsfNx(S, x)
        BY <4>1, <3>2, <1>6
      <4>4. TlsfNx(S, x) # b
        BY <4>1, <3>2, <1>0, TlsfNextOnce
      <4> QED BY <4>2, <4>3, <4>4, <1>4 DEF TlsfLies
    <3> QED BY <3>1, <3>2
  <2> QED BY <1>3, <2>1, <2>2, <2>3, <2>4 DEF TlsfTiled
<1> QED BY <1>0, <1>2, <1>4, <1>5, <1>6, <1>7
-----------------------------------------------------------------------------
(* Who is known to be free. *)

LEMMA TlsfNextInCell ==
  ASSUME NEW S, NEW Q, TlsfTiled(S, Q), NEW b \in TlsfHeads(S) \ TlsfEnds
  PROVE  TlsfNx(S, b) \in TwoLevel!Cell /\ b \in TwoLevel!Cell
BY TlsfTiledIs DEF TlsfLies

LEMMA TlsfMarkedMore ==
  ASSUME NEW S, NEW Q, TlsfTiled(S, Q), NEW prev, NEW pf, NEW P, TlsfMarked(prev, pf, S, P),
         NEW b \in TlsfHeads(S) \ TlsfEnds
  PROVE  /\ TlsfMarked([prev EXCEPT ![TlsfNx(S, b)] = b], pf \union {TlsfNx(S, b)}, S, P \union {b})
         /\ b \in P => TlsfMarked([prev EXCEPT ![TlsfNx(S, b)] = b], pf, S, P)
<1> DEFINE e == TlsfNx(S, b)
           pv == [prev EXCEPT ![e] = b]
<1>1. /\ P \subseteq TlsfHeads(S) \ TlsfEnds /\ prev \in [TwoLevel!Cell -> TwoLevel!Cell \union {TwoLevel!None}]
      /\ pf = {TlsfNx(S, x) : x \in P} /\ \A x \in P : prev[TlsfNx(S, x)] = x
  BY DEF TlsfMarked
<1>2. e \in TwoLevel!Cell /\ b \in TwoLevel!Cell
  BY TlsfNextInCell
<1>3. pv \in [TwoLevel!Cell -> TwoLevel!Cell \union {TwoLevel!None}] /\ pv[e] = b /\ \A x \in TwoLevel!Cell \ {e} : pv[x] = prev[x]
  BY <1>1, <1>2
<1>4. ASSUME NEW x \in P \union {b} PROVE pv[TlsfNx(S, x)] = x
  <2>1. CASE x = b
    BY <1>3, <2>1
  <2>2. CASE x # b
    <3>1. x \in TlsfHeads(S) \ TlsfEnds /\ TlsfNx(S, x) \in TwoLevel!Cell /\ TlsfNx(S, x) # e
      BY <1>1, <2>2, TlsfNextInCell, TlsfNextOnce
    <3> QED BY <3>1, <1>1, <1>3, <2>2
  <2> QED BY <2>1, <2>2
<1>5. pf \union {e} = {TlsfNx(S, x) : x \in P \union {b}}
  BY <1>1
<1>6. P \union {b} \subseteq TlsfHeads(S) \ TlsfEnds
  BY <1>1
<1> HIDE DEF pv
<1>7. TlsfMarked(pv, pf \union {e}, S, P \union {b})
  BY <1>3, <1>4, <1>5, <1>6 DEF TlsfMarked
<1>8. b \in P => TlsfMarked(pv, pf, S, P)
  BY <1>1, <1>3, <1>4 DEF TlsfMarked
<1> QED BY <1>7, <1>8 DEF pv

LEMMA TlsfMarkedLess ==
  ASSUME NEW S, NEW Q, TlsfTiled(S, Q), NEW prev, NEW pf, NEW P, TlsfMarked(prev, pf, S, P),
         NEW b \in TlsfHeads(S) \ TlsfEnds
  PROVE  TlsfMarked(prev, pf \ {TlsfNx(S, b)}, S, P \ {b})
<1>1. /\ P \subseteq TlsfHeads(S) \ TlsfEnds /\ prev \in [TwoLevel!Cell -> TwoLevel!Cell \union {TwoLevel!None}]
      /\ pf = {TlsfNx(S, x) : x \in P} /\ \A x \in P : prev[TlsfNx(S, x)] = x
  BY DEF TlsfMarked
<1>2. \A x \in P \ {b} : TlsfNx(S, x) # TlsfNx(S, b)
  BY <1>1, TlsfNextOnce
<1>3. pf \ {TlsfNx(S, b)} = {TlsfNx(S, x) : x \in P \ {b}}
  BY <1>1, <1>2
<1> QED BY <1>1, <1>3 DEF TlsfMarked

LEMMA TlsfMarkedCut ==
  ASSUME NEW S, NEW Q, TlsfTiled(S, Q), NEW prev, NEW pf, NEW P, TlsfMarked(prev, pf, S, P),
         NEW T, NEW b, NEW n, NEW r, TlsfCutAt(S, T, b, n, r)
  PROVE  TlsfMarked([prev EXCEPT ![TlsfNx(T, r)] = r], pf \union {TlsfNx(T, r)}, T, (P \ {b}) \union {r})
<1> DEFINE e == TlsfNx(T, r)
           pv == [prev EXCEPT ![e] = r]
<1>1. /\ P \subseteq TlsfHeads(S) \ TlsfEnds /\ prev \in [TwoLevel!Cell -> TwoLevel!Cell \union {TwoLevel!None}]
      /\ pf = {TlsfNx(S, x) : x \in P} /\ \A x \in P : prev[TlsfNx(S, x)] = x
  BY DEF TlsfMarked
<1>2. /\ TlsfTiled(T, Q) /\ TlsfHeads(T) = TlsfHeads(S) \union {r} /\ r \notin TlsfHeads(S) /\ r \notin TlsfEnds
      /\ r \in TwoLevel!Cell /\ e = TlsfNx(S, b)
      /\ \A x \in TlsfHeads(S) \ {b} : TlsfNx(T, x) = TlsfNx(S, x)
  BY TlsfCutIs
<1>3. b \in TlsfHeads(S) \ TlsfEnds
  BY DEF TlsfCutAt
<1>4. e \in TwoLevel!Cell /\ \A x \in P \ {b} : TlsfNx(S, x) \in TwoLevel!Cell /\ TlsfNx(S, x) # e
  BY <1>1, <1>2, <1>3, TlsfNextInCell, TlsfNextOnce
<1>5. pv \in [TwoLevel!Cell -> TwoLevel!Cell \union {TwoLevel!None}] /\ pv[e] = r /\ \A x \in TwoLevel!Cell \ {e} : pv[x] = prev[x]
  BY <1>1, <1>2, <1>4
<1>6. ASSUME NEW x \in (P \ {b}) \union {r} PROVE pv[TlsfNx(T, x)] = x
  <2>1. CASE x = r
    BY <1>5, <2>1
  <2>2. CASE x # r
    <3>1. x \in P \ {b} /\ x \in TlsfHeads(S) \ {b} /\ TlsfNx(T, x) = TlsfNx(S, x)
      BY <1>1, <1>2, <2>2
    <3> QED BY <3>1, <1>1, <1>4, <1>5
  <2> QED BY <2>1, <2>2
<1>7. pf \union {e} = {TlsfNx(T, x) : x \in (P \ {b}) \union {r}}
  <2>1. \A x \in P \ {b} : TlsfNx(T, x) = TlsfNx(S, x)
    BY <1>1, <1>2
  <2>2. pf \union {e} = {TlsfNx(S, x) : x \in P \ {b}} \union {e}
    BY <1>1, <1>2
  <2>3. {TlsfNx(T, x) : x \in (P \ {b}) \union {r}} = {TlsfNx(T, x) : x \in P \ {b}} \union {e}
    OBVIOUS
  <2>4. {TlsfNx(T, x) : x \in P \ {b}} = {TlsfNx(S, x) : x \in P \ {b}}
    BY <2>1
  <2> QED BY <2>2, <2>3, <2>4
<1>8. (P \ {b}) \union {r} \subseteq TlsfHeads(T) \ TlsfEnds
  BY <1>1, <1>2
<1> HIDE DEF pv
<1>9. TlsfMarked(pv, pf \union {e}, T, (P \ {b}) \union {r})
  BY <1>5, <1>6, <1>7, <1>8 DEF TlsfMarked
<1> QED BY <1>9 DEF pv

LEMMA TlsfMarkedJoin ==
  ASSUME NEW S, NEW Q, TlsfTiled(S, Q), NEW prev, NEW pf, NEW P, TlsfMarked(prev, pf, S, P),
         NEW T, NEW p, NEW b, TlsfJoinAt(S, T, p, b), b \in P,
         NEW pv, pv = [[prev EXCEPT ![b] = TwoLevel!None] EXCEPT ![TlsfNx(T, p)] = p]
  PROVE  TlsfMarked(pv, pf \ {b}, T, (P \ {b}) \union {p})
<1> DEFINE e == TlsfNx(T, p)
<1>1. /\ P \subseteq TlsfHeads(S) \ TlsfEnds /\ prev \in [TwoLevel!Cell -> TwoLevel!Cell \union {TwoLevel!None}]
      /\ pf = {TlsfNx(S, x) : x \in P} /\ \A x \in P : prev[TlsfNx(S, x)] = x
  BY DEF TlsfMarked
<1>2. /\ TlsfTiled(T, Q) /\ TlsfHeads(T) = TlsfHeads(S) \ {b} /\ b # p
      /\ e = TlsfNx(S, b)
      /\ \A x \in TlsfHeads(S) \ {b, p} : TlsfNx(T, x) = TlsfNx(S, x)
  BY TlsfJoinIs
<1>3. p \in TlsfHeads(S) \ TlsfEnds /\ b \in TlsfHeads(S) \ TlsfEnds /\ b = TlsfNx(S, p)
  BY DEF TlsfJoinAt
<1>4. /\ e \in TwoLevel!Cell /\ b \in TwoLevel!Cell /\ p \in TwoLevel!Cell /\ e # b
      /\ \A x \in P \ {b, p} : TlsfNx(S, x) \in TwoLevel!Cell /\ TlsfNx(S, x) # e /\ TlsfNx(S, x) # b
  BY <1>1, <1>2, <1>3, TlsfNextInCell, TlsfNextOnce
<1>5. /\ pv \in [TwoLevel!Cell -> TwoLevel!Cell \union {TwoLevel!None}] /\ pv[e] = p
      /\ \A x \in TwoLevel!Cell \ {e, b} : pv[x] = prev[x]
  <2> DEFINE pw == [prev EXCEPT ![b] = TwoLevel!None]
  <2>1. pw \in [TwoLevel!Cell -> TwoLevel!Cell \union {TwoLevel!None}] /\ \A x \in TwoLevel!Cell \ {b} : pw[x] = prev[x]
    BY <1>1, <1>4
  <2>2. pv = [pw EXCEPT ![e] = p]
    OBVIOUS
  <2> HIDE DEF pw, e
  <2> QED BY <2>1, <2>2, <1>4
<1>6. ASSUME NEW x \in (P \ {b}) \union {p} PROVE pv[TlsfNx(T, x)] = x
  <2>1. CASE x = p
    BY <1>5, <2>1
  <2>2. CASE x # p
    <3>1. x \in P \ {b, p} /\ x \in TlsfHeads(S) \ {b, p} /\ TlsfNx(T, x) = TlsfNx(S, x)
      BY <1>1, <1>2, <2>2
    <3> QED BY <3>1, <1>1, <1>4, <1>5
  <2> QED BY <2>1, <2>2
<1>7. pf \ {b} = {TlsfNx(T, x) : x \in (P \ {b}) \union {p}}
  <2>1. \A x \in P \ {b, p} : TlsfNx(T, x) = TlsfNx(S, x) /\ TlsfNx(S, x) # b
    BY <1>1, <1>2, <1>4
  <2>2. pf \ {b} = {TlsfNx(S, x) : x \in P \ {b, p}} \union {e}
    BY <1>1, <1>2, <1>3, <1>4
  <2>3. {TlsfNx(T, x) : x \in (P \ {b}) \union {p}} = {TlsfNx(T, x) : x \in P \ {b, p}} \union {e}
    OBVIOUS
  <2>4. {TlsfNx(T, x) : x \in P \ {b, p}} = {TlsfNx(S, x) : x \in P \ {b, p}}
    BY <2>1
  <2> QED BY <2>2, <2>3, <2>4
<1>8. (P \ {b}) \union {p} \subseteq TlsfHeads(T) \ TlsfEnds
  BY <1>1, <1>2, <1>3
<1> QED BY <1>5, <1>6, <1>7, <1>8 DEF TlsfMarked

-----------------------------------------------------------------------------
(* The lists. *)

LEMMA TlsfListedIs ==
  ASSUME NEW S, NEW lists, NEW sl, NEW fl, NEW X, TlsfListed(lists, sl, fl, S, X), NEW c \in TwoLevel!ClassIndex
  PROVE  /\ X \subseteq TlsfHeads(S) \ TlsfEnds
         /\ lists \in [TwoLevel!ClassIndex -> Seq(TwoLevel!Cell)] /\ lists[c] \in Seq(TwoLevel!Cell)
         /\ c \in sl <=> lists[c] # <<>>
         /\ \A i, j \in DOMAIN lists[c] : lists[c][i] = lists[c][j] => i = j
         /\ \A i \in DOMAIN lists[c] : lists[c][i] \in X /\ TwoLevel!Class(S[lists[c][i]]) = c
         /\ \A b \in X : TwoLevel!Class(S[b]) = c => \E i \in DOMAIN lists[c] : lists[c][i] = b
<1>1. /\ X \subseteq TlsfHeads(S) \ TlsfEnds /\ lists \in [TwoLevel!ClassIndex -> Seq(TwoLevel!Cell)]
      /\ c \in sl <=> lists[c] # <<>>
      /\ TwoLevel!IsInjective(lists[c]) /\ TwoLevel!Range(lists[c]) = {b \in X : TwoLevel!Class(S[b]) = c}
  BY DEF TlsfListed
<1>2. \A i, j \in DOMAIN lists[c] : lists[c][i] = lists[c][j] => i = j
  BY <1>1 DEF TwoLevel!IsInjective
<1>3. \A i \in DOMAIN lists[c] : lists[c][i] \in X /\ TwoLevel!Class(S[lists[c][i]]) = c
  BY <1>1 DEF TwoLevel!Range
<1>4. \A b \in X : TwoLevel!Class(S[b]) = c => \E i \in DOMAIN lists[c] : lists[c][i] = b
  BY <1>1 DEF TwoLevel!Range
<1> QED BY <1>1, <1>2, <1>3, <1>4

\* The head of a list that the bitmap has.
LEMMA TlsfHeadIs ==
  ASSUME NEW S, NEW lists, NEW sl, NEW fl, NEW X, TlsfListed(lists, sl, fl, S, X), NEW c \in sl
  PROVE  Head(lists[c]) \in X /\ TwoLevel!Class(S[Head(lists[c])]) = c /\ c \in TwoLevel!ClassIndex
<1>1. c \in TwoLevel!ClassIndex
  BY DEF TlsfListed
<1>2. lists[c] \in Seq(TwoLevel!Cell) /\ lists[c] # <<>>
  BY <1>1, TlsfListedIs
<1>3. 1 \in DOMAIN lists[c] /\ Head(lists[c]) = lists[c][1]
  BY <1>2
<1> QED BY <1>1, <1>3, TlsfListedIs

LEMMA TlsfListedSame ==
  ASSUME NEW S, NEW T, NEW lists, NEW sl, NEW fl, NEW X, TlsfListed(lists, sl, fl, S, X),
         X \subseteq TlsfHeads(T), \A x \in X : T[x] = S[x]
  PROVE  TlsfListed(lists, sl, fl, T, X)
<1>1. ASSUME NEW c \in TwoLevel!ClassIndex
      PROVE  {b \in X : TwoLevel!Class(S[b]) = c} = {b \in X : TwoLevel!Class(T[b]) = c}
  OBVIOUS
<1> QED BY <1>1 DEF TlsfListed

\* t is s with b in front.
LEMMA TlsfPrepended ==
  ASSUME NEW s \in Seq(TwoLevel!Cell), NEW b \in TwoLevel!Cell,
         \A i, j \in DOMAIN s : s[i] = s[j] => i = j, b \notin TwoLevel!Range(s)
  PROVE  /\ <<b>> \o s \in Seq(TwoLevel!Cell) /\ <<b>> \o s # <<>> /\ TwoLevel!IsInjective(<<b>> \o s)
         /\ TwoLevel!Range(<<b>> \o s) = TwoLevel!Range(s) \union {b}
<1> DEFINE t == <<b>> \o s
           n == Len(s)
<1>1. /\ n \in Nat /\ DOMAIN s = 1 .. n /\ t \in Seq(TwoLevel!Cell) /\ Len(t) = n + 1 /\ DOMAIN t = 1 .. n + 1
      /\ t[1] = b
  OBVIOUS
<1>2. ASSUME NEW i \in 1 .. n + 1, i # 1 PROVE i - 1 \in 1 .. n /\ t[i] = s[i - 1]
  <2>1. i - 1 \in 1 .. n
    BY <1>1, <1>2
  <2> QED BY <2>1, <1>1, <1>2
<1>3. t # <<>>
  BY <1>1
<1> HIDE DEF t, n
<1>4. \A i \in 1 .. n : s[i] # b
  BY <1>1 DEF TwoLevel!Range
<1>5. TwoLevel!IsInjective(t)
  <2>1. ASSUME NEW i \in 1 .. n + 1, NEW j \in 1 .. n + 1, t[i] = t[j] PROVE i = j
    <3>1. CASE i = 1 /\ j = 1
      BY <3>1
    <3>2. CASE i = 1 /\ j # 1
      BY <3>2, <2>1, <1>1, <1>2, <1>4
    <3>3. CASE i # 1 /\ j = 1
      BY <3>3, <2>1, <1>1, <1>2, <1>4
    <3>4. CASE i # 1 /\ j # 1
      <4>1. i - 1 \in 1 .. n /\ j - 1 \in 1 .. n /\ s[i - 1] = s[j - 1]
        BY <3>4, <2>1, <1>2
      <4>2. i - 1 = j - 1
        BY <4>1, <1>1
      <4> QED BY <4>2
    <3> QED BY <3>1, <3>2, <3>3, <3>4
  <2> QED BY <2>1, <1>1 DEF TwoLevel!IsInjective
<1>6. TwoLevel!Range(t) = TwoLevel!Range(s) \union {b}
  <2>1. ASSUME NEW i \in 1 .. n + 1 PROVE t[i] \in TwoLevel!Range(s) \union {b}
    BY <1>1, <1>2 DEF TwoLevel!Range
  <2>2. ASSUME NEW x \in TwoLevel!Range(s) \union {b} PROVE \E i \in 1 .. n + 1 : t[i] = x
    <3>1. CASE x = b
      <4>1. 1 \in 1 .. n + 1
        BY <1>1
      <4> QED BY <4>1, <3>1, <1>1
    <3>2. CASE x # b
      <4>1. PICK i \in 1 .. n : s[i] = x
        BY <3>2, <1>1 DEF TwoLevel!Range
      <4>2. i + 1 \in 1 .. n + 1 /\ i + 1 # 1 /\ (i + 1) - 1 = i
        BY <1>1
      <4> QED BY <4>1, <4>2, <1>2
    <3> QED BY <3>1, <3>2
  <2>3. TwoLevel!Range(t) = {t[i] : i \in 1 .. n + 1}
    BY <1>1 DEF TwoLevel!Range
  <2> QED BY <2>1, <2>2, <2>3
<1> QED BY <1>1, <1>3, <1>5, <1>6 DEF t

LEMMA TlsfDroppedIs ==
  ASSUME NEW s \in Seq(TwoLevel!Cell), NEW k \in DOMAIN s,
         \A i, j \in DOMAIN s : s[i] = s[j] => i = j
  PROVE  /\ TlsfDropped(s, k) \in Seq(TwoLevel!Cell) /\ TwoLevel!IsInjective(TlsfDropped(s, k))
         /\ TwoLevel!Range(TlsfDropped(s, k)) = TwoLevel!Range(s) \ {s[k]}
<1> DEFINE u == SubSeq(s, 1, k - 1)
           v == SubSeq(s, k + 1, Len(s))
           t == u \o v
           n == Len(s)
<1>0. n \in Nat /\ DOMAIN s = 1 .. n /\ k \in 1 .. n /\ \A i \in 1 .. n : s[i] \in TwoLevel!Cell
  OBVIOUS
<1>1. TlsfDropped(s, k) = t
  BY DEF TlsfDropped
<1>2. u \in Seq(TwoLevel!Cell) /\ Len(u) = k - 1 /\ \A i \in 1 .. k - 1 : u[i] = s[i]
  OBVIOUS
<1>3. v \in Seq(TwoLevel!Cell) /\ Len(v) = n - k /\ \A i \in 1 .. n - k : v[i] = s[i + k]
  OBVIOUS
<1> HIDE DEF u, v, n
<1>4. t \in Seq(TwoLevel!Cell) /\ Len(t) = n - 1 /\ DOMAIN t = 1 .. n - 1
  <2>0. u \in Seq(TwoLevel!Cell) /\ v \in Seq(TwoLevel!Cell)
    BY <1>2, <1>3
  <2>1. t \in Seq(TwoLevel!Cell) /\ Len(t) = Len(u) + Len(v)
    BY ONLY <2>0, ConcatProperties
  <2> HIDE DEF t
  <2>2. Len(t) = n - 1
    BY <2>1, <1>0, <1>2, <1>3
  <2> QED BY <2>1, <2>2
<1>5. ASSUME NEW i \in 1 .. n - 1 PROVE t[i] = IF i < k THEN s[i] ELSE s[i + 1]
  <2>1. CASE i < k
    <3>1. i \in 1 .. k - 1 /\ t[i] = u[i]
      BY <2>1, <1>0, <1>2, <1>3
    <3> QED BY <3>1, <2>1, <1>2
  <2>2. CASE ~(i < k)
    <3>1. i - (k - 1) \in 1 .. n - k /\ t[i] = v[i - (k - 1)]
      BY <2>2, <1>0, <1>2, <1>3
    <3>2. (i - (k - 1)) + k = i + 1
      BY <1>0
    <3> QED BY <3>1, <3>2, <2>2, <1>3
  <2> QED BY <2>1, <2>2
<1> HIDE DEF t
<1>6. TwoLevel!IsInjective(t)
  <2>1. ASSUME NEW i \in 1 .. n - 1, NEW j \in 1 .. n - 1, t[i] = t[j] PROVE i = j
    <3> DEFINE a == IF i < k THEN i ELSE i + 1
               b == IF j < k THEN j ELSE j + 1
    <3>1. a \in 1 .. n /\ b \in 1 .. n /\ t[i] = s[a] /\ t[j] = s[b]
      BY <1>0, <1>5
    <3>2. a = b
      <4> HIDE DEF a, b
      <4> QED BY <3>1, <2>1, <1>0
    <3> QED BY <3>2, <1>0
  <2> QED BY <2>1, <1>4 DEF TwoLevel!IsInjective
<1>7. TwoLevel!Range(t) = TwoLevel!Range(s) \ {s[k]}
  <2>1. ASSUME NEW i \in 1 .. n - 1 PROVE t[i] \in TwoLevel!Range(s) \ {s[k]}
    <3> DEFINE a == IF i < k THEN i ELSE i + 1
    <3>1. a \in 1 .. n /\ t[i] = s[a] /\ a # k
      BY <1>0, <1>5
    <3> HIDE DEF a
    <3> QED BY <3>1, <1>0 DEF TwoLevel!Range
  <2>2. ASSUME NEW x \in TwoLevel!Range(s) \ {s[k]} PROVE \E i \in 1 .. n - 1 : t[i] = x
    <3>1. PICK a \in 1 .. n : s[a] = x
      BY <1>0 DEF TwoLevel!Range
    <3>2. a # k
      BY <3>1
    <3>3. CASE a < k
      <4>1. a \in 1 .. n - 1
        BY <3>3, <1>0
      <4> QED BY <4>1, <3>1, <3>3, <1>5
    <3>4. CASE ~(a < k)
      <4>1. a - 1 \in 1 .. n - 1 /\ ~(a - 1 < k) /\ (a - 1) + 1 = a
        BY <3>2, <3>4, <1>0
      <4> QED BY <4>1, <3>1, <1>5
    <3> QED BY <3>3, <3>4
  <2>3. TwoLevel!Range(t) = {t[i] : i \in 1 .. n - 1}
    BY <1>4 DEF TwoLevel!Range
  <2> QED BY <2>1, <2>2, <2>3
<1> QED BY <1>1, <1>4, <1>6, <1>7

LEMMA TlsfListedMore ==
  ASSUME NEW S, NEW Q, TlsfTiled(S, Q), NEW lists, NEW sl, NEW fl, NEW X, TlsfListed(lists, sl, fl, S, X),
         NEW b \in TlsfHeads(S) \ TlsfEnds, b \notin X, NEW c, c = TwoLevel!Class(S[b])
  PROVE  TlsfListed([lists EXCEPT ![c] = <<b>> \o @], sl \union {c}, fl \union {c[1]}, S, X \union {b})
<1> DEFINE l == [lists EXCEPT ![c] = <<b>> \o @]
<1>1. c \in TwoLevel!ClassIndex /\ b \in TwoLevel!Cell
  BY TlsfInPool, TlsfClassIs, TlsfTiledIs
<1>2. /\ X \subseteq TlsfHeads(S) \ TlsfEnds /\ lists \in [TwoLevel!ClassIndex -> Seq(TwoLevel!Cell)] /\ sl \subseteq TwoLevel!ClassIndex
      /\ fl = {d[1] : d \in sl}
  BY DEF TlsfListed
<1>3. /\ lists[c] \in Seq(TwoLevel!Cell) /\ \A i, j \in DOMAIN lists[c] : lists[c][i] = lists[c][j] => i = j
      /\ TwoLevel!Range(lists[c]) = {x \in X : TwoLevel!Class(S[x]) = c}
  <2>1. TwoLevel!Range(lists[c]) = {x \in X : TwoLevel!Class(S[x]) = c}
    BY <1>1 DEF TlsfListed
  <2> QED BY <2>1, <1>1, TlsfListedIs
<1>4. /\ <<b>> \o lists[c] \in Seq(TwoLevel!Cell) /\ <<b>> \o lists[c] # <<>> /\ TwoLevel!IsInjective(<<b>> \o lists[c])
      /\ TwoLevel!Range(<<b>> \o lists[c]) = TwoLevel!Range(lists[c]) \union {b}
  BY <1>1, <1>3, TlsfPrepended
<1>5. l \in [TwoLevel!ClassIndex -> Seq(TwoLevel!Cell)] /\ l[c] = <<b>> \o lists[c]
      /\ \A d \in TwoLevel!ClassIndex \ {c} : l[d] = lists[d]
  BY <1>1, <1>2, <1>4
<1> HIDE DEF l
<1>6. ASSUME NEW d \in TwoLevel!ClassIndex
      PROVE  /\ d \in sl \union {c} <=> l[d] # <<>>
             /\ TwoLevel!IsInjective(l[d])
             /\ TwoLevel!Range(l[d]) = {x \in X \union {b} : TwoLevel!Class(S[x]) = d}
  <2>1. CASE d = c
    BY <2>1, <1>3, <1>4, <1>5
  <2>2. CASE d # c
    <3>1. /\ d \in sl <=> lists[d] # <<>>
          /\ TwoLevel!IsInjective(lists[d]) /\ TwoLevel!Range(lists[d]) = {x \in X : TwoLevel!Class(S[x]) = d}
      BY DEF TlsfListed
    <3> QED BY <3>1, <2>2, <1>5
  <2> QED BY <2>1, <2>2
<1>7. fl \union {c[1]} = {d[1] : d \in sl \union {c}}
  BY <1>2
<1>8. X \union {b} \subseteq TlsfHeads(S) \ TlsfEnds /\ sl \union {c} \subseteq TwoLevel!ClassIndex
  BY <1>1, <1>2
<1>9. TlsfListed(l, sl \union {c}, fl \union {c[1]}, S, X \union {b})
  BY <1>5, <1>6, <1>7, <1>8 DEF TlsfListed
<1> QED BY <1>9 DEF l
\* The lists l and bitmaps s and f are lists, sl and fl without block b of class c.
TlsfWithout(lists, sl, fl, l, s, f, b, c) ==
  \E k \in DOMAIN lists[c] :
    /\ lists[c][k] = b /\ l = [lists EXCEPT ![c] = TlsfDropped(lists[c], k)]
    /\ s = (IF TlsfDropped(lists[c], k) = <<>> THEN sl \ {c} ELSE sl)
    /\ f = (IF \E d \in s : d[1] = c[1] THEN fl ELSE fl \ {c[1]})

LEMMA TlsfListedLess ==
  ASSUME NEW S, NEW Q, TlsfTiled(S, Q), NEW lists, NEW sl, NEW fl, NEW X, TlsfListed(lists, sl, fl, S, X),
         NEW b \in X, NEW l, NEW s, NEW f, TlsfWithout(lists, sl, fl, l, s, f, b, TwoLevel!Class(S[b]))
  PROVE  TlsfListed(l, s, f, S, X \ {b})
<1> DEFINE c == TwoLevel!Class(S[b])
<1>0. PICK k \in DOMAIN lists[c] :
        /\ lists[c][k] = b /\ l = [lists EXCEPT ![c] = TlsfDropped(lists[c], k)]
        /\ s = (IF TlsfDropped(lists[c], k) = <<>> THEN sl \ {c} ELSE sl)
        /\ f = (IF \E d \in s : d[1] = c[1] THEN fl ELSE fl \ {c[1]})
  BY DEF TlsfWithout
<1> DEFINE rest == TlsfDropped(lists[c], k)
<1>1. /\ X \subseteq TlsfHeads(S) \ TlsfEnds /\ lists \in [TwoLevel!ClassIndex -> Seq(TwoLevel!Cell)] /\ sl \subseteq TwoLevel!ClassIndex
      /\ fl = {d[1] : d \in sl}
  BY DEF TlsfListed
<1>2. c \in TwoLevel!ClassIndex
  <2>1. b \in TlsfHeads(S) \ TlsfEnds
    BY <1>1
  <2> QED BY <2>1, TlsfInPool, TlsfClassIs, TlsfTiledIs
<1>3. /\ lists[c] \in Seq(TwoLevel!Cell) /\ \A i, j \in DOMAIN lists[c] : lists[c][i] = lists[c][j] => i = j
      /\ c \in sl <=> lists[c] # <<>>
  BY <1>2, TlsfListedIs
<1>4. TwoLevel!Range(lists[c]) = {x \in X : TwoLevel!Class(S[x]) = c}
  BY <1>2 DEF TlsfListed
<1>6. rest \in Seq(TwoLevel!Cell) /\ TwoLevel!IsInjective(rest) /\ TwoLevel!Range(rest) = TwoLevel!Range(lists[c]) \ {b}
  BY <1>0, <1>3, TlsfDroppedIs
<1>7. l \in [TwoLevel!ClassIndex -> Seq(TwoLevel!Cell)] /\ l[c] = rest /\ \A d \in TwoLevel!ClassIndex \ {c} : l[d] = lists[d]
  <2>1. l = [lists EXCEPT ![c] = rest]
    BY <1>0
  <2> HIDE DEF c, rest
  <2> QED BY <2>1, <1>1, <1>2, <1>6
<1>8. c \in sl
  <2>1. DOMAIN lists[c] # {}
    BY <1>0
  <2> QED BY <2>1, <1>3
<1>9. s \subseteq TwoLevel!ClassIndex /\ (c \in s <=> rest # <<>>) /\ \A d \in TwoLevel!ClassIndex \ {c} : d \in s <=> d \in sl
  <2>1. s = (IF rest = <<>> THEN sl \ {c} ELSE sl)
    BY <1>0
  <2> HIDE DEF c, rest
  <2> QED BY <2>1, <1>1, <1>8
<1>10. f = {d[1] : d \in s}
  <2>0. /\ s = (IF rest = <<>> THEN sl \ {c} ELSE sl)
        /\ f = (IF \E d \in s : d[1] = c[1] THEN fl ELSE fl \ {c[1]})
    BY <1>0
  <2> HIDE DEF c, rest
  <2>1. CASE \E d \in s : d[1] = c[1]
    BY <2>0, <2>1, <1>1, <1>8
  <2>2. CASE ~\E d \in s : d[1] = c[1]
    BY <2>0, <2>2, <1>1, <1>8
  <2> QED BY <2>1, <2>2
<1> HIDE DEF rest, c
<1>11. ASSUME NEW d \in TwoLevel!ClassIndex
       PROVE  /\ d \in s <=> l[d] # <<>>
              /\ TwoLevel!IsInjective(l[d])
              /\ TwoLevel!Range(l[d]) = {x \in X \ {b} : TwoLevel!Class(S[x]) = d}
  <2>1. CASE d = c
    BY <2>1, <1>4, <1>6, <1>7, <1>9
  <2>2. CASE d # c
    <3>1. /\ d \in sl <=> lists[d] # <<>>
          /\ TwoLevel!IsInjective(lists[d]) /\ TwoLevel!Range(lists[d]) = {x \in X : TwoLevel!Class(S[x]) = d}
      BY DEF TlsfListed
    <3>2. TwoLevel!Class(S[b]) # d
      BY <2>2 DEF c
    <3> QED BY <3>1, <3>2, <2>2, <1>7, <1>9
  <2> QED BY <2>1, <2>2
<1>12. X \ {b} \subseteq TlsfHeads(S) \ TlsfEnds
  BY <1>1
<1> QED BY <1>7, <1>9, <1>10, <1>11, <1>12 DEF TlsfListed

-----------------------------------------------------------------------------
(* The steps of the operations. *)

LEMMA TlsfLikeIs ==
  ASSUME NEW m, NEW S, NEW Q, NEW F, NEW P, NEW X, TlsfLike(m, S, Q, F, P, X)
  PROVE  /\ TlsfIsMem(m) /\ m.size = S /\ m.pools = Q /\ m.free = F /\ F \subseteq TlsfHeads(S) \ TlsfEnds
         /\ P \subseteq TlsfHeads(S) \ TlsfEnds /\ X \subseteq TlsfHeads(S) \ TlsfEnds
         /\ TlsfMarked(m.prev, m.prevFree, S, P) /\ TlsfListed(m.lists, m.sl, m.fl, S, X) /\ m.data \in TlsfDatas
<1>1. TlsfMarked(m.prev, m.prevFree, S, P) /\ TlsfListed(m.lists, m.sl, m.fl, S, X)
  BY DEF TlsfLike
<1>2. P \subseteq TlsfHeads(S) \ TlsfEnds /\ X \subseteq TlsfHeads(S) \ TlsfEnds
  BY <1>1 DEF TlsfMarked, TlsfListed
<1> QED BY <1>1, <1>2 DEF TlsfLike

\* Data that is overwritten with Nobody.
LEMMA TlsfDatasBlank ==
  ASSUME NEW d \in TlsfDatas, NEW b
  PROVE  [d EXCEPT ![b] = Nobody] \in TlsfDatas
BY DEF TlsfDatas

LEMMA TlsfLikeUnlisted ==
  ASSUME NEW m, NEW S, NEW Q, NEW F, NEW P, NEW X, TlsfTiled(S, Q), TlsfLike(m, S, Q, F, P, X),
         NEW b \in X, NEW c, c = TwoLevel!Class(S[b])
  PROVE  TlsfLike(TwoLevel!RemoveFrom(m, b, c), S, Q, F, P, X \ {b})
<1> DEFINE j == CHOOSE i \in DOMAIN m.lists[c] : m.lists[c][i] = b
           rest == TlsfDropped(m.lists[c], j)
           s == IF rest = <<>> THEN m.sl \ {c} ELSE m.sl
           l == [m.lists EXCEPT ![c] = rest]
           f == IF \E d \in s : d[1] = c[1] THEN m.fl ELSE m.fl \ {c[1]}
           k == TwoLevel!RemoveFrom(m, b, c)
<1>1. k = [m EXCEPT !.lists[c] = rest, !.sl = s,
                    !.fl = IF \E d \in s : d[1] = c[1] THEN @ ELSE @ \ {c[1]}]
  BY DEF TwoLevel!RemoveFrom, TlsfDropped
<1>2. TlsfListed(m.lists, m.sl, m.fl, S, X) /\ TlsfIsMem(m)
  BY TlsfLikeIs
<1>3. TlsfListed(l, s, f, S, X \ {b})
  <2>0. c \in TwoLevel!ClassIndex
    <3>1. b \in TlsfHeads(S) \ TlsfEnds
      BY TlsfLikeIs
    <3> QED BY <3>1, TlsfInPool, TlsfClassIs, TlsfTiledIs
  <2>1. j \in DOMAIN m.lists[c] /\ m.lists[c][j] = b
    <3>1. \E i \in DOMAIN m.lists[c] : m.lists[c][i] = b
      BY <1>2, <2>0, TlsfListedIs
    <3> QED BY <3>1
  <2>2. TlsfWithout(m.lists, m.sl, m.fl, l, s, f, b, c)
    <3> HIDE DEF j
    <3> QED BY <2>1 DEF TlsfWithout
  <2> HIDE DEF l, s, f
  <2> QED BY <2>2, <1>2, TlsfListedLess
<1>4. /\ TlsfIsMem(k) /\ k.lists = l /\ k.sl = s /\ k.fl = f
      /\ k.pools = m.pools /\ k.size = m.size /\ k.prev = m.prev
      /\ k.free = m.free /\ k.prevFree = m.prevFree /\ k.data = m.data
  <2> HIDE DEF rest, s, k
  <2> QED BY <1>1, <1>2 DEF TlsfIsMem
<1> HIDE DEF k, l, s, f
<1>5. TlsfLike(k, S, Q, F, P, X \ {b})
  BY <1>3, <1>4, TlsfLikeIs DEF TlsfLike
<1> QED BY <1>5 DEF k

LEMMA TlsfLikeEnlisted ==
  ASSUME NEW m, NEW S, NEW Q, NEW F, NEW P, NEW X, TlsfTiled(S, Q), TlsfLike(m, S, Q, F, P, X),
         NEW b \in TlsfHeads(S) \ TlsfEnds, b \notin X
  PROVE  TlsfLike(TwoLevel!Enlist(m, b), S, Q, F, P, X \union {b})
<1> DEFINE c == TwoLevel!Class(S[b])
           l == [m.lists EXCEPT ![c] = <<b>> \o @]
           d == [m.data EXCEPT ![b + 1] = Nobody, ![b + 2] = Nobody]
           k == TwoLevel!Enlist(m, b)
<1>1. TlsfListed(m.lists, m.sl, m.fl, S, X) /\ TlsfIsMem(m) /\ m.size = S /\ m.data \in TlsfDatas
  BY TlsfLikeIs
<1>2. k = [m EXCEPT !.lists[c] = <<b>> \o @, !.sl = @ \union {c}, !.fl = @ \union {c[1]},
                    !.data = [@ EXCEPT ![b + 1] = Nobody, ![b + 2] = Nobody]]
  BY <1>1 DEF TwoLevel!Enlist
<1>3. TlsfListed(l, m.sl \union {c}, m.fl \union {c[1]}, S, X \union {b})
  BY <1>1, TlsfListedMore
<1>4. d \in TlsfDatas
  <2>1. [m.data EXCEPT ![b + 1] = Nobody] \in TlsfDatas
    BY <1>1, TlsfDatasBlank
  <2>2. [[m.data EXCEPT ![b + 1] = Nobody] EXCEPT ![b + 2] = Nobody] \in TlsfDatas
    BY <2>1, TlsfDatasBlank
  <2> QED BY <2>2
<1> HIDE DEF c
<1>5. /\ TlsfIsMem(k) /\ k.lists = l /\ k.sl = m.sl \union {c} /\ k.fl = m.fl \union {c[1]}
      /\ k.pools = m.pools /\ k.size = m.size /\ k.prev = m.prev
      /\ k.free = m.free /\ k.prevFree = m.prevFree /\ k.data = d
  <2> HIDE DEF k
  <2> QED BY <1>1, <1>2 DEF TlsfIsMem
<1> HIDE DEF k, l, d
<1>6. TlsfLike(k, S, Q, F, P, X \union {b})
  BY <1>3, <1>4, <1>5, TlsfLikeIs DEF TlsfLike
<1> QED BY <1>6 DEF k

LEMMA TlsfLinkIs ==
  ASSUME NEW m, TlsfIsMem(m), m.data \in TlsfDatas, NEW b
  PROVE  LET k == TwoLevel!Link(m, b)
         IN  /\ TlsfIsMem(k) /\ k.prev = [m.prev EXCEPT ![TwoLevel!NextOf(m, b)] = b] /\ k.data \in TlsfDatas
             /\ k.lists = m.lists /\ k.sl = m.sl /\ k.fl = m.fl /\ k.pools = m.pools
             /\ k.size = m.size /\ k.free = m.free /\ k.prevFree = m.prevFree
<1> DEFINE k == TwoLevel!Link(m, b)
           e == TwoLevel!NextOf(m, b)
           d == [m.data EXCEPT ![e - 1] = Nobody]
<1>1. k = [m EXCEPT !.prev[e] = b, !.data[e - 1] = Nobody]
  BY DEF TwoLevel!Link
<1>2. d \in TlsfDatas
  BY TlsfDatasBlank
<1>3. /\ TlsfIsMem(k) /\ k.prev = [m.prev EXCEPT ![e] = b] /\ k.data = d
      /\ k.lists = m.lists /\ k.sl = m.sl /\ k.fl = m.fl /\ k.pools = m.pools
      /\ k.size = m.size /\ k.free = m.free /\ k.prevFree = m.prevFree
  <2> HIDE DEF k, e
  <2> QED BY <1>1 DEF TlsfIsMem
<1> QED BY <1>2, <1>3

LEMMA TlsfMarkAsFreeIs ==
  ASSUME NEW m, TlsfIsMem(m), m.data \in TlsfDatas, NEW b
  PROVE  LET k == TwoLevel!MarkAsFree(m, b)
         IN  /\ TlsfIsMem(k) /\ k.prev = [m.prev EXCEPT ![TwoLevel!NextOf(m, b)] = b] /\ k.data \in TlsfDatas
             /\ k.lists = m.lists /\ k.sl = m.sl /\ k.fl = m.fl /\ k.pools = m.pools
             /\ k.size = m.size /\ k.free = m.free \union {b}
             /\ k.prevFree = m.prevFree \union {TwoLevel!NextOf(m, b)}
<1> DEFINE j == TwoLevel!Link(m, b)
           k == TwoLevel!MarkAsFree(m, b)
           e == TwoLevel!NextOf(m, b)
<1>1. /\ TlsfIsMem(j) /\ j.prev = [m.prev EXCEPT ![e] = b] /\ j.data \in TlsfDatas
      /\ j.lists = m.lists /\ j.sl = m.sl /\ j.fl = m.fl /\ j.pools = m.pools
      /\ j.size = m.size /\ j.free = m.free /\ j.prevFree = m.prevFree
  BY TlsfLinkIs
<1>2. k = [j EXCEPT !.free = @ \union {b}, !.prevFree = @ \union {e}]
  BY DEF TwoLevel!MarkAsFree
<1>3. /\ TlsfIsMem(k) /\ k.prev = j.prev /\ k.data = j.data
      /\ k.lists = j.lists /\ k.sl = j.sl /\ k.fl = j.fl /\ k.pools = j.pools
      /\ k.size = j.size /\ k.free = j.free \union {b} /\ k.prevFree = j.prevFree \union {e}
  <2> HIDE DEF k, j, e
  <2> QED BY <1>1, <1>2 DEF TlsfIsMem
<1> HIDE DEF k, j, e
<1>4. /\ TlsfIsMem(k) /\ k.prev = [m.prev EXCEPT ![e] = b] /\ k.data \in TlsfDatas
      /\ k.lists = m.lists /\ k.sl = m.sl /\ k.fl = m.fl /\ k.pools = m.pools
      /\ k.size = m.size /\ k.free = m.free \union {b}
      /\ k.prevFree = m.prevFree \union {e}
  BY <1>1, <1>3
<1> QED BY <1>4 DEF k, e

LEMMA TlsfLikeFreed ==
  ASSUME NEW m, NEW S, NEW Q, NEW F, NEW P, NEW X, TlsfTiled(S, Q), TlsfLike(m, S, Q, F, P, X),
         NEW b \in TlsfHeads(S) \ TlsfEnds
  PROVE  TlsfLike(TwoLevel!MarkAsFree(m, b), S, Q, F \union {b}, P \union {b}, X)
<1> DEFINE k == TwoLevel!MarkAsFree(m, b)
           e == TlsfNx(S, b)
<1>1. /\ TlsfIsMem(m) /\ m.size = S /\ m.pools = Q /\ m.free = F /\ F \subseteq TlsfHeads(S) \ TlsfEnds
      /\ TlsfMarked(m.prev, m.prevFree, S, P) /\ TlsfListed(m.lists, m.sl, m.fl, S, X) /\ m.data \in TlsfDatas
  BY TlsfLikeIs
<1>2. TwoLevel!NextOf(m, b) = e
  BY <1>1 DEF TwoLevel!NextOf, TlsfNx
<1>3. /\ TlsfIsMem(k) /\ k.prev = [m.prev EXCEPT ![e] = b] /\ k.data \in TlsfDatas
      /\ k.lists = m.lists /\ k.sl = m.sl /\ k.fl = m.fl /\ k.pools = m.pools
      /\ k.size = m.size /\ k.free = m.free \union {b}
      /\ k.prevFree = m.prevFree \union {e}
  BY <1>1, <1>2, TlsfMarkAsFreeIs
<1>4. TlsfMarked(k.prev, k.prevFree, S, P \union {b})
  <2>1. TlsfMarked([m.prev EXCEPT ![e] = b], m.prevFree \union {e}, S, P \union {b})
    BY <1>1, TlsfMarkedMore
  <2> HIDE DEF k, e
  <2> QED BY <2>1, <1>3
<1>5. F \union {b} \subseteq TlsfHeads(S) \ TlsfEnds
  BY <1>1
<1> HIDE DEF k, e
<1>6. TlsfLike(k, S, Q, F \union {b}, P \union {b}, X)
  BY <1>1, <1>3, <1>4, <1>5 DEF TlsfLike
<1> QED BY <1>6 DEF k

LEMMA TlsfLikeUsed ==
  ASSUME NEW m, NEW S, NEW Q, NEW F, NEW P, NEW X, TlsfTiled(S, Q), TlsfLike(m, S, Q, F, P, X),
         NEW b \in TlsfHeads(S) \ TlsfEnds
  PROVE  TlsfLike(TwoLevel!MarkAsUsed(m, b), S, Q, F \ {b}, P \ {b}, X)
<1> DEFINE k == TwoLevel!MarkAsUsed(m, b)
           e == TlsfNx(S, b)
<1>1. /\ TlsfIsMem(m) /\ m.size = S /\ m.pools = Q /\ m.free = F /\ F \subseteq TlsfHeads(S) \ TlsfEnds
      /\ TlsfMarked(m.prev, m.prevFree, S, P) /\ TlsfListed(m.lists, m.sl, m.fl, S, X) /\ m.data \in TlsfDatas
  BY TlsfLikeIs
<1>2. TwoLevel!NextOf(m, b) = e
  BY <1>1 DEF TwoLevel!NextOf, TlsfNx
<1>3. k = [m EXCEPT !.free = @ \ {b}, !.prevFree = @ \ {e}]
  BY <1>2 DEF TwoLevel!MarkAsUsed
<1>4. /\ TlsfIsMem(k) /\ k.prev = m.prev /\ k.data = m.data
      /\ k.lists = m.lists /\ k.sl = m.sl /\ k.fl = m.fl /\ k.pools = m.pools
      /\ k.size = m.size /\ k.free = m.free \ {b} /\ k.prevFree = m.prevFree \ {e}
  <2> HIDE DEF k, e
  <2> QED BY <1>1, <1>3 DEF TlsfIsMem
<1>5. TlsfMarked(m.prev, m.prevFree \ {e}, S, P \ {b})
  BY <1>1, TlsfMarkedLess
<1>6. F \ {b} \subseteq TlsfHeads(S) \ TlsfEnds
  BY <1>1
<1> HIDE DEF k, e
<1>7. TlsfLike(k, S, Q, F \ {b}, P \ {b}, X)
  BY <1>1, <1>4, <1>5, <1>6 DEF TlsfLike
<1> QED BY <1>7 DEF k
LEMMA TlsfLikeSplit ==
  ASSUME NEW m, NEW S, NEW Q, NEW F, NEW P, NEW X, TlsfTiled(S, Q), TlsfLike(m, S, Q, F, P, X),
         NEW T, NEW b, NEW n, NEW r, TlsfCutAt(S, T, b, n, r), b \notin X
  PROVE  TlsfLike(TwoLevel!SplitOff(m, b, n), T, Q, F \union {r}, (P \ {b}) \union {r}, X)
<1> DEFINE j == [m EXCEPT !.size = T]
           k == TwoLevel!SplitOff(m, b, n)
           e == TlsfNx(T, r)
<1>1. /\ TlsfIsMem(m) /\ m.size = S /\ m.pools = Q /\ m.free = F /\ F \subseteq TlsfHeads(S) \ TlsfEnds
      /\ X \subseteq TlsfHeads(S) \ TlsfEnds
      /\ TlsfMarked(m.prev, m.prevFree, S, P) /\ TlsfListed(m.lists, m.sl, m.fl, S, X) /\ m.data \in TlsfDatas
  BY TlsfLikeIs
<1>2. b \in TlsfHeads(S) \ TlsfEnds /\ r = b + 1 + n /\ T = [S EXCEPT ![b] = n, ![r] = S[b] - n - 1]
  BY DEF TlsfCutAt
<1>3. /\ TlsfHeads(T) = TlsfHeads(S) \union {r} /\ r \notin TlsfEnds
      /\ \A x \in TlsfHeads(S) \ {b} : T[x] = S[x]
  BY TlsfCutIs
<1>4. k = TwoLevel!MarkAsFree(j, r)
  <2>1. [m.size EXCEPT ![b] = n, ![b + 1 + n] = m.size[b] - n - 1] = T
    BY <1>1, <1>2
  <2> QED BY <2>1, <1>2 DEF TwoLevel!SplitOff
<1>5. /\ TlsfIsMem(j) /\ j.prev = m.prev /\ j.data = m.data
      /\ j.lists = m.lists /\ j.sl = m.sl /\ j.fl = m.fl /\ j.pools = m.pools
      /\ j.size = T /\ j.free = m.free /\ j.prevFree = m.prevFree
  BY <1>1 DEF TlsfIsMem
<1> HIDE DEF j
<1>6. TwoLevel!NextOf(j, r) = e
  BY <1>5 DEF TwoLevel!NextOf, TlsfNx
<1>7. /\ TlsfIsMem(k) /\ k.prev = [j.prev EXCEPT ![e] = r] /\ k.data \in TlsfDatas
      /\ k.lists = j.lists /\ k.sl = j.sl /\ k.fl = j.fl /\ k.pools = j.pools
      /\ k.size = j.size /\ k.free = j.free \union {r} /\ k.prevFree = j.prevFree \union {e}
  <2>1. TlsfIsMem(j) /\ j.data \in TlsfDatas
    BY <1>1, <1>5
  <2> HIDE DEF k, e
  <2> QED BY ONLY <2>1, <1>4, <1>6, TlsfMarkAsFreeIs, SMTT(20)
<1>8. TlsfMarked(k.prev, k.prevFree, T, (P \ {b}) \union {r})
  <2>1. TlsfMarked([m.prev EXCEPT ![e] = r], m.prevFree \union {e}, T, (P \ {b}) \union {r})
    BY <1>1, TlsfMarkedCut
  <2> HIDE DEF k, e
  <2> QED BY <2>1, <1>5, <1>7
<1>9. TlsfListed(m.lists, m.sl, m.fl, T, X)
  <2>1. X \subseteq TlsfHeads(T) /\ \A x \in X : T[x] = S[x]
    BY <1>1, <1>3
  <2> QED BY <2>1, <1>1, TlsfListedSame
<1>10. F \union {r} \subseteq TlsfHeads(T) \ TlsfEnds
  BY <1>1, <1>3
<1> HIDE DEF k, e
<1>11. TlsfLike(k, T, Q, F \union {r}, (P \ {b}) \union {r}, X)
  BY <1>1, <1>5, <1>7, <1>8, <1>9, <1>10 DEF TlsfLike
<1> QED BY <1>11 DEF k

LEMMA TlsfLikeJoined ==
  ASSUME NEW m, NEW S, NEW Q, NEW F, NEW P, NEW X, TlsfTiled(S, Q), TlsfLike(m, S, Q, F, P, X),
         NEW T, NEW p, NEW b, TlsfJoinAt(S, T, p, b), b \in P, b \notin X, p \notin X
  PROVE  TlsfLike(TwoLevel!Absorb(m, p, b), T, Q, F \ {b}, (P \ {b}) \union {p}, X)
<1> DEFINE j == [m EXCEPT !.size = T, !.prev[b] = TwoLevel!None, !.free = @ \ {b}, !.prevFree = @ \ {b}]
           k == TwoLevel!Absorb(m, p, b)
           e == TlsfNx(T, p)
<1>1. /\ TlsfIsMem(m) /\ m.size = S /\ m.pools = Q /\ m.free = F /\ F \subseteq TlsfHeads(S) \ TlsfEnds
      /\ X \subseteq TlsfHeads(S) \ TlsfEnds
      /\ TlsfMarked(m.prev, m.prevFree, S, P) /\ TlsfListed(m.lists, m.sl, m.fl, S, X) /\ m.data \in TlsfDatas
  BY TlsfLikeIs
<1>2. p \in TlsfHeads(S) \ TlsfEnds /\ b \in TlsfHeads(S) \ TlsfEnds
      /\ T = [S EXCEPT ![p] = S[p] + S[b] + 1, ![b] = TwoLevel!None]
  BY DEF TlsfJoinAt
<1>3. TlsfHeads(T) = TlsfHeads(S) \ {b} /\ \A x \in TlsfHeads(S) \ {b, p} : T[x] = S[x]
  BY TlsfJoinIs
<1>4. k = TwoLevel!Link(j, p)
  <2>1. [m.size EXCEPT ![p] = m.size[p] + m.size[b] + 1, ![b] = TwoLevel!None] = T
    BY <1>1, <1>2
  <2> DEFINE i == [m EXCEPT !.size = [m.size EXCEPT ![p] = m.size[p] + m.size[b] + 1, ![b] = TwoLevel!None],
                            !.prev[b] = TwoLevel!None, !.free = @ \ {b}, !.prevFree = @ \ {b}]
  <2>2. k = TwoLevel!Link(i, p)
    BY DEF TwoLevel!Absorb
  <2>3. i = j
    BY <2>1
  <2> QED BY <2>2, <2>3
<1>5. /\ TlsfIsMem(j) /\ j.prev = [m.prev EXCEPT ![b] = TwoLevel!None] /\ j.data = m.data
      /\ j.lists = m.lists /\ j.sl = m.sl /\ j.fl = m.fl /\ j.pools = m.pools
      /\ j.size = T /\ j.free = m.free \ {b} /\ j.prevFree = m.prevFree \ {b}
  <2> DEFINE j1 == [m EXCEPT !.size = T]
             j2 == [j1 EXCEPT !.prev[b] = TwoLevel!None]
             j3 == [j2 EXCEPT !.free = @ \ {b}]
             j4 == [j3 EXCEPT !.prevFree = @ \ {b}]
  <2>1. /\ TlsfIsMem(j1) /\ j1.size = T /\ j1.prev = m.prev /\ j1.data = m.data
        /\ j1.lists = m.lists /\ j1.sl = m.sl /\ j1.fl = m.fl /\ j1.pools = m.pools
        /\ j1.free = m.free /\ j1.prevFree = m.prevFree
    BY <1>1 DEF TlsfIsMem
  <2>0. j = j4
    BY <1>1 DEF TlsfIsMem
  <2> HIDE DEF j1
  <2>2. /\ TlsfIsMem(j2) /\ j2.size = T /\ j2.prev = [m.prev EXCEPT ![b] = TwoLevel!None] /\ j2.data = m.data
        /\ j2.lists = m.lists /\ j2.sl = m.sl /\ j2.fl = m.fl /\ j2.pools = m.pools
        /\ j2.free = m.free /\ j2.prevFree = m.prevFree
    BY <2>1 DEF TlsfIsMem
  <2> HIDE DEF j2
  <2>3. /\ TlsfIsMem(j3) /\ j3.size = T /\ j3.prev = [m.prev EXCEPT ![b] = TwoLevel!None] /\ j3.data = m.data
        /\ j3.lists = m.lists /\ j3.sl = m.sl /\ j3.fl = m.fl /\ j3.pools = m.pools
        /\ j3.free = m.free \ {b} /\ j3.prevFree = m.prevFree
    BY <2>2 DEF TlsfIsMem
  <2> HIDE DEF j3
  <2>4. /\ TlsfIsMem(j4) /\ j4.size = T /\ j4.prev = [m.prev EXCEPT ![b] = TwoLevel!None] /\ j4.data = m.data
        /\ j4.lists = m.lists /\ j4.sl = m.sl /\ j4.fl = m.fl /\ j4.pools = m.pools
        /\ j4.free = m.free \ {b} /\ j4.prevFree = m.prevFree \ {b}
    BY <2>3 DEF TlsfIsMem
  <2> HIDE DEF j4, j
  <2> QED BY <2>0, <2>4
<1> HIDE DEF j
<1>6. TwoLevel!NextOf(j, p) = e
  BY <1>5 DEF TwoLevel!NextOf, TlsfNx
<1>7. /\ TlsfIsMem(k) /\ k.prev = [j.prev EXCEPT ![e] = p] /\ k.data \in TlsfDatas
      /\ k.lists = j.lists /\ k.sl = j.sl /\ k.fl = j.fl /\ k.pools = j.pools
      /\ k.size = j.size /\ k.free = j.free /\ k.prevFree = j.prevFree
  <2>1. TlsfIsMem(j) /\ j.data \in TlsfDatas
    BY <1>1, <1>5
  <2> HIDE DEF k, e
  <2> QED BY <2>1, <1>4, <1>6, TlsfLinkIs
<1>8. TlsfMarked(k.prev, k.prevFree, T, (P \ {b}) \union {p})
  <2>1. k.prev = [[m.prev EXCEPT ![b] = TwoLevel!None] EXCEPT ![e] = p]
    BY <1>5, <1>7
  <2>2. TlsfMarked(k.prev, m.prevFree \ {b}, T, (P \ {b}) \union {p})
    <3> HIDE DEF k
    <3> QED BY <2>1, <1>1, TlsfMarkedJoin
  <2> HIDE DEF k, e
  <2> QED BY <2>2, <1>5, <1>7
<1>9. TlsfListed(m.lists, m.sl, m.fl, T, X)
  <2>1. X \subseteq TlsfHeads(T) /\ \A x \in X : T[x] = S[x]
    BY <1>1, <1>3
  <2> QED BY <2>1, <1>1, TlsfListedSame
<1>10. F \ {b} \subseteq TlsfHeads(T) \ TlsfEnds
  BY <1>1, <1>3
<1> HIDE DEF k, e
<1>11. TlsfLike(k, T, Q, F \ {b}, (P \ {b}) \union {p}, X)
  BY <1>1, <1>5, <1>7, <1>8, <1>9, <1>10 DEF TlsfLike
<1> QED BY <1>11 DEF k

\* What block_trim_free and block_trim_free_leading do before the one part goes on its list.
LEMMA TlsfLikeParted ==
  ASSUME NEW m, NEW S, NEW Q, NEW F, NEW P, NEW X, TlsfTiled(S, Q), TlsfLike(m, S, Q, F, P, X),
         NEW T, NEW b, NEW n, NEW r, TlsfCutAt(S, T, b, n, r), b \notin X
  PROVE  TlsfLike([TwoLevel!Link(TwoLevel!SplitOff(m, b, n), b) EXCEPT !.prevFree = @ \union {r}],
              T, Q, F \union {r}, P \union {b, r}, X)
<1> DEFINE i == TwoLevel!SplitOff(m, b, n)
           j == TwoLevel!Link(i, b)
           k == [j EXCEPT !.prevFree = @ \union {r}]
<1>1. TlsfLike(i, T, Q, F \union {r}, (P \ {b}) \union {r}, X)
  BY TlsfLikeSplit
<1> HIDE DEF i
<1>2. /\ TlsfIsMem(i) /\ i.size = T /\ i.pools = Q /\ i.free = F \union {r} /\ F \union {r} \subseteq TlsfHeads(T) \ TlsfEnds
      /\ TlsfMarked(i.prev, i.prevFree, T, (P \ {b}) \union {r})
      /\ TlsfListed(i.lists, i.sl, i.fl, T, X) /\ i.data \in TlsfDatas
  BY <1>1, TlsfLikeIs
<1>3. TlsfTiled(T, Q) /\ TlsfNx(T, b) = r /\ b \in TlsfHeads(T) \ TlsfEnds
  <2>1. b \in TlsfHeads(S) \ TlsfEnds
    BY DEF TlsfCutAt
  <2>2. TlsfTiled(T, Q) /\ TlsfNx(T, b) = r /\ TlsfHeads(T) = TlsfHeads(S) \union {r}
    BY TlsfCutIs
  <2> QED BY <2>1, <2>2
<1>4. TwoLevel!NextOf(i, b) = r
  BY <1>2, <1>3 DEF TwoLevel!NextOf, TlsfNx
<1>5. /\ TlsfIsMem(j) /\ j.prev = [i.prev EXCEPT ![r] = b] /\ j.data \in TlsfDatas
      /\ j.lists = i.lists /\ j.sl = i.sl /\ j.fl = i.fl /\ j.pools = i.pools
      /\ j.size = i.size /\ j.free = i.free /\ j.prevFree = i.prevFree
  BY <1>2, <1>4, TlsfLinkIs
<1> HIDE DEF j
<1>6. /\ TlsfIsMem(k) /\ k.prev = j.prev /\ k.data = j.data
      /\ k.lists = j.lists /\ k.sl = j.sl /\ k.fl = j.fl /\ k.pools = j.pools
      /\ k.size = j.size /\ k.free = j.free /\ k.prevFree = j.prevFree \union {r}
  BY <1>5 DEF TlsfIsMem
<1> HIDE DEF k
<1>7. TlsfMarked(k.prev, k.prevFree, T, P \union {b, r})
  <2>1. TlsfMarked([i.prev EXCEPT ![r] = b], i.prevFree \union {r}, T, ((P \ {b}) \union {r}) \union {b})
    BY <1>2, <1>3, TlsfMarkedMore
  <2>2. ((P \ {b}) \union {r}) \union {b} = P \union {b, r}
    OBVIOUS
  <2> QED BY <2>1, <2>2, <1>5, <1>6
<1>8. TlsfLike(k, T, Q, F \union {r}, P \union {b, r}, X)
  BY <1>2, <1>5, <1>6, <1>7 DEF TlsfLike
<1> QED BY <1>8 DEF k, j, i
-----------------------------------------------------------------------------
(* The operations.  In the middle of them p is free and on no list, and no   *)
(* free block lies before it.                                                *)

TlsfOpen(m, S, Q, F, p) ==
  /\ TlsfTiled(S, Q) /\ TlsfLike(m, S, Q, F, F, F \ {p}) /\ p \in F
  /\ \A x \in F : TlsfNx(S, x) # p
  /\ \A x \in F \ {p} : TlsfNx(S, x) \notin F

\* b is free and has been taken from its list to be given to a client.
TlsfReady(m, S, Q, F, b) ==
  /\ TlsfTiled(S, Q) /\ TlsfLike(m, S, Q, F, F, F \ {b}) /\ b \in F
  /\ \A x \in F : TlsfNx(S, x) \in F => TlsfNx(S, x) = b

\* The next block joins b, if it is free.
LEMMA TlsfAbsorbed ==
  ASSUME NEW m, NEW S, NEW Q, NEW F, NEW X, TlsfTiled(S, Q), TlsfLike(m, S, Q, F, F, X),
         NEW b \in TlsfHeads(S) \ TlsfEnds, b \notin X, NEW n \in X, n \in F, n = TlsfNx(S, b)
  PROVE  \E T : /\ TlsfJoinAt(S, T, b, n)
                /\ TlsfLike(TwoLevel!MergeNext(m, b), T, Q, F \ {n}, (F \ {n}) \union {b}, X \ {n})
<1>1. m.size = S /\ m.free = F /\ X \subseteq TlsfHeads(S) \ TlsfEnds
  BY TlsfLikeIs
<1>2. TwoLevel!NextOf(m, b) = n
  BY <1>1 DEF TwoLevel!NextOf, TlsfNx
<1> DEFINE k == TwoLevel!Unlist(m, n)
<1>3. TwoLevel!MergeNext(m, b) = TwoLevel!Absorb(k, b, n)
  BY <1>1, <1>2 DEF TwoLevel!MergeNext
<1>4. TlsfLike(k, S, Q, F, F, X \ {n})
  <2>1. k = TwoLevel!RemoveFrom(m, n, TwoLevel!Class(S[n]))
    BY <1>1 DEF TwoLevel!Unlist
  <2> HIDE DEF k
  <2> QED BY <2>1, TlsfLikeUnlisted
<1> DEFINE T == [S EXCEPT ![b] = S[b] + S[n] + 1, ![n] = TwoLevel!None]
<1>5. TlsfJoinAt(S, T, b, n)
  BY <1>1 DEF TlsfJoinAt
<1> HIDE DEF k, T
<1>6. TlsfLike(TwoLevel!Absorb(k, b, n), T, Q, F \ {n}, (F \ {n}) \union {b}, X \ {n})
  <2>1. n \notin X \ {n} /\ b \notin X \ {n}
    OBVIOUS
  <2> QED BY <2>1, <1>4, <1>5, TlsfLikeJoined
<1> QED BY <1>3, <1>5, <1>6

LEMMA TlsfClosed ==
  ASSUME NEW m, NEW S, NEW Q, NEW F, NEW p, TlsfOpen(m, S, Q, F, p)
  PROVE  \E T, G : TlsfGood(TwoLevel!Enlist(TwoLevel!MergeNext(m, p), p), T, Q, G) /\ TlsfUsed(T, G) = TlsfUsed(S, F)
<1> DEFINE n == TlsfNx(S, p)
           k == TwoLevel!MergeNext(m, p)
<1>1. /\ TlsfTiled(S, Q) /\ TlsfLike(m, S, Q, F, F, F \ {p}) /\ p \in F
      /\ \A x \in F : TlsfNx(S, x) # p
      /\ \A x \in F \ {p} : TlsfNx(S, x) \notin F
  BY DEF TlsfOpen
<1>2. m.size = S /\ m.free = F /\ F \subseteq TlsfHeads(S) \ TlsfEnds
  BY <1>1, TlsfLikeIs
<1>3. n = TwoLevel!NextOf(m, p) /\ n # p
  BY <1>1, <1>2 DEF TwoLevel!NextOf, TlsfNx
<1>4. CASE n \in F
  <2>1. PICK T : TlsfJoinAt(S, T, p, n) /\ TlsfLike(k, T, Q, F \ {n}, (F \ {n}) \union {p}, (F \ {p}) \ {n})
    <3>1. n \in F \ {p} /\ p \in TlsfHeads(S) \ TlsfEnds /\ p \notin F \ {p}
      BY <1>1, <1>2, <1>3, <1>4
    <3> HIDE DEF k, n
    <3>2. n = TlsfNx(S, p)
      BY DEF n
    <3>3. \E T : /\ TlsfJoinAt(S, T, p, n)
                 /\ TlsfLike(TwoLevel!MergeNext(m, p), T, Q, F \ {n}, (F \ {n}) \union {p}, (F \ {p}) \ {n})
      BY <3>1, <3>2, <1>1, TlsfAbsorbed
    <3> QED BY <3>3 DEF k
  <2> DEFINE G == F \ {n}
  <2>2. /\ TlsfTiled(T, Q) /\ TlsfHeads(T) = TlsfHeads(S) \ {n} /\ TlsfNx(T, p) = TlsfNx(S, n)
        /\ \A x \in TlsfHeads(S) \ {n, p} : TlsfNx(T, x) = TlsfNx(S, x)
    BY <1>1, <2>1, TlsfJoinIs
  <2>3. (F \ {n}) \union {p} = G /\ (F \ {p}) \ {n} = G \ {p} /\ p \in G
    BY <1>1, <1>3
  <2>4. TlsfLike(k, T, Q, G, G, G \ {p})
    BY <2>1, <2>3
  <2>5. p \in TlsfHeads(T) \ TlsfEnds /\ p \notin G \ {p} /\ (G \ {p}) \union {p} = G
    BY <2>2, <2>3, <1>2
  <2>6. TlsfLike(TwoLevel!Enlist(k, p), T, Q, G, G, G)
    <3> HIDE DEF k, G
    <3> QED BY <2>2, <2>4, <2>5, TlsfLikeEnlisted
  <2>7. TlsfApart(T, G)
    <3>1. ASSUME NEW x \in G PROVE TlsfNx(T, x) \notin G
      <4>1. CASE x = p
        <5>1. TlsfNx(S, n) \notin F
          BY <1>1, <1>3, <1>4
        <5> QED BY <4>1, <5>1, <2>2
      <4>2. CASE x # p
        <5>1. x \in F \ {p} /\ x \in TlsfHeads(S) \ {n, p}
          BY <4>2, <1>2
        <5>2. TlsfNx(S, x) \notin F
          BY <5>1, <1>1
        <5> QED BY <5>1, <5>2, <2>2
      <4> QED BY <4>1, <4>2
    <3> QED BY <3>1 DEF TlsfApart
  <2>8. TlsfUsed(T, G) = TlsfUsed(S, F)
    BY <2>2, <1>4 DEF TlsfUsed
  <2> HIDE DEF G, k
  <2>9. TlsfGood(TwoLevel!Enlist(k, p), T, Q, G)
    BY <2>2, <2>6, <2>7 DEF TlsfGood
  <2> QED BY <2>8, <2>9 DEF k
<1>5. CASE n \notin F
  <2>1. k = m
    BY <1>2, <1>3, <1>5 DEF TwoLevel!MergeNext
  <2>2. TlsfLike(TwoLevel!Enlist(m, p), S, Q, F, F, F)
    <3>1. p \in TlsfHeads(S) \ TlsfEnds /\ p \notin F \ {p} /\ (F \ {p}) \union {p} = F
      BY <1>1, <1>2
    <3> QED BY <3>1, <1>1, TlsfLikeEnlisted
  <2>3. TlsfApart(S, F)
    BY <1>1, <1>5 DEF TlsfApart
  <2>4. TlsfGood(TwoLevel!Enlist(m, p), S, Q, F)
    BY <1>1, <2>2, <2>3 DEF TlsfGood
  <2> QED BY <2>1, <2>4
<1> QED BY <1>4, <1>5

LEMMA TlsfGoodIs ==
  ASSUME NEW m, NEW S, NEW Q, NEW F, TlsfGood(m, S, Q, F)
  PROVE  /\ TlsfTiled(S, Q) /\ TlsfLike(m, S, Q, F, F, F) /\ F \subseteq TlsfHeads(S) \ TlsfEnds
         /\ m.size = S /\ m.free = F /\ m.pools = Q
         /\ \A x \in F : TlsfNx(S, x) \notin F
         /\ \A b \in TlsfUsed(S, F) : b \in TlsfHeads(S) \ TlsfEnds /\ b \notin F
<1>1. TlsfTiled(S, Q) /\ TlsfLike(m, S, Q, F, F, F) /\ \A x \in F : TlsfNx(S, x) \notin F
  BY DEF TlsfGood, TlsfApart
<1>2. F \subseteq TlsfHeads(S) \ TlsfEnds /\ m.size = S /\ m.free = F /\ m.pools = Q
  BY <1>1, TlsfLikeIs
<1>3. \A b \in TlsfUsed(S, F) : b \in TlsfHeads(S) \ TlsfEnds /\ b \notin F
  BY DEF TlsfUsed
<1> QED BY <1>1, <1>2, <1>3

LEMMA TlsfFreedIs ==
  ASSUME NEW m, NEW S, NEW Q, NEW F, TlsfGood(m, S, Q, F), NEW b \in TlsfUsed(S, F)
  PROVE  \E T, G : TlsfGood(TwoLevel!Freed(m, b), T, Q, G) /\ TlsfUsed(T, G) = TlsfUsed(S, F) \ {b}
<1> DEFINE f == TwoLevel!MarkAsFree(m, b)
           p == IF b \in f.prevFree THEN f.prev[b] ELSE b
           j == IF p = b THEN f ELSE TwoLevel!Absorb(TwoLevel!Unlist(f, p), p, b)
           E == F \union {b}
<1>1. /\ TlsfTiled(S, Q) /\ TlsfLike(m, S, Q, F, F, F) /\ F \subseteq TlsfHeads(S) \ TlsfEnds
      /\ \A x \in F : TlsfNx(S, x) \notin F
      /\ b \in TlsfHeads(S) \ TlsfEnds /\ b \notin F
  BY TlsfGoodIs
<1>2. TlsfLike(f, S, Q, E, E, F)
  BY <1>1, TlsfLikeFreed
<1>3. TwoLevel!Freed(m, b) = TwoLevel!Enlist(TwoLevel!MergeNext(j, p), p)
  BY DEF TwoLevel!Freed
<1> HIDE DEF f
<1>4. TlsfMarked(f.prev, f.prevFree, S, E) /\ f.size = S
  BY <1>2, TlsfLikeIs
<1>5. f.prevFree = {TlsfNx(S, x) : x \in E} /\ \A x \in E : f.prev[TlsfNx(S, x)] = x
  BY <1>4 DEF TlsfMarked
<1>6. TlsfNx(S, b) # b
  BY <1>1, TlsfTiledIs
<1>7. CASE b \in f.prevFree
  <2>1. PICK e \in F : TlsfNx(S, e) = b /\ p = e
    BY <1>5, <1>6, <1>7
  <2>2. p \in F /\ TlsfNx(S, p) = b /\ p # b /\ p \in TlsfHeads(S) \ TlsfEnds
    BY <1>1, <2>1
  <2> HIDE DEF p
  <2> DEFINE T == [S EXCEPT ![p] = S[p] + S[b] + 1, ![b] = TwoLevel!None]
             u == TwoLevel!Unlist(f, p)
  <2>3. TlsfJoinAt(S, T, p, b)
    BY <2>2, <1>1 DEF TlsfJoinAt
  <2> HIDE DEF T
  <2>4. TlsfLike(u, S, Q, E, E, F \ {p})
    <3>1. u = TwoLevel!RemoveFrom(f, p, TwoLevel!Class(S[p]))
      BY <1>4 DEF TwoLevel!Unlist
    <3> HIDE DEF u
    <3> QED BY <3>1, <2>2, <1>1, <1>2, TlsfLikeUnlisted
  <2>5. j = TwoLevel!Absorb(u, p, b)
    BY <2>2
  <2> HIDE DEF u, j
  <2>6. b \in E /\ b \notin F \ {p} /\ p \notin F \ {p} /\ E \ {b} = F /\ F \union {p} = F
    BY <2>2, <1>1
  <2>7. TlsfLike(j, T, Q, F, F, F \ {p})
    <3>1. TlsfLike(j, T, Q, E \ {b}, (E \ {b}) \union {p}, F \ {p})
      <4> HIDE DEF E
      <4> QED BY <2>3, <2>4, <2>5, <2>6, <1>1, TlsfLikeJoined
    <3> QED BY <3>1, <2>6
  <2>8. /\ TlsfTiled(T, Q) /\ TlsfHeads(T) = TlsfHeads(S) \ {b} /\ TlsfNx(T, p) = TlsfNx(S, b)
        /\ \A x \in TlsfHeads(S) \ {b, p} : TlsfNx(T, x) = TlsfNx(S, x)
    BY <1>1, <2>3, TlsfJoinIs
  <2>9. ASSUME NEW x \in F PROVE TlsfNx(T, x) # p /\ (x # p => TlsfNx(T, x) \notin F)
    <3>1. CASE x = p
      <4>1. p \in TlsfHeads(T) \ TlsfEnds
        BY <2>2, <2>8
      <4> QED BY <4>1, <3>1, <2>8, TlsfTiledIs
    <3>2. CASE x # p
      <4>1. x \in TlsfHeads(S) \ {b, p} /\ TlsfNx(S, x) \notin F
        BY <3>2, <1>1
      <4> QED BY <4>1, <2>2, <2>8
    <3> QED BY <3>1, <3>2
  <2>10. TlsfOpen(j, T, Q, F, p)
    BY <2>2, <2>7, <2>8, <2>9 DEF TlsfOpen
  <2>11. PICK U, G : TlsfGood(TwoLevel!Enlist(TwoLevel!MergeNext(j, p), p), U, Q, G) /\ TlsfUsed(U, G) = TlsfUsed(T, F)
    BY <2>10, TlsfClosed
  <2>12. TlsfUsed(T, F) = TlsfUsed(S, F) \ {b}
    BY <2>8 DEF TlsfUsed
  <2> QED BY <2>11, <2>12, <1>3
<1>8. CASE b \notin f.prevFree
  <2>1. p = b /\ j = f
    BY <1>8
  <2>2. TlsfOpen(f, S, Q, E, b)
    <3>1. E \ {b} = F /\ b \in E
      BY <1>1
    <3>2. TlsfLike(f, S, Q, E, E, E \ {b})
      BY <1>2, <3>1
    <3>3. \A x \in E : TlsfNx(S, x) # b
      BY <1>5, <1>8
    <3>4. \A x \in E \ {b} : TlsfNx(S, x) \notin E
      BY <3>1, <3>3, <1>1
    <3> HIDE DEF E
    <3> QED BY <1>1, <3>1, <3>2, <3>3, <3>4 DEF TlsfOpen
  <2>3. PICK U, G : TlsfGood(TwoLevel!Enlist(TwoLevel!MergeNext(f, b), b), U, Q, G) /\ TlsfUsed(U, G) = TlsfUsed(S, E)
    <3> HIDE DEF E
    <3> QED BY <2>2, TlsfClosed
  <2>4. TlsfUsed(S, E) = TlsfUsed(S, F) \ {b}
    BY DEF TlsfUsed
  <2> HIDE DEF E, p, j
  <2>5. TwoLevel!Freed(m, b) = TwoLevel!Enlist(TwoLevel!MergeNext(f, b), b)
    BY <2>1, <1>3
  <2> QED BY <2>3, <2>4, <2>5
<1> QED BY <1>7, <1>8

\* The split that CanSplit allows.
LEMMA TlsfCanCut ==
  ASSUME NEW m, NEW S, m.size = S, NEW Q, TlsfTiled(S, Q), NEW b \in TlsfHeads(S) \ TlsfEnds,
         NEW n \in Nat, NEW i \in Nat, TwoLevel!CanSplit(m, b, n), i >= TwoLevel!block_size_min, i <= n
  PROVE  \E T : TlsfCutAt(S, T, b, i, b + 1 + i)
<1>1. S[b] \in Nat /\ TwoLevel!HeaderUnits = 4
  BY TlsfTiledIs DEF TwoLevel!HeaderUnits
<1>2. i + TwoLevel!HeaderUnits <= S[b]
  BY <1>1 DEF TwoLevel!CanSplit
<1> QED BY <1>2 DEF TlsfCutAt

LEMMA TlsfTrimUsedIs ==
  ASSUME NEW m, NEW S, NEW Q, NEW F, TlsfGood(m, S, Q, F), NEW b \in TlsfUsed(S, F),
         NEW n \in Nat, n >= TwoLevel!block_size_min
  PROVE  \E T, G : TlsfGood(TwoLevel!TrimUsed(m, b, n), T, Q, G) /\ TlsfUsed(T, G) = TlsfUsed(S, F)
<1>1. /\ TlsfTiled(S, Q) /\ TlsfLike(m, S, Q, F, F, F) /\ F \subseteq TlsfHeads(S) \ TlsfEnds /\ m.size = S
      /\ \A x \in F : TlsfNx(S, x) \notin F
      /\ b \in TlsfHeads(S) \ TlsfEnds /\ b \notin F
  BY TlsfGoodIs
<1>2. CASE ~TwoLevel!CanSplit(m, b, n)
  BY <1>2 DEF TwoLevel!TrimUsed
<1>3. CASE TwoLevel!CanSplit(m, b, n)
  <2> DEFINE r == b + 1 + n
             s == TwoLevel!SplitOff(m, b, n)
             k == [s EXCEPT !.prevFree = @ \ {r}]
             E == F \union {r}
  <2>1. PICK T : TlsfCutAt(S, T, b, n, r)
    <3>1. n <= n
      OBVIOUS
    <3> QED BY <3>1, <1>1, <1>3, TlsfCanCut
  <2>2. TwoLevel!TrimUsed(m, b, n) = TwoLevel!Enlist(TwoLevel!MergeNext(k, r), r)
    BY <1>3 DEF TwoLevel!TrimUsed
  <2> HIDE DEF r
  <2>3. /\ TlsfTiled(T, Q) /\ TlsfHeads(T) = TlsfHeads(S) \union {r} /\ r \notin TlsfHeads(S) /\ r \notin TlsfEnds
        /\ TlsfNx(T, b) = r /\ TlsfNx(T, r) = TlsfNx(S, b)
        /\ \A x \in TlsfHeads(S) \ {b} : TlsfNx(T, x) = TlsfNx(S, x)
    BY <1>1, <2>1, TlsfCutIs
  <2>4. TlsfLike(s, T, Q, E, E, F)
    <3>1. (F \ {b}) \union {r} = E
      BY <1>1
    <3>2. TlsfLike(s, T, Q, F \union {r}, (F \ {b}) \union {r}, F)
      BY <1>1, <2>1, TlsfLikeSplit
    <3> QED BY <3>1, <3>2
  <2> HIDE DEF s
  <2>5. \A x \in E : TlsfNx(T, x) # r /\ x \in TlsfHeads(T) \ TlsfEnds
    <3>1. b \in TlsfHeads(T) \ TlsfEnds /\ E \subseteq TlsfHeads(T) \ TlsfEnds /\ b \notin E
      BY <1>1, <2>3
    <3>2. ASSUME NEW x \in E PROVE TlsfNx(T, x) # r /\ x \in TlsfHeads(T) \ TlsfEnds
      <4>1. x \in TlsfHeads(T) \ TlsfEnds /\ x # b
        BY <3>1
      <4> QED BY <4>1, <3>1, <2>3, TlsfNextOnce
    <3> QED BY <3>2
  <2>6. k = s
    <3>1. TlsfIsMem(s) /\ TlsfMarked(s.prev, s.prevFree, T, E)
      BY <2>4, TlsfLikeIs
    <3>2. s.prevFree = {TlsfNx(T, x) : x \in E}
      BY <3>1 DEF TlsfMarked
    <3>3. s.prevFree \ {r} = s.prevFree
      BY <3>2, <2>5
    <3> HIDE DEF E
    <3> QED BY <3>1, <3>3 DEF TlsfIsMem
  <2>7. TlsfOpen(s, T, Q, E, r)
    <3>1. E \ {r} = F /\ r \in E
      BY <1>1, <2>3
    <3>2. TlsfLike(s, T, Q, E, E, E \ {r})
      BY <2>4, <3>1
    <3>3. ASSUME NEW x \in E \ {r} PROVE TlsfNx(T, x) \notin E
      <4>1. x \in F /\ x \in TlsfHeads(S) \ {b}
        BY <3>1, <1>1
      <4>2. TlsfNx(T, x) = TlsfNx(S, x) /\ TlsfNx(S, x) \notin F
        BY <4>1, <1>1, <2>3
      <4> QED BY <4>2, <2>5
    <3>4. \A x \in E : TlsfNx(T, x) # r
      BY <2>5
    <3> HIDE DEF E
    <3> QED BY <2>3, <3>1, <3>2, <3>3, <3>4 DEF TlsfOpen
  <2>8. PICK U, G : TlsfGood(TwoLevel!Enlist(TwoLevel!MergeNext(s, r), r), U, Q, G) /\ TlsfUsed(U, G) = TlsfUsed(T, E)
    <3> HIDE DEF E
    <3> QED BY <2>7, TlsfClosed
  <2>9. TlsfUsed(T, E) = TlsfUsed(S, F)
    BY <2>3 DEF TlsfUsed
  <2> HIDE DEF k, E
  <2>10. TwoLevel!TrimUsed(m, b, n) = TwoLevel!Enlist(TwoLevel!MergeNext(s, r), r)
    BY <2>2, <2>6
  <2> QED BY <2>8, <2>9, <2>10
<1> QED BY <1>2, <1>3
\* What tlsf_realloc does to have the next block's units, too.
LEMMA TlsfWidenedIs ==
  ASSUME NEW m, NEW S, NEW Q, NEW F, TlsfGood(m, S, Q, F), NEW b \in TlsfUsed(S, F)
  PROVE  \E T, G : TlsfGood(TwoLevel!MarkAsUsed(TwoLevel!MergeNext(m, b), b), T, Q, G) /\ TlsfUsed(T, G) = TlsfUsed(S, F)
<1> DEFINE n == TlsfNx(S, b)
           k == TwoLevel!MergeNext(m, b)
<1>1. /\ TlsfTiled(S, Q) /\ TlsfLike(m, S, Q, F, F, F) /\ F \subseteq TlsfHeads(S) \ TlsfEnds
      /\ m.size = S /\ m.free = F
      /\ \A x \in F : TlsfNx(S, x) \notin F
      /\ b \in TlsfHeads(S) \ TlsfEnds /\ b \notin F
  BY TlsfGoodIs
<1>2. n = TwoLevel!NextOf(m, b)
  BY <1>1 DEF TwoLevel!NextOf, TlsfNx
<1>3. CASE n \in F
  <2>1. PICK T : TlsfJoinAt(S, T, b, n) /\ TlsfLike(k, T, Q, F \ {n}, (F \ {n}) \union {b}, F \ {n})
    <3> HIDE DEF k, n
    <3>1. n = TlsfNx(S, b)
      BY DEF n
    <3>2. \E T : /\ TlsfJoinAt(S, T, b, n)
                 /\ TlsfLike(TwoLevel!MergeNext(m, b), T, Q, F \ {n}, (F \ {n}) \union {b}, F \ {n})
      BY <3>1, <1>1, <1>3, TlsfAbsorbed
    <3> QED BY <3>2 DEF k
  <2> DEFINE G == F \ {n}
  <2>2. /\ TlsfTiled(T, Q) /\ TlsfHeads(T) = TlsfHeads(S) \ {n} /\ TlsfNx(T, b) = TlsfNx(S, n) /\ b # n
        /\ \A x \in TlsfHeads(S) \ {n, b} : TlsfNx(T, x) = TlsfNx(S, x)
    BY <1>1, <2>1, TlsfJoinIs
  <2>3. b \in TlsfHeads(T) \ TlsfEnds /\ G \ {b} = G /\ (G \union {b}) \ {b} = G
    BY <1>1, <2>2
  <2>4. TlsfLike(TwoLevel!MarkAsUsed(k, b), T, Q, G, G, G)
    <3>1. TlsfLike(TwoLevel!MarkAsUsed(k, b), T, Q, G \ {b}, (G \union {b}) \ {b}, G)
      <4> HIDE DEF k
      <4> QED BY <2>1, <2>2, <2>3, TlsfLikeUsed
    <3> QED BY <3>1, <2>3
  <2>5. TlsfApart(T, G)
    <3>1. ASSUME NEW x \in G PROVE TlsfNx(T, x) \notin G
      <4>1. x \in F /\ x \in TlsfHeads(S) \ {n, b}
        BY <1>1
      <4> QED BY <4>1, <1>1, <2>2
    <3> QED BY <3>1 DEF TlsfApart
  <2>6. TlsfUsed(T, G) = TlsfUsed(S, F)
    BY <2>2, <1>3 DEF TlsfUsed
  <2> HIDE DEF G, k
  <2>7. TlsfGood(TwoLevel!MarkAsUsed(k, b), T, Q, G)
    BY <2>2, <2>4, <2>5 DEF TlsfGood
  <2> QED BY <2>6, <2>7 DEF k
<1>4. CASE n \notin F
  <2>1. k = m
    BY <1>1, <1>2, <1>4 DEF TwoLevel!MergeNext
  <2>2. TlsfLike(TwoLevel!MarkAsUsed(m, b), S, Q, F, F, F)
    <3>1. F \ {b} = F
      BY <1>1
    <3>2. TlsfLike(TwoLevel!MarkAsUsed(m, b), S, Q, F \ {b}, F \ {b}, F)
      BY <1>1, TlsfLikeUsed
    <3> QED BY <3>1, <3>2
  <2>3. TlsfGood(TwoLevel!MarkAsUsed(m, b), S, Q, F)
    BY <1>1, <2>2 DEF TlsfGood, TlsfApart
  <2> QED BY <2>1, <2>3
<1> QED BY <1>3, <1>4

\* A block is taken from its list.
LEMMA TlsfTakenIs ==
  ASSUME NEW m, NEW S, NEW Q, NEW F, TlsfGood(m, S, Q, F), NEW b \in F, NEW c, c = TwoLevel!Class(S[b])
  PROVE  TlsfReady(TwoLevel!RemoveFrom(m, b, c), S, Q, F, b)
<1>1. TlsfTiled(S, Q) /\ TlsfLike(m, S, Q, F, F, F) /\ \A x \in F : TlsfNx(S, x) \notin F
  BY TlsfGoodIs
<1>2. TlsfLike(TwoLevel!RemoveFrom(m, b, c), S, Q, F, F, F \ {b})
  BY <1>1, TlsfLikeUnlisted
<1> QED BY <1>1, <1>2 DEF TlsfReady

\* block_prepare_used.
LEMMA TlsfPreparedIs ==
  ASSUME NEW m, NEW S, NEW Q, NEW F, NEW b, TlsfReady(m, S, Q, F, b), NEW n \in Nat, n >= TwoLevel!block_size_min
  PROVE  \E T, G : TlsfGood(TwoLevel!Prepared(m, b, n), T, Q, G) /\ TlsfUsed(T, G) = TlsfUsed(S, F) \union {b}
<1>1. /\ TlsfTiled(S, Q) /\ TlsfLike(m, S, Q, F, F, F \ {b}) /\ b \in F
      /\ \A x \in F : TlsfNx(S, x) \in F => TlsfNx(S, x) = b
  BY DEF TlsfReady
<1>2. F \subseteq TlsfHeads(S) \ TlsfEnds /\ m.size = S /\ b \in TlsfHeads(S) \ TlsfEnds
  BY <1>1, TlsfLikeIs
<1>3. TlsfNx(S, b) # b /\ TlsfNx(S, b) \notin F
  BY <1>1, <1>2, TlsfTiledIs
<1>4. CASE ~TwoLevel!CanSplit(m, b, n)
  <2> DEFINE k == TwoLevel!MarkAsUsed(m, b)
             G == F \ {b}
  <2>1. TwoLevel!Prepared(m, b, n) = k
    BY <1>4 DEF TwoLevel!Prepared, TwoLevel!TrimFree
  <2>2. TlsfLike(k, S, Q, G, G, G)
    BY <1>1, <1>2, TlsfLikeUsed
  <2>3. TlsfApart(S, G)
    BY <1>1 DEF TlsfApart
  <2>4. TlsfUsed(S, G) = TlsfUsed(S, F) \union {b}
    BY <1>1, <1>2 DEF TlsfUsed
  <2> HIDE DEF k, G
  <2>5. TlsfGood(k, S, Q, G)
    BY <1>1, <2>2, <2>3 DEF TlsfGood
  <2> QED BY <2>1, <2>4, <2>5
<1>5. CASE TwoLevel!CanSplit(m, b, n)
  <2> DEFINE r == b + 1 + n
             s == [TwoLevel!Link(TwoLevel!SplitOff(m, b, n), b) EXCEPT !.prevFree = @ \union {r}]
             t == TwoLevel!Enlist(s, r)
             E == F \union {r}
             G == E \ {b}
  <2>1. PICK T : TlsfCutAt(S, T, b, n, r)
    <3>1. n <= n
      OBVIOUS
    <3> QED BY <3>1, <1>2, <1>1, <1>5, TlsfCanCut
  <2>2. TwoLevel!Prepared(m, b, n) = TwoLevel!MarkAsUsed(t, b)
    BY <1>5 DEF TwoLevel!Prepared, TwoLevel!TrimFree
  <2> HIDE DEF r
  <2>3. /\ TlsfTiled(T, Q) /\ TlsfHeads(T) = TlsfHeads(S) \union {r} /\ r \notin TlsfHeads(S) /\ r \notin TlsfEnds
        /\ TlsfNx(T, b) = r /\ TlsfNx(T, r) = TlsfNx(S, b)
        /\ \A x \in TlsfHeads(S) \ {b} : TlsfNx(T, x) = TlsfNx(S, x)
    BY <1>1, <2>1, TlsfCutIs
  <2>4. TlsfLike(s, T, Q, E, E, F \ {b})
    <3>1. F \union {b, r} = E
      BY <1>1
    <3>2. TlsfLike(s, T, Q, F \union {r}, F \union {b, r}, F \ {b})
      BY <1>1, <2>1, TlsfLikeParted
    <3> QED BY <3>1, <3>2
  <2> HIDE DEF s
  <2>5. TlsfLike(t, T, Q, E, E, G)
    <3>1. r \in TlsfHeads(T) \ TlsfEnds /\ r \notin F \ {b} /\ (F \ {b}) \union {r} = G
      BY <1>2, <2>3
    <3> HIDE DEF E, G
    <3> QED BY <3>1, <2>3, <2>4, TlsfLikeEnlisted
  <2> HIDE DEF t
  <2>6. b \in TlsfHeads(T) \ TlsfEnds
    BY <1>2, <2>3
  <2>7. TlsfLike(TwoLevel!MarkAsUsed(t, b), T, Q, G, G, G)
    <3>1. TlsfLike(TwoLevel!MarkAsUsed(t, b), T, Q, E \ {b}, E \ {b}, G)
      <4> HIDE DEF E, G
      <4> QED BY <2>3, <2>5, <2>6, TlsfLikeUsed
    <3> QED BY <3>1
  <2>8. TlsfApart(T, G)
    <3>1. ASSUME NEW x \in G PROVE TlsfNx(T, x) \notin G
      <4>1. CASE x = r
        <5>1. TlsfNx(T, x) = TlsfNx(S, b) /\ TlsfNx(S, b) # r
          BY <4>1, <2>3, <1>2, <1>1, TlsfTiledIs DEF TlsfLies
        <5> QED BY <5>1, <1>3
      <4>2. CASE x # r
        <5>1. x \in F /\ x \in TlsfHeads(S) \ {b}
          BY <4>2, <1>2
        <5>2. TlsfNx(T, x) = TlsfNx(S, x) /\ TlsfNx(S, x) # r
          BY <5>1, <2>3, <1>2, <1>1, TlsfTiledIs DEF TlsfLies
        <5> QED BY <5>1, <5>2, <1>1
      <4> QED BY <4>1, <4>2
    <3> QED BY <3>1 DEF TlsfApart
  <2>9. TlsfUsed(T, G) = TlsfUsed(S, F) \union {b}
    BY <2>3, <1>1, <1>2 DEF TlsfUsed
  <2> HIDE DEF E, G
  <2>10. TlsfGood(TwoLevel!MarkAsUsed(t, b), T, Q, G)
    BY <2>3, <2>7, <2>8 DEF TlsfGood
  <2> QED BY <2>2, <2>9, <2>10
<1> QED BY <1>4, <1>5

\* block_trim_free_leading, of a block that has been taken.
LEMMA TlsfLedIs ==
  ASSUME NEW m, NEW S, NEW Q, NEW F, TlsfGood(m, S, Q, F), NEW b \in F, NEW k, TlsfReady(k, S, Q, F, b),
         NEW gap \in Nat, gap >= TwoLevel!HeaderUnits, gap + TwoLevel!HeaderUnits <= S[b]
  PROVE  \E T : TlsfReady(TwoLevel!TrimFree(k, b, gap, gap - 1), T, Q, F \union {b + gap}, b + gap)
                /\ TlsfUsed(T, F \union {b + gap}) = TlsfUsed(S, F)
<1>1. /\ TlsfTiled(S, Q) /\ TlsfLike(k, S, Q, F, F, F \ {b})
      /\ \A x \in F : TlsfNx(S, x) \notin F
      /\ F \subseteq TlsfHeads(S) \ TlsfEnds /\ k.size = S /\ b \in TlsfHeads(S) \ TlsfEnds
  <2>1. TlsfLike(k, S, Q, F, F, F \ {b})
    BY DEF TlsfReady
  <2> QED BY <2>1, TlsfGoodIs, TlsfLikeIs
<1>2. /\ gap - 1 \in Nat /\ gap - 1 >= TwoLevel!block_size_min /\ gap - 1 <= gap /\ gap - 1 # gap
      /\ b \in Nat /\ b + 1 + (gap - 1) = b + gap /\ TwoLevel!HeaderUnits = 4 /\ S[b] \in Nat
  <2>1. b \in Nat /\ S[b] \in Nat
    BY <1>1, TlsfTiledIs
  <2> QED BY <2>1 DEF TwoLevel!HeaderUnits, TwoLevel!block_size_min
<1>3. TwoLevel!CanSplit(k, b, gap)
  BY <1>1, <1>2 DEF TwoLevel!CanSplit
<1> DEFINE r == b + gap
           s == [TwoLevel!Link(TwoLevel!SplitOff(k, b, gap - 1), b) EXCEPT !.prevFree = @ \union {r}]
           E == F \union {r}
<1>4. PICK T : TlsfCutAt(S, T, b, gap - 1, r)
  <2>1. \E T : TlsfCutAt(S, T, b, gap - 1, b + 1 + (gap - 1))
    BY <1>1, <1>2, <1>3, TlsfCanCut
  <2> QED BY <2>1, <1>2
<1>5. TwoLevel!TrimFree(k, b, gap, gap - 1) = TwoLevel!Enlist(s, b)
  BY <1>2, <1>3 DEF TwoLevel!TrimFree
<1> HIDE DEF r
<1>6. /\ TlsfTiled(T, Q) /\ TlsfHeads(T) = TlsfHeads(S) \union {r} /\ r \notin TlsfHeads(S) /\ r \notin TlsfEnds
      /\ TlsfNx(T, b) = r /\ TlsfNx(T, r) = TlsfNx(S, b)
      /\ \A x \in TlsfHeads(S) \ {b} : TlsfNx(T, x) = TlsfNx(S, x)
  BY <1>1, <1>4, TlsfCutIs
<1>7. TlsfLike(s, T, Q, E, E, F \ {b})
  <2>1. F \union {b, r} = E
    OBVIOUS
  <2>2. TlsfLike(s, T, Q, F \union {r}, F \union {b, r}, F \ {b})
    BY <1>1, <1>4, TlsfLikeParted
  <2> QED BY <2>1, <2>2
<1> HIDE DEF s
<1>8. TlsfLike(TwoLevel!Enlist(s, b), T, Q, E, E, E \ {r})
  <2>1. b \in TlsfHeads(T) \ TlsfEnds /\ b \notin F \ {b} /\ (F \ {b}) \union {b} = E \ {r}
    BY <1>1, <1>6
  <2> HIDE DEF E
  <2> QED BY <2>1, <1>6, <1>7, TlsfLikeEnlisted
<1>9. ASSUME NEW x \in E, TlsfNx(T, x) \in E PROVE TlsfNx(T, x) = r
  <2>1. CASE x = r
    <3>1. TlsfNx(T, x) = TlsfNx(S, b) /\ TlsfNx(S, b) \notin F
      BY <2>1, <1>6, <1>1
    <3> QED BY <3>1, <1>9
  <2>2. CASE x = b
    BY <2>2, <1>6
  <2>3. CASE x # r /\ x # b
    <3>1. x \in F /\ TlsfNx(T, x) = TlsfNx(S, x) /\ TlsfNx(S, x) \notin F
      BY <2>3, <1>6, <1>1
    <3> QED BY <3>1, <1>9
  <2> QED BY <2>1, <2>2, <2>3
<1>10. r \in E
  OBVIOUS
<1>11. TlsfUsed(T, E) = TlsfUsed(S, F)
  BY <1>6 DEF TlsfUsed
<1> HIDE DEF E
<1>12. TlsfReady(TwoLevel!Enlist(s, b), T, Q, E, r)
  BY <1>6, <1>8, <1>9, <1>10 DEF TlsfReady
<1> QED BY <1>5, <1>11, <1>12 DEF E, r
-----------------------------------------------------------------------------
(* The pools come and go. *)

\* The sizes T are S and those of the pool p up to z.
TlsfPoolLaid(S, T, p, z) == T = [S EXCEPT ![p] = z - p - 1, ![z] = 0]

LEMMA TlsfPoolAdded ==
  ASSUME NEW S, NEW Q, TlsfTiled(S, Q), NEW p \in TwoLevel!Pool, p \notin Q, NEW z, z = TwoLevel!Sentinel(p),
         NEW T, TlsfPoolLaid(S, T, p, z)
  PROVE  /\ TlsfTiled(T, Q \union {p}) /\ TlsfHeads(T) = TlsfHeads(S) \union {p, z}
         /\ p \notin TlsfHeads(S) /\ z \notin TlsfHeads(S) /\ p \notin TlsfEnds /\ z \in TlsfEnds
         /\ TlsfNx(T, p) = z /\ z \in TwoLevel!Cell /\ p \in TwoLevel!Cell
         /\ \A x \in TlsfHeads(S) : T[x] = S[x] /\ TlsfNx(T, x) = TlsfNx(S, x)
<1>1. /\ p \in {0, Split} /\ p \in Nat /\ z \in Nat /\ p \in TwoLevel!Cell /\ z \in TwoLevel!Cell /\ p + 4 <= z
      /\ p \notin TlsfEnds /\ z \in TlsfEnds /\ TwoLevel!None \notin Nat
      /\ \A q \in TwoLevel!Pool : q # p => (q < p /\ TwoLevel!Sentinel(q) < p) \/ (q > p /\ q > z)
  BY TlsfConsts DEF TwoLevel!Pool, TwoLevel!Cell, TwoLevel!Sentinel, TlsfEnds, TwoLevel!None
<1>2. ASSUME NEW b \in TlsfHeads(S) PROVE b # p /\ b # z /\ b \in Nat /\ (b < p \/ z < b)
  <2>1. PICK q \in Q : q <= b /\ b <= TwoLevel!Sentinel(q)
    BY TlsfTiledIs
  <2>2. q \in TwoLevel!Pool /\ q # p /\ b \in Nat /\ TwoLevel!Sentinel(q) \in Nat /\ q \in Nat
    BY TlsfTiledIs, TlsfConsts DEF TwoLevel!Pool, TwoLevel!Sentinel
  <2> QED BY <1>1, <2>1, <2>2
<1>3. S \in [TwoLevel!Cell -> TwoLevel!Cell \union {TwoLevel!None}] /\ Q \subseteq TwoLevel!Pool /\ TlsfHeads(S) \subseteq TwoLevel!Cell
  BY TlsfTiledIs
<1>4. /\ T \in [TwoLevel!Cell -> TwoLevel!Cell \union {TwoLevel!None}] /\ T[p] = z - p - 1 /\ T[z] = 0
      /\ \A x \in TwoLevel!Cell \ {p, z} : T[x] = S[x]
  <2>1. z - p - 1 \in TwoLevel!Cell /\ 0 \in TwoLevel!Cell /\ p # z
    BY <1>1, TlsfConsts DEF TwoLevel!Cell
  <2>2. T = [S EXCEPT ![p] = z - p - 1, ![z] = 0]
    BY DEF TlsfPoolLaid
  <2> QED BY <2>1, <2>2, <1>1, <1>3
<1>5. TlsfHeads(T) = TlsfHeads(S) \union {p, z}
  <2>1. T[p] # TwoLevel!None /\ T[z] # TwoLevel!None
    BY <1>1, <1>4
  <2>2. ASSUME NEW x \in TwoLevel!Cell PROVE T[x] # TwoLevel!None <=> x \in TlsfHeads(S) \union {p, z}
    <3>1. CASE x \in {p, z}
      BY <3>1, <2>1
    <3>2. CASE x \notin {p, z}
      BY <3>2, <1>4 DEF TlsfHeads
    <3> QED BY <3>1, <3>2
  <2>3. TlsfHeads(T) = {x \in TwoLevel!Cell : x \in TlsfHeads(S) \union {p, z}}
    BY <2>2 DEF TlsfHeads
  <2> QED BY <2>3, <1>1, <1>3
<1>6. TlsfNx(T, p) = z
  BY <1>1, <1>4 DEF TlsfNx
<1>7. ASSUME NEW x \in TlsfHeads(S) PROVE T[x] = S[x] /\ TlsfNx(T, x) = TlsfNx(S, x)
  <2>1. x \in TwoLevel!Cell \ {p, z}
    BY <1>2, <1>3
  <2> QED BY <2>1, <1>4 DEF TlsfNx
<1>8. TlsfTiled(T, Q \union {p})
  <2>1. Q \union {p} \subseteq TwoLevel!Pool
    BY <1>3
  <2>2. ASSUME NEW q \in Q \union {p}
        PROVE  q \in TlsfHeads(T) /\ TwoLevel!Sentinel(q) \in TlsfHeads(T) /\ T[TwoLevel!Sentinel(q)] = 0
    <3>1. CASE q = p
      BY <3>1, <1>4, <1>5
    <3>2. CASE q # p
      <4>1. q \in TlsfHeads(S) /\ TwoLevel!Sentinel(q) \in TlsfHeads(S) /\ S[TwoLevel!Sentinel(q)] = 0
        BY <3>2, TlsfTiledIs
      <4> QED BY <4>1, <1>5, <1>7
    <3> QED BY <3>1, <3>2
  <2>3. ASSUME NEW x \in TlsfHeads(T) PROVE \E q \in Q \union {p} : q <= x /\ x <= TwoLevel!Sentinel(q)
    <3>1. CASE x \in TlsfHeads(S)
      BY <3>1, TlsfTiledIs
    <3>2. CASE x \in {p, z}
      BY <3>2, <1>1
    <3> QED BY <3>1, <3>2, <1>5
  <2>4. ASSUME NEW x \in TlsfHeads(T) \ TlsfEnds PROVE TlsfLies(T, x)
    <3>1. CASE x = p
      <4>1. T[p] >= TwoLevel!block_size_min
        BY <1>1, <1>4 DEF TwoLevel!block_size_min
      <4>2. ASSUME NEW c \in TlsfHeads(T), p < c PROVE z <= c
        <5>1. CASE c \in {p, z}
          BY <5>1, <4>2, <1>1
        <5>2. CASE c \in TlsfHeads(S)
          BY <5>2, <4>2, <1>1, <1>2
        <5> QED BY <5>1, <5>2, <1>5
      <4> QED BY <4>1, <4>2, <3>1, <1>5, <1>6 DEF TlsfLies
    <3>2. CASE x # p
      <4>1. x \in TlsfHeads(S) \ TlsfEnds
        BY <3>2, <1>1, <1>5
      <4>2. PICK q \in Q : /\ q <= x /\ x < TwoLevel!Sentinel(q) /\ TlsfNx(S, x) <= TwoLevel!Sentinel(q)
                           /\ q \in {0, Split} /\ TwoLevel!Sentinel(q) \in Nat
        BY <4>1, TlsfInPool
      <4>3. S[x] >= TwoLevel!block_size_min /\ TlsfNx(S, x) \in TlsfHeads(S) /\ TlsfNx(S, x) \in Nat
            /\ \A c \in TlsfHeads(S) : x < c => TlsfNx(S, x) <= c
        BY <4>1, TlsfTiledIs DEF TlsfLies
      <4>4. ASSUME NEW c \in {p, z}, x < c PROVE TlsfNx(S, x) <= c
        <5>1. q \in TwoLevel!Pool /\ q # p /\ x \in Nat
          BY <4>1, <1>3, <1>2
        <5> QED BY <5>1, <4>2, <4>3, <4>4, <1>1
      <4> QED BY <4>1, <4>3, <4>4, <1>5, <1>7 DEF TlsfLies
    <3> QED BY <3>1, <3>2
  <2> QED BY <1>4, <2>1, <2>2, <2>3, <2>4 DEF TlsfTiled
<1> QED BY <1>1, <1>2, <1>5, <1>6, <1>7, <1>8

\* g is f, and nothing is at p and z.
TlsfBlanked(f, g, p, z) == g = [c \in TwoLevel!Cell |-> IF c \in {p, z} THEN TwoLevel!None ELSE f[c]]

LEMMA TlsfPoolRemoved ==
  ASSUME NEW S, NEW Q, TlsfTiled(S, Q), NEW p \in Q, NEW z, z = TwoLevel!Sentinel(p), TlsfNx(S, p) = z,
         NEW T, TlsfBlanked(S, T, p, z)
  PROVE  /\ TlsfTiled(T, Q \ {p}) /\ TlsfHeads(T) = TlsfHeads(S) \ {p, z} /\ z \in TlsfEnds
         /\ p \in TlsfHeads(S) \ TlsfEnds /\ p # z
         /\ \A x \in TlsfHeads(T) : T[x] = S[x] /\ TlsfNx(T, x) = TlsfNx(S, x)
         /\ \A x \in TlsfHeads(T) \ TlsfEnds : TlsfNx(S, x) # p /\ TlsfNx(S, x) # z
<1>1. /\ S \in [TwoLevel!Cell -> TwoLevel!Cell \union {TwoLevel!None}] /\ Q \subseteq TwoLevel!Pool /\ TlsfHeads(S) \subseteq TwoLevel!Cell
      /\ p \in TlsfHeads(S) \ TlsfEnds /\ z \in TlsfHeads(S) /\ z \in TlsfEnds /\ p < z /\ p \in Nat /\ z \in Nat
      /\ \A c \in TlsfHeads(S) : c \in Nat /\ (p < c => z <= c)
  BY TlsfTiledIs DEF TlsfLies
<1>2. T \in [TwoLevel!Cell -> TwoLevel!Cell \union {TwoLevel!None}] /\ \A x \in TwoLevel!Cell : T[x] = IF x \in {p, z} THEN TwoLevel!None ELSE S[x]
  BY <1>1 DEF TlsfBlanked
<1>3. TlsfHeads(T) = TlsfHeads(S) \ {p, z}
  BY <1>1, <1>2 DEF TlsfHeads
<1>4. ASSUME NEW x \in TlsfHeads(T) PROVE T[x] = S[x] /\ TlsfNx(T, x) = TlsfNx(S, x)
  BY <1>1, <1>2, <1>3 DEF TlsfNx
<1>5. ASSUME NEW x \in TlsfHeads(T) \ TlsfEnds PROVE TlsfNx(S, x) # p /\ TlsfNx(S, x) # z
  <2>1. x \in TlsfHeads(S) \ TlsfEnds /\ x # p
    BY <1>3
  <2>2. TlsfNx(S, x) # TlsfNx(S, p)
    BY <2>1, <1>1, TlsfNextOnce
  <2>3. TlsfNx(S, x) # p
    BY <2>1, <1>1, TlsfPoolFollowsNone
  <2> QED BY <2>2, <2>3
<1>6. TlsfTiled(T, Q \ {p})
  <2>1. ASSUME NEW q \in Q \ {p}
        PROVE  q \in TlsfHeads(T) /\ TwoLevel!Sentinel(q) \in TlsfHeads(T) /\ T[TwoLevel!Sentinel(q)] = 0
    <3>1. /\ q \in TlsfHeads(S) /\ TwoLevel!Sentinel(q) \in TlsfHeads(S) /\ S[TwoLevel!Sentinel(q)] = 0
          /\ q \notin TlsfEnds /\ TwoLevel!Sentinel(q) \in TlsfEnds
      BY TlsfTiledIs
    <3>2. TwoLevel!Sentinel(q) # z
      BY <1>1, TlsfConsts DEF TwoLevel!Pool, TwoLevel!Sentinel
    <3>3. q \in TlsfHeads(T) /\ TwoLevel!Sentinel(q) \in TlsfHeads(T)
      BY <3>1, <3>2, <1>1, <1>3
    <3> QED BY <3>1, <3>3, <1>4
  <2>2. ASSUME NEW x \in TlsfHeads(T) PROVE \E q \in Q \ {p} : q <= x /\ x <= TwoLevel!Sentinel(q)
    <3>1. PICK q \in Q : q <= x /\ x <= TwoLevel!Sentinel(q)
      BY <1>3, TlsfTiledIs
    <3>2. q # p
      <4>1. x \in Nat /\ x # p /\ x # z /\ (p < x => z <= x)
        BY <1>1, <1>3
      <4> QED BY <4>1, <3>1, <1>1
    <3> QED BY <3>1, <3>2
  <2>3. ASSUME NEW x \in TlsfHeads(T) \ TlsfEnds PROVE TlsfLies(T, x)
    <3>1. x \in TlsfHeads(S) \ TlsfEnds
      BY <1>3
    <3>2. S[x] >= TwoLevel!block_size_min /\ TlsfNx(S, x) \in TlsfHeads(S)
          /\ \A c \in TlsfHeads(S) : x < c => TlsfNx(S, x) <= c
      BY <3>1, TlsfTiledIs DEF TlsfLies
    <3> QED BY <3>1, <3>2, <1>3, <1>4, <1>5 DEF TlsfLies
  <2>4. Q \ {p} \subseteq TwoLevel!Pool
    BY <1>1
  <2> QED BY <1>2, <2>1, <2>2, <2>3, <2>4 DEF TlsfTiled
<1> QED BY <1>1, <1>3, <1>4, <1>5, <1>6

-----------------------------------------------------------------------------
(* Sizes, alignments and gaps. *)

LEMMA TlsfAdjustedIs ==
  ASSUME NEW size \in Nat
  PROVE  TwoLevel!Adjusted(size, 1) \in Nat /\ (TwoLevel!Adjusted(size, 1) # 0 => TwoLevel!Adjusted(size, 1) >= TwoLevel!block_size_min)
<1>1. (size + 3) \div 4 \in Nat
  OBVIOUS
<1>2. TwoLevel!AlignUp((size + 3) \div 4, 1) = (size + 3) \div 4
  BY <1>1, TlsfAlignUpByOne
<1> QED BY <1>1, <1>2 DEF TwoLevel!Adjusted, TwoLevel!block_size_min

\* What tlsf_memalign looks for.
LEMMA TlsfWithGapIs ==
  ASSUME NEW n \in Nat, NEW a \in Nat \ {0}, NEW g, g = TwoLevel!Adjusted(4 * (n + a + TwoLevel!HeaderUnits), a), g # 0
  PROVE  g \in Nat /\ n + a + TwoLevel!HeaderUnits <= g
<1> DEFINE x == n + a + TwoLevel!HeaderUnits
<1>1. x \in Nat
  BY DEF TwoLevel!HeaderUnits
<1> HIDE DEF x
<1>2. (4 * x + 3) \div 4 = x /\ 4 * x \in Nat
  BY <1>1
<1>3. TwoLevel!AlignUp(x, a) \in Nat /\ x <= TwoLevel!AlignUp(x, a)
  BY <1>1, TlsfAlignUpIs
<1>4. g = TwoLevel!AlignUp(x, a) \/ (g = TwoLevel!block_size_min /\ TwoLevel!AlignUp(x, a) < TwoLevel!block_size_min)
  <2>1. g = TwoLevel!Adjusted(4 * x, a)
    BY DEF x
  <2> QED BY <2>1, <1>2 DEF TwoLevel!Adjusted
<1>5. g \in Nat /\ x <= g
  BY <1>1, <1>3, <1>4 DEF TwoLevel!block_size_min
<1> QED BY <1>5 DEF x

LEMMA TlsfAlignUpOfMultiple ==
  ASSUME NEW k \in Nat, NEW a \in Nat \ {0}
  PROVE  TwoLevel!AlignUp(k * a, a) = k * a
<1> DEFINE n == k * a + a - 1
<1>1. n \in Nat /\ k * a <= n /\ k * a \in Nat
  OBVIOUS
<1>2. (k + 1) * a = k * a + a
  OBVIOUS
<1>3. n < (k + 1) * a
  BY <1>1, <1>2
<1> HIDE DEF n
<1>4. k <= n \div a /\ n \div a < k + 1 /\ n \div a \in Nat
  BY <1>1, <1>3, TlsfDivBetween, TlsfDivIs
<1>5. n \div a = k
  BY <1>4
<1> QED BY <1>5 DEF TwoLevel!AlignUp, n

LEMMA TlsfGapIs ==
  ASSUME NEW b \in Nat, NEW a \in Nat \ {0}
  PROVE  /\ TwoLevel!Gap(b, a) \in Nat /\ (TwoLevel!Gap(b, a) = 0 \/ TwoLevel!Gap(b, a) >= TwoLevel!HeaderUnits)
         /\ TwoLevel!Gap(b, a) <= a + 3 /\ (b + 1 + TwoLevel!Gap(b, a)) % a = 0
<1> DEFINE near == TwoLevel!AlignUp(b + 1, a)
           gap == near - (b + 1)
           step == IF TwoLevel!HeaderUnits - gap > a THEN TwoLevel!HeaderUnits - gap ELSE a
           next == TwoLevel!AlignUp(near + step, a)
<1>1. near \in Nat /\ b + 1 <= near /\ near <= b + 1 + a - 1 /\ near % a = 0
  BY TlsfAlignUpIs
<1>2. PICK k \in Nat : near = k * a
  <2>1. (b + 1 + a - 1) \div a \in Nat
    <3>1. b + 1 + a - 1 \in Nat
      OBVIOUS
    <3> QED BY <3>1, TlsfDivIs
  <2> QED BY <2>1 DEF TwoLevel!AlignUp
<1> HIDE DEF near
<1>3. gap \in Nat /\ gap <= a - 1 /\ b + 1 + gap = near
  BY <1>1
<1>4. CASE gap = 0 \/ gap >= TwoLevel!HeaderUnits
  <2>1. TwoLevel!Gap(b, a) = gap
    BY <1>4 DEF TwoLevel!Gap, near
  <2> HIDE DEF gap
  <2> QED BY <2>1, <1>1, <1>3, <1>4
<1>5. CASE ~(gap = 0 \/ gap >= TwoLevel!HeaderUnits)
  <2>1. TwoLevel!Gap(b, a) = next - (b + 1)
    BY <1>5 DEF TwoLevel!Gap, near
  <2> HIDE DEF gap
  <2>2. gap >= 1 /\ gap <= 3 /\ TwoLevel!HeaderUnits = 4
    BY <1>3, <1>5 DEF TwoLevel!HeaderUnits
  <2>3. step \in Nat /\ near + step \in Nat /\ gap + step >= 4
    BY <1>1, <1>3, <2>2
  <2>4. next \in Nat /\ near + step <= next /\ next <= near + step + a - 1 /\ next % a = 0
    <3> HIDE DEF step
    <3> QED BY <2>3, TlsfAlignUpIs
  <2>5. next <= near + step + (IF step = a THEN 0 ELSE a - 1)
    <3>1. CASE step = a
      <4>1. near + a = (k + 1) * a
        BY <1>2
      <4>2. k + 1 \in Nat
        BY <1>2
      <4>3. next = near + a
        <5> HIDE DEF step
        <5> QED BY <4>1, <4>2, <3>1, TlsfAlignUpOfMultiple
      <4> QED BY <4>3, <3>1, <1>1
    <3>2. CASE step # a
      <4> HIDE DEF step, next
      <4> QED BY <3>2, <2>4, <2>3, <1>1
    <3> QED BY <3>1, <3>2
  <2>6. gap + step + (IF step = a THEN 0 ELSE a - 1) <= a + 3
    BY <2>2, <1>3
  <2> HIDE DEF next, step
  <2>7. next - (b + 1) = gap + (next - near)
    BY <1>1, <1>3, <2>4
  <2>8. b + 1 + (next - (b + 1)) = next
    BY <2>4
  <2>9. next - (b + 1) \in Nat /\ next - (b + 1) >= 4 /\ next - (b + 1) <= a + 3
    <3> DEFINE e == IF step = a THEN 0 ELSE a - 1
    <3>1. e \in Nat /\ next <= near + step + e /\ gap + step + e <= a + 3
      BY <2>5, <2>6
    <3> HIDE DEF e
    <3> QED BY <3>1, <1>1, <1>3, <2>3, <2>4, <2>7
  <2> QED BY <2>1, <2>2, <2>4, <2>8, <2>9
<1> QED BY <1>4, <1>5
-----------------------------------------------------------------------------
(* The clients. *)

\* Each client has a block of its own, and they have all the blocks of U.
TlsfHeld(a, U) ==
  /\ U \subseteq TwoLevel!Cell /\ a \in [Handle -> TwoLevel!Cell \union {TwoLevel!None}]
  /\ \A h \in Handle : a[h] # TwoLevel!None => /\ a[h] \in U
                                               /\ \A k \in Handle : k # h => a[k] # a[h]
  /\ \A b \in U : \E h \in Handle : a[h] = b

TlsfBody(S, b) == IF b = TwoLevel!None THEN {} ELSE b + 1 .. b + S[b]

\* No client writes to the first unit of its neighbour's header, where that is
\* the last one of a free block.
LEMMA TlsfUntouched ==
  ASSUME NEW S, NEW Q, TlsfTiled(S, Q), NEW F, NEW x \in F, F \subseteq TlsfHeads(S) \ TlsfEnds,
         NEW b \in TlsfUsed(S, F)
  PROVE  TlsfNx(S, x) - 1 \notin TlsfBody(S, b)
<1>1. b \in TlsfHeads(S) \ TlsfEnds /\ x \in TlsfHeads(S) \ TlsfEnds /\ b # x
  BY DEF TlsfUsed
<1>2. /\ b \in Nat /\ x \in Nat /\ S[b] \in Nat /\ TlsfNx(S, b) \in Nat /\ TlsfNx(S, x) \in Nat
      /\ x < TlsfNx(S, x) /\ TlsfNx(S, b) = b + 1 + S[b]
      /\ (b < x => TlsfNx(S, b) <= x) /\ (x < b => TlsfNx(S, x) <= b)
  BY <1>1, TlsfTiledIs DEF TlsfLies, TlsfNx
<1>3. b # TwoLevel!None
  BY <1>2 DEF TwoLevel!None
<1>4. SUFFICES ASSUME TlsfNx(S, x) - 1 \in b + 1 .. b + S[b] PROVE FALSE
  BY <1>3 DEF TlsfBody
<1> QED BY <1>1, <1>2, <1>4

\* The clients overwrote what was in pv in their blocks.
TlsfOverwritten(prev, pv, S, a) ==
  pv = [c \in TwoLevel!Cell |-> IF \E g \in Handle : c - 1 \in TlsfBody(S, a[g]) THEN TwoLevel!None ELSE prev[c]]

LEMMA TlsfSettledMem ==
  ASSUME NEW m, NEW S, NEW Q, NEW F, TlsfGood(m, S, Q, F), NEW a, TlsfHeld(a, TlsfUsed(S, F)),
         NEW pv, TlsfOverwritten(m.prev, pv, S, a),
         NEW d \in TlsfDatas, NEW k, k = [m EXCEPT !.prev = pv, !.data = d]
  PROVE  TlsfGood(k, S, Q, F)
<1>1. /\ TlsfTiled(S, Q) /\ TlsfLike(m, S, Q, F, F, F) /\ F \subseteq TlsfHeads(S) \ TlsfEnds
      /\ \A x \in F : TlsfNx(S, x) \notin F
  BY TlsfGoodIs
<1>2. /\ TlsfIsMem(m) /\ m.size = S /\ m.pools = Q /\ m.free = F
      /\ TlsfMarked(m.prev, m.prevFree, S, F) /\ TlsfListed(m.lists, m.sl, m.fl, S, F)
  BY <1>1, TlsfLikeIs
<1>3. /\ m.prev \in [TwoLevel!Cell -> TwoLevel!Cell \union {TwoLevel!None}] /\ m.prevFree = {TlsfNx(S, x) : x \in F}
      /\ \A x \in F : m.prev[TlsfNx(S, x)] = x
  BY <1>2 DEF TlsfMarked
<1>4. \A c \in TwoLevel!Cell : m.prev[c] \in TwoLevel!Cell \union {TwoLevel!None}
  BY <1>3
<1>5. /\ pv \in [TwoLevel!Cell -> TwoLevel!Cell \union {TwoLevel!None}]
      /\ \A c \in TwoLevel!Cell : ~(\E g \in Handle : c - 1 \in TlsfBody(S, a[g])) => pv[c] = m.prev[c]
  BY <1>4 DEF TlsfOverwritten
<1>6. ASSUME NEW x \in F PROVE pv[TlsfNx(S, x)] = x
  <2>1. TlsfNx(S, x) \in TwoLevel!Cell
    BY <1>1, TlsfNextInCell
  <2>2. ASSUME NEW g \in Handle PROVE TlsfNx(S, x) - 1 \notin TlsfBody(S, a[g])
    <3>1. CASE a[g] = TwoLevel!None
      BY <3>1 DEF TlsfBody
    <3>2. CASE a[g] # TwoLevel!None
      <4>1. a[g] \in TlsfUsed(S, F)
        BY <3>2 DEF TlsfHeld
      <4> QED BY <4>1, <1>1, TlsfUntouched
    <3> QED BY <3>1, <3>2
  <2> QED BY <2>1, <2>2, <1>3, <1>5
<1>7. TlsfMarked(pv, m.prevFree, S, F)
  BY <1>1, <1>3, <1>5, <1>6 DEF TlsfMarked
<1>8. /\ TlsfIsMem(k) /\ k.prev = pv /\ k.data = d
      /\ k.lists = m.lists /\ k.sl = m.sl /\ k.fl = m.fl /\ k.pools = m.pools
      /\ k.size = m.size /\ k.free = m.free /\ k.prevFree = m.prevFree
  BY <1>2 DEF TlsfIsMem
<1>9. TlsfLike(k, S, Q, F, F, F)
  BY <1>1, <1>2, <1>7, <1>8 DEF TlsfLike
<1> QED BY <1>1, <1>9 DEF TlsfGood, TlsfApart

LEMMA TlsfSettledIs ==
  ASSUME NEW m, NEW S, NEW Q, NEW F, TlsfGood(m, S, Q, F), NEW a, TlsfHeld(a, TlsfUsed(S, F)),
         NEW h \in Handle, NEW kept \in Nat, TwoLevel!Settled(m, a, h, kept)
  PROVE  TlsfGood(tlsfMem', S, Q, F) /\ tlsfAt' = a /\ tlsfDenied' = <<>>
<1> DEFINE body(g) == IF a[g] = TwoLevel!None THEN {} ELSE a[g] + 1 .. a[g] + m.size[a[g]]
           all == UNION {body(g) : g \in Handle}
           new == {c \in body(h) : c > a[h] + kept}
           pv == [c \in TwoLevel!Cell |-> IF c - 1 \in all THEN TwoLevel!None ELSE m.prev[c]]
           d == [c \in TwoLevel!Cell |-> IF c \in new THEN <<h, c - a[h] + 1>>
                                ELSE IF c \in all THEN m.data[c] ELSE Nobody]
<1>1. TlsfLike(m, S, Q, F, F, F) /\ TlsfTiled(S, Q)
  BY TlsfGoodIs
<1>2. TlsfIsMem(m) /\ m.size = S /\ m.data \in TlsfDatas
  BY <1>1, TlsfLikeIs
<1>3. tlsfMem' = [m EXCEPT !.prev = pv, !.data = d] /\ tlsfAt' = a /\ tlsfDenied' = <<>>
  <2>1. tlsfMem' = [m EXCEPT !.prev = [c \in TwoLevel!Cell |-> IF c - 1 \in all THEN TwoLevel!None ELSE @[c]],
                         !.data = [c \in TwoLevel!Cell |-> IF c \in new THEN <<h, c - a[h] + 1>>
                                                  ELSE IF c \in all THEN @[c] ELSE Nobody]]
        /\ tlsfAt' = a /\ tlsfDenied' = <<>>
    BY DEF TwoLevel!Settled
  <2> HIDE DEF all, new
  <2> QED BY <2>1, <1>2 DEF TlsfIsMem
<1>4. TlsfOverwritten(m.prev, pv, S, a)
  <2>1. \A g \in Handle : body(g) = TlsfBody(S, a[g])
    BY <1>2 DEF TlsfBody
  <2>2. ASSUME NEW c PROVE c - 1 \in all <=> \E g \in Handle : c - 1 \in TlsfBody(S, a[g])
    BY <2>1
  <2>3. pv = [c \in TwoLevel!Cell |-> IF \E g \in Handle : c - 1 \in TlsfBody(S, a[g]) THEN TwoLevel!None ELSE m.prev[c]]
    <3> HIDE DEF all
    <3> QED BY <2>2
  <2> HIDE DEF pv
  <2> QED BY <2>3 DEF TlsfOverwritten
<1>5. d \in TlsfDatas
  <2>1. ASSUME NEW c \in TwoLevel!Cell, c \in new PROVE <<h, c - a[h] + 1>> \in Handle \X Nat
    <3>1. c \in body(h) /\ c > a[h] + kept
      BY <2>1
    <3>2. a[h] # TwoLevel!None
      BY <3>1
    <3>3. a[h] \in Nat /\ c \in Nat
      <4>1. a[h] \in TwoLevel!Cell
        BY <3>2 DEF TlsfHeld
      <4> QED BY <4>1, TlsfConsts DEF TwoLevel!Cell
    <3>4. c > a[h] + kept
      BY <3>1
    <3>5. c - a[h] + 1 \in Nat
      BY <3>3, <3>4
    <3> QED BY <3>5
  <2>2. \A c \in TwoLevel!Cell : m.data[c] \in {Nobody} \union (Handle \X Nat)
    BY <1>2 DEF TlsfDatas
  <2> HIDE DEF new, all
  <2> QED BY <2>1, <2>2 DEF TlsfDatas
<1>6. TlsfGood(tlsfMem', S, Q, F)
  <2> HIDE DEF pv, d
  <2> QED BY <1>3, <1>4, <1>5, TlsfSettledMem
<1> QED BY <1>3, <1>6

\* memcpy from a block: a change of data.
LEMMA TlsfCopiedIs ==
  ASSUME NEW m, NEW S, NEW Q, NEW F, TlsfGood(m, S, Q, F), NEW b \in Nat, NEW c \in Nat, NEW n \in Nat,
         b + n \in TwoLevel!Cell
  PROVE  TlsfGood(TwoLevel!Copied(m, b, c, n), S, Q, F)
<1> DEFINE d == [i \in TwoLevel!Cell |-> IF i \in c + 1 .. c + n THEN m.data[b + (i - c)] ELSE m.data[i]]
           k == TwoLevel!Copied(m, b, c, n)
<1>1. TlsfTiled(S, Q) /\ TlsfLike(m, S, Q, F, F, F) /\ TlsfApart(S, F)
  BY DEF TlsfGood
<1>2. /\ TlsfIsMem(m) /\ m.size = S /\ m.pools = Q /\ m.free = F /\ F \subseteq TlsfHeads(S) \ TlsfEnds
      /\ TlsfMarked(m.prev, m.prevFree, S, F) /\ TlsfListed(m.lists, m.sl, m.fl, S, F) /\ m.data \in TlsfDatas
  BY <1>1, TlsfLikeIs
<1>3. k = [m EXCEPT !.data = d]
  <2>1. k = [m EXCEPT !.data = [i \in TwoLevel!Cell |-> IF i \in c + 1 .. c + n THEN m.data[b + (i - c)] ELSE @[i]]]
    BY DEF TwoLevel!Copied
  <2> QED BY <2>1, <1>2 DEF TlsfIsMem
<1>4. d \in TlsfDatas
  <2>1. ASSUME NEW i \in TwoLevel!Cell, i \in c + 1 .. c + n PROVE b + (i - c) \in TwoLevel!Cell
    <3>1. b + (i - c) \in Nat /\ b + (i - c) <= b + n
      BY <2>1
    <3> QED BY <3>1, TlsfConsts DEF TwoLevel!Cell
  <2>2. \A i \in TwoLevel!Cell : m.data[i] \in {Nobody} \union (Handle \X Nat)
    BY <1>2 DEF TlsfDatas
  <2> QED BY <2>1, <2>2 DEF TlsfDatas
<1> HIDE DEF d, k
<1>5. /\ TlsfIsMem(k) /\ k.prev = m.prev /\ k.data = d
      /\ k.lists = m.lists /\ k.sl = m.sl /\ k.fl = m.fl /\ k.pools = m.pools
      /\ k.size = m.size /\ k.free = m.free /\ k.prevFree = m.prevFree
  BY <1>2, <1>3 DEF TlsfIsMem
<1>6. TlsfLike(k, S, Q, F, F, F)
  BY <1>2, <1>4, <1>5 DEF TlsfLike
<1>7. TlsfGood(k, S, Q, F)
  BY <1>1, <1>6 DEF TlsfGood
<1> QED BY <1>7 DEF k

LEMMA TlsfHeldGiven ==
  ASSUME NEW a, NEW U, TlsfHeld(a, U), NEW b \in TwoLevel!Cell, b \notin U, NEW h \in Handle, a[h] = TwoLevel!None
  PROVE  TlsfHeld([a EXCEPT ![h] = b], U \union {b})
<1> DEFINE c == [a EXCEPT ![h] = b]
<1>1. /\ U \subseteq TwoLevel!Cell /\ a \in [Handle -> TwoLevel!Cell \union {TwoLevel!None}]
      /\ \A g \in Handle : a[g] # TwoLevel!None => a[g] \in U /\ \A k \in Handle : k # g => a[k] # a[g]
      /\ \A x \in U : \E g \in Handle : a[g] = x
  BY DEF TlsfHeld
<1>2. b # TwoLevel!None /\ TwoLevel!None \notin TwoLevel!Cell
  BY TlsfConsts DEF TwoLevel!Cell, TwoLevel!None
<1>3. c \in [Handle -> TwoLevel!Cell \union {TwoLevel!None}] /\ c[h] = b /\ \A g \in Handle \ {h} : c[g] = a[g]
  BY <1>1
<1> HIDE DEF c
<1>4. ASSUME NEW g \in Handle, c[g] # TwoLevel!None
      PROVE  c[g] \in U \union {b} /\ \A k \in Handle : k # g => c[k] # c[g]
  <2>1. CASE g = h
    <3>1. ASSUME NEW k \in Handle, k # h PROVE a[k] # b
      BY <1>1, <1>2
    <3> QED BY <2>1, <3>1, <1>3
  <2>2. CASE g # h
    BY <2>2, <1>1, <1>3, <1>4
  <2> QED BY <2>1, <2>2
<1>5. ASSUME NEW x \in U \union {b} PROVE \E g \in Handle : c[g] = x
  <2>1. CASE x = b
    BY <2>1, <1>3
  <2>2. CASE x # b
    <3>1. PICK g \in Handle : a[g] = x
      BY <2>2, <1>1
    <3>2. CASE g = h
      <4>1. x \in U /\ x = TwoLevel!None
        BY <3>1, <3>2, <2>2
      <4> QED BY <4>1, <1>1, <1>2
    <3>3. CASE g # h
      BY <3>1, <3>3, <1>3
    <3> QED BY <3>2, <3>3
  <2> QED BY <2>1, <2>2
<1>6. TlsfHeld(c, U \union {b})
  BY <1>1, <1>3, <1>4, <1>5 DEF TlsfHeld
<1> QED BY <1>6 DEF c

LEMMA TlsfHeldBack ==
  ASSUME NEW a, NEW U, TlsfHeld(a, U), NEW h \in Handle, a[h] # TwoLevel!None
  PROVE  TlsfHeld([a EXCEPT ![h] = TwoLevel!None], U \ {a[h]})
BY DEF TlsfHeld

LEMMA TlsfHeldMoved ==
  ASSUME NEW a, NEW U, TlsfHeld(a, U), NEW h \in Handle, a[h] # TwoLevel!None, NEW b \in TwoLevel!Cell, b \notin U
  PROVE  TlsfHeld([a EXCEPT ![h] = b], (U \union {b}) \ {a[h]})
BY DEF TlsfHeld, TwoLevel!None, TwoLevel!Cell

LEMMA TlsfNothing == TlsfGood(TwoLevel!Constructed, TwoLevel!Constructed.size, {}, {}) /\ TlsfUsed(TwoLevel!Constructed.size, {}) = {}
<1> DEFINE S == [c \in TwoLevel!Cell |-> TwoLevel!None]
           N == [c \in TwoLevel!Cell |-> Nobody]
           L == [c \in TwoLevel!ClassIndex |-> <<>>]
           m == TwoLevel!Constructed
<1>1. m = [fl |-> {}, sl |-> {}, lists |-> L, pools |-> {}, size |-> S, prev |-> S,
           free |-> {}, prevFree |-> {}, data |-> N]
  BY DEF TwoLevel!Constructed
<1> HIDE DEF m
<1>2. /\ S \in [TwoLevel!Cell -> TwoLevel!Cell \union {TwoLevel!None}] /\ N \in TlsfDatas /\ TlsfHeads(S) = {}
      /\ L \in [TwoLevel!ClassIndex -> Seq(TwoLevel!Cell)]
  BY DEF TlsfDatas, TlsfHeads
<1>3. \A c \in TwoLevel!ClassIndex : L[c] = <<>>
  OBVIOUS
<1> HIDE DEF S, N, L
<1>4. /\ TlsfIsMem(m) /\ m.fl = {} /\ m.sl = {} /\ m.lists = L /\ m.pools = {} /\ m.size = S /\ m.prev = S
      /\ m.free = {} /\ m.prevFree = {} /\ m.data = N
  BY <1>1 DEF TlsfIsMem
<1>5. TlsfTiled(S, {})
  BY <1>2 DEF TlsfTiled
<1>6. TlsfMarked(S, {}, S, {})
  BY <1>2 DEF TlsfMarked
<1>7. TlsfListed(L, {}, {}, S, {})
  BY <1>2, <1>3 DEF TlsfListed, TwoLevel!IsInjective, TwoLevel!Range
<1>8. TlsfLike(m, S, {}, {}, {}, {})
  BY <1>2, <1>4, <1>6, <1>7 DEF TlsfLike
<1>9. TlsfGood(m, S, {}, {}) /\ TlsfUsed(S, {}) = {}
  BY <1>2, <1>5, <1>8 DEF TlsfGood, TlsfApart, TlsfUsed
<1> QED BY <1>4, <1>9 DEF m
LEMMA TlsfMarkedSame ==
  ASSUME NEW S, NEW T, NEW prev, NEW pf, NEW P, TlsfMarked(prev, pf, S, P),
         P \subseteq TlsfHeads(T) \ TlsfEnds, \A x \in P : TlsfNx(T, x) = TlsfNx(S, x)
  PROVE  TlsfMarked(prev, pf, T, P)
<1>1. /\ prev \in [TwoLevel!Cell -> TwoLevel!Cell \union {TwoLevel!None}]
      /\ pf = {TlsfNx(S, x) : x \in P} /\ \A x \in P : prev[TlsfNx(S, x)] = x
  BY DEF TlsfMarked
<1>2. pf = {TlsfNx(T, x) : x \in P}
  BY <1>1
<1> QED BY <1>1, <1>2 DEF TlsfMarked

LEMMA TlsfAddedIs ==
  ASSUME NEW m, NEW S, NEW Q, NEW F, TlsfGood(m, S, Q, F), NEW p \in TwoLevel!Pool, p \notin Q,
         NEW z, z = TwoLevel!Sentinel(p), NEW T, TlsfPoolLaid(S, T, p, z),
         NEW j, TlsfIsMem(j), j.pools = Q \union {p}, j.free = F \union {p}, j.size = T,
         j.prevFree = m.prevFree \union {z},
         j.fl = m.fl, j.sl = m.sl, j.lists = m.lists, j.prev = m.prev, j.data = m.data
  PROVE  /\ TlsfGood(TwoLevel!Enlist(TwoLevel!Link(j, p), p), T, Q \union {p}, F \union {p})
         /\ TlsfUsed(T, F \union {p}) = TlsfUsed(S, F)
<1> DEFINE G == F \union {p}
           R == Q \union {p}
           k == TwoLevel!Link(j, p)
<1>1. /\ TlsfTiled(S, Q) /\ TlsfLike(m, S, Q, F, F, F) /\ F \subseteq TlsfHeads(S) \ TlsfEnds
      /\ \A x \in F : TlsfNx(S, x) \notin F
  BY TlsfGoodIs
<1>2. /\ TlsfMarked(m.prev, m.prevFree, S, F) /\ TlsfListed(m.lists, m.sl, m.fl, S, F) /\ m.data \in TlsfDatas
  BY <1>1, TlsfLikeIs
<1>3. /\ TlsfTiled(T, R) /\ TlsfHeads(T) = TlsfHeads(S) \union {p, z}
      /\ p \notin TlsfHeads(S) /\ z \notin TlsfHeads(S) /\ p \notin TlsfEnds /\ z \in TlsfEnds
      /\ TlsfNx(T, p) = z /\ z \in TwoLevel!Cell /\ p \in TwoLevel!Cell
      /\ \A x \in TlsfHeads(S) : T[x] = S[x] /\ TlsfNx(T, x) = TlsfNx(S, x)
  <2>1. /\ TlsfTiled(S, Q) /\ p \in TwoLevel!Pool /\ p \notin Q /\ z = TwoLevel!Sentinel(p)
        /\ TlsfPoolLaid(S, T, p, z)
    BY <1>1
  <2> QED BY ONLY <2>1, TlsfPoolAdded, SMTT(20)
<1>4. /\ F \subseteq TlsfHeads(T) \ TlsfEnds /\ p \in TlsfHeads(T) \ TlsfEnds /\ p \notin F
      /\ F \subseteq TlsfHeads(T) /\ \A x \in F : T[x] = S[x] /\ TlsfNx(T, x) = TlsfNx(S, x)
      /\ \A x \in F : TlsfNx(S, x) \in TlsfHeads(S)
  BY <1>1, <1>3, TlsfTiledIs DEF TlsfLies
<1>5. TlsfMarked(m.prev, m.prevFree, T, F)
  <2>1. \A x \in F : TlsfNx(T, x) = TlsfNx(S, x)
    BY <1>4
  <2> QED BY <1>2, <1>4, <2>1, TlsfMarkedSame
<1>6. TlsfMarked([m.prev EXCEPT ![z] = p], m.prevFree \union {z}, T, G)
  BY <1>3, <1>4, <1>5, TlsfMarkedMore
<1>7. TlsfListed(m.lists, m.sl, m.fl, T, F)
  <2>1. \A x \in F : T[x] = S[x]
    BY <1>4
  <2> QED BY <1>2, <1>4, <2>1, TlsfListedSame
<1>8. TwoLevel!NextOf(j, p) = z
  BY <1>3 DEF TwoLevel!NextOf, TlsfNx
<1>9. /\ TlsfIsMem(k) /\ k.prev = [m.prev EXCEPT ![z] = p] /\ k.data \in TlsfDatas
      /\ k.lists = m.lists /\ k.sl = m.sl /\ k.fl = m.fl /\ k.pools = R
      /\ k.size = T /\ k.free = G /\ k.prevFree = m.prevFree \union {z}
  <2>1. j.data \in TlsfDatas
    BY <1>2
  <2>2. /\ TlsfIsMem(k) /\ k.prev = [j.prev EXCEPT ![TwoLevel!NextOf(j, p)] = p] /\ k.data \in TlsfDatas
        /\ k.lists = j.lists /\ k.sl = j.sl /\ k.fl = j.fl /\ k.pools = j.pools
        /\ k.size = j.size /\ k.free = j.free /\ k.prevFree = j.prevFree
    BY <2>1, TlsfLinkIs
  <2> QED BY <2>2, <1>8
<1> HIDE DEF k
<1>10. G \subseteq TlsfHeads(T) \ TlsfEnds
  BY <1>4
<1>11. TlsfLike(k, T, R, G, G, F)
  BY <1>6, <1>7, <1>9, <1>10 DEF TlsfLike
<1>12. TlsfLike(TwoLevel!Enlist(k, p), T, R, G, G, G)
  BY <1>3, <1>4, <1>11, TlsfLikeEnlisted
<1>13. TlsfApart(T, G)
  <2>1. ASSUME NEW x \in F PROVE TlsfNx(T, x) \notin G
    BY <1>1, <1>3, <1>4
  <2>2. z \notin G
    BY <1>3, <1>4
  <2> QED BY <2>1, <2>2, <1>3 DEF TlsfApart
<1>14. TlsfUsed(T, G) = TlsfUsed(S, F)
  BY <1>3, <1>1 DEF TlsfUsed
<1>15. TlsfGood(TwoLevel!Enlist(k, p), T, R, G)
  BY <1>3, <1>12, <1>13 DEF TlsfGood
<1> QED BY <1>14, <1>15 DEF k

LEMMA TlsfRemovedIs ==
  ASSUME NEW m, NEW S, NEW Q, NEW F, TlsfGood(m, S, Q, F), NEW p \in Q, p \in F,
         NEW z, z = TwoLevel!Sentinel(p), TlsfNx(S, p) = z,
         NEW T, TlsfBlanked(S, T, p, z),
         NEW k, k = TwoLevel!Unlist(m, p),
         NEW j, TlsfIsMem(j), j.pools = Q \ {p}, j.free = F \ {p, z}, j.size = T,
         j.prevFree = k.prevFree \ {p, z},
         TlsfBlanked(k.prev, j.prev, p, z),
         j.fl = k.fl, j.sl = k.sl, j.lists = k.lists, j.data = k.data
  PROVE  \E G : TlsfGood(j, T, Q \ {p}, G) /\ TlsfUsed(T, G) = TlsfUsed(S, F)
<1> DEFINE G == F \ {p}
           R == Q \ {p}
<1>1. /\ TlsfTiled(S, Q) /\ TlsfLike(m, S, Q, F, F, F) /\ F \subseteq TlsfHeads(S) \ TlsfEnds /\ m.size = S
      /\ \A x \in F : TlsfNx(S, x) \notin F
  BY TlsfGoodIs
<1>2. TlsfLike(k, S, Q, F, F, G)
  <2>1. k = TwoLevel!RemoveFrom(m, p, TwoLevel!Class(S[p]))
    BY <1>1 DEF TwoLevel!Unlist
  <2> QED BY <2>1, <1>1, TlsfLikeUnlisted
<1>3. /\ TlsfMarked(k.prev, k.prevFree, S, F) /\ TlsfListed(k.lists, k.sl, k.fl, S, G) /\ k.data \in TlsfDatas
  BY <1>2, TlsfLikeIs
<1>4. /\ TlsfTiled(T, R) /\ TlsfHeads(T) = TlsfHeads(S) \ {p, z} /\ z \in TlsfEnds
      /\ p \in TlsfHeads(S) \ TlsfEnds /\ p # z
      /\ \A x \in TlsfHeads(T) : T[x] = S[x] /\ TlsfNx(T, x) = TlsfNx(S, x)
      /\ \A x \in TlsfHeads(T) \ TlsfEnds : TlsfNx(S, x) # p /\ TlsfNx(S, x) # z
  <2>1. TlsfTiled(S, Q) /\ p \in Q /\ z = TwoLevel!Sentinel(p) /\ TlsfNx(S, p) = z /\ TlsfBlanked(S, T, p, z)
    BY <1>1
  <2> QED BY ONLY <2>1, TlsfPoolRemoved
<1>5. /\ G \subseteq TlsfHeads(T) \ TlsfEnds /\ F \ {p, z} = G
  BY <1>1, <1>4
<1>6. /\ k.prev \in [TwoLevel!Cell -> TwoLevel!Cell \union {TwoLevel!None}]
      /\ k.prevFree = {TlsfNx(S, x) : x \in F} /\ \A x \in F : k.prev[TlsfNx(S, x)] = x
  BY <1>3 DEF TlsfMarked
<1>7. TlsfMarked(j.prev, j.prevFree, T, G)
  <2>1. \A c \in TwoLevel!Cell : k.prev[c] \in TwoLevel!Cell \union {TwoLevel!None}
    BY <1>6
  <2>2. j.prev = [c \in TwoLevel!Cell |-> IF c \in {p, z} THEN TwoLevel!None ELSE k.prev[c]]
    BY DEF TlsfBlanked
  <2>5. j.prev \in [TwoLevel!Cell -> TwoLevel!Cell \union {TwoLevel!None}]
    BY <2>1, <2>2
  <2>3. ASSUME NEW x \in G PROVE j.prev[TlsfNx(T, x)] = x
    <3>1. x \in TlsfHeads(T) \ TlsfEnds /\ x \in F
      BY <1>5
    <3>2. TlsfNx(T, x) = TlsfNx(S, x) /\ TlsfNx(S, x) \notin {p, z} /\ k.prev[TlsfNx(S, x)] = x
      BY <3>1, <1>4, <1>6
    <3>3. TlsfNx(T, x) \in TwoLevel!Cell
      BY <3>1, <1>4, TlsfNextInCell
    <3> QED BY <3>2, <3>3, <2>2
  <2>4. j.prevFree = {TlsfNx(T, x) : x \in G}
    <3>1. ASSUME NEW x \in G PROVE TlsfNx(T, x) = TlsfNx(S, x) /\ TlsfNx(S, x) \notin {p, z}
      <4>1. x \in TlsfHeads(T) \ TlsfEnds
        BY <1>5
      <4> QED BY <4>1, <1>4
    <3>2. TlsfNx(S, p) = z
      OBVIOUS
    <3> QED BY <3>1, <3>2, <1>6
  <2> QED BY <1>5, <2>5, <2>3, <2>4 DEF TlsfMarked
<1>8. TlsfListed(k.lists, k.sl, k.fl, T, G)
  BY <1>3, <1>4, <1>5, TlsfListedSame
<1>9. TlsfLike(j, T, R, G, G, G)
  BY <1>3, <1>5, <1>7, <1>8 DEF TlsfLike
<1>10. TlsfApart(T, G)
  <2>1. ASSUME NEW x \in G PROVE TlsfNx(T, x) \notin G
    <3>1. x \in TlsfHeads(T) /\ x \in F
      BY <1>5
    <3> QED BY <3>1, <1>1, <1>4
  <2> QED BY <2>1 DEF TlsfApart
<1>11. TlsfUsed(T, G) = TlsfUsed(S, F)
  BY <1>1, <1>4 DEF TlsfUsed
<1> QED BY <1>4, <1>9, <1>10, <1>11 DEF TlsfGood
-----------------------------------------------------------------------------
(* The inductive invariant. *)

TlsfSound(m, a) == TlsfGood(m, m.size, m.pools, m.free) /\ TlsfHeld(a, TlsfUsed(m.size, m.free))

TlsfAligned(a, w) ==
  /\ w \in [Handle -> {1} \union Aligns]
  /\ \A h \in Handle : a[h] # TwoLevel!None => (a[h] + 1) % w[h] = 0

TlsfIInv == TlsfSound(tlsfMem, tlsfAt) /\ TlsfAligned(tlsfAt, tlsfWant) /\ tlsfDenied \in {<<>>} \union (Handle \X Nat)

LEMMA TlsfSoundIs ==
  ASSUME NEW m, NEW S, NEW Q, NEW F, TlsfGood(m, S, Q, F), NEW a, TlsfHeld(a, TlsfUsed(S, F))
  PROVE  TlsfSound(m, a)
<1>1. m.size = S /\ m.free = F /\ m.pools = Q
  BY TlsfGoodIs
<1> QED BY <1>1 DEF TlsfSound

LEMMA TlsfSettledSound ==
  ASSUME NEW m, NEW S, NEW Q, NEW F, TlsfGood(m, S, Q, F), NEW a, TlsfHeld(a, TlsfUsed(S, F)),
         NEW h \in Handle, NEW kept \in Nat, TwoLevel!Settled(m, a, h, kept)
  PROVE  TlsfSound(tlsfMem', tlsfAt') /\ tlsfAt' = a /\ tlsfDenied' = <<>>
<1>1. TlsfGood(tlsfMem', S, Q, F) /\ tlsfAt' = a /\ tlsfDenied' = <<>>
  BY TlsfSettledIs
<1> QED BY <1>1, TlsfSoundIs

LEMMA TlsfAlignedSet ==
  ASSUME NEW a \in [Handle -> TwoLevel!Cell \union {TwoLevel!None}], NEW w, TlsfAligned(a, w), NEW h \in Handle,
         NEW x \in {1} \union Aligns, NEW b, b # TwoLevel!None => (b + 1) % x = 0
  PROVE  TlsfAligned([a EXCEPT ![h] = b], [w EXCEPT ![h] = x])
BY DEF TlsfAligned

LEMMA TlsfDeniedIs ==
  ASSUME TlsfIInv, NEW h \in Handle, NEW size \in TlsfSizes, TwoLevel!Denied(h, size)
  PROVE  TlsfIInv'
<1>1. (size + 3) \div 4 + 1 \in Nat
  <2>1. size \in Nat
    BY TlsfBounds
  <2> QED BY <2>1
<1>2. tlsfDenied' \in {<<>>} \union (Handle \X Nat) /\ tlsfMem' = tlsfMem /\ tlsfAt' = tlsfAt /\ tlsfWant' = tlsfWant
  BY <1>1 DEF TwoLevel!Denied
<1> QED BY <1>2 DEF TlsfIInv

\* The sizes that are asked for.
LEMMA TlsfAskedIs ==
  ASSUME NEW size \in TlsfSizes, size > 0
  PROVE  TwoLevel!Adjusted(size, 1) \in Nat /\ TwoLevel!Adjusted(size, 1) >= TwoLevel!block_size_min
<1>1. size \in Nat /\ TwoLevel!Adjusted(size, 1) > 0
  BY TlsfBounds
<1>2. TwoLevel!Adjusted(size, 1) \in Nat
  BY <1>1, TlsfAdjustedIs
<1> QED BY <1>1, <1>2, TlsfAdjustedIs

\* The block that is found is free and large enough.
LEMMA TlsfFoundIs ==
  ASSUME NEW m, NEW S, NEW Q, NEW F, TlsfGood(m, S, Q, F), NEW n \in Nat, NEW c \in TwoLevel!Suitable(m, n),
         NEW b, b = Head(m.lists[c])
  PROVE  /\ b \in F /\ b \in TwoLevel!Cell /\ b \in Nat /\ b \notin TlsfUsed(S, F) /\ n <= S[b] /\ S[b] \in Nat
         /\ TlsfReady(TwoLevel!RemoveFrom(m, b, c), S, Q, F, b)
<1>1. /\ TlsfTiled(S, Q) /\ TlsfLike(m, S, Q, F, F, F) /\ F \subseteq TlsfHeads(S) \ TlsfEnds
  BY TlsfGoodIs
<1>2. TlsfListed(m.lists, m.sl, m.fl, S, F)
  BY <1>1, TlsfLikeIs
<1>3. m.sl \subseteq TwoLevel!ClassIndex /\ m.fl = {d[1] : d \in m.sl}
  BY <1>2 DEF TlsfListed
<1>4. c \in m.sl /\ TlsfBehind(c, TwoLevel!SearchClass(n))
  BY <1>3, TlsfSuitableIs
<1>5. b \in F /\ TwoLevel!Class(S[b]) = c
  BY <1>2, <1>4, TlsfHeadIs
<1>6. b \in TwoLevel!Cell /\ b \in Nat /\ S[b] \in Nat
  BY <1>1, <1>5, TlsfTiledIs
<1>7. n <= S[b]
  BY <1>4, <1>5, <1>6, TlsfSearchIs
<1>8. TlsfReady(TwoLevel!RemoveFrom(m, b, c), S, Q, F, b)
  BY <1>5, TlsfTakenIs
<1> QED BY <1>5, <1>6, <1>7, <1>8 DEF TlsfUsed

LEMMA TlsfStepMalloc ==
  ASSUME TlsfIInv, NEW h \in Handle, NEW size \in TlsfSizes, TwoLevel!Malloc(h, size)
  PROVE  TlsfIInv'
<1> DEFINE n == TwoLevel!Adjusted(size, 1)
           S == tlsfMem.size
           Q == tlsfMem.pools
           F == tlsfMem.free
<1>1. /\ TlsfGood(tlsfMem, S, Q, F) /\ TlsfHeld(tlsfAt, TlsfUsed(S, F)) /\ TlsfAligned(tlsfAt, tlsfWant)
      /\ tlsfAt \in [Handle -> TwoLevel!Cell \union {TwoLevel!None}]
  BY DEF TlsfIInv, TlsfSound, TlsfHeld
<1>2. n \in Nat /\ n >= TwoLevel!block_size_min /\ tlsfAt[h] = TwoLevel!None
  BY TlsfAskedIs DEF TwoLevel!Malloc
<1>3. CASE \E c \in TwoLevel!Suitable(tlsfMem, n) :
             LET b == Head(tlsfMem.lists[c])
             IN  /\ TwoLevel!Settled(TwoLevel!Prepared(TwoLevel!RemoveFrom(tlsfMem, b, c), b, n), [tlsfAt EXCEPT ![h] = b], h, 0)
                 /\ TwoLevel!Wants(h, 1)
  <2>1. PICK c \in TwoLevel!Suitable(tlsfMem, n) :
          LET b == Head(tlsfMem.lists[c])
          IN  /\ TwoLevel!Settled(TwoLevel!Prepared(TwoLevel!RemoveFrom(tlsfMem, b, c), b, n), [tlsfAt EXCEPT ![h] = b], h, 0)
              /\ TwoLevel!Wants(h, 1)
    BY <1>3
  <2> DEFINE b == Head(tlsfMem.lists[c])
             k == TwoLevel!RemoveFrom(tlsfMem, b, c)
             a == [tlsfAt EXCEPT ![h] = b]
  <2>2. TwoLevel!Settled(TwoLevel!Prepared(k, b, n), a, h, 0) /\ TwoLevel!Wants(h, 1)
    BY <2>1
  <2> HIDE DEF n, S, Q, F
  <2>3. b \in TwoLevel!Cell /\ b \in Nat /\ b \notin TlsfUsed(S, F) /\ TlsfReady(k, S, Q, F, b)
    BY <1>1, <1>2, TlsfFoundIs
  <2> HIDE DEF b, k
  <2>4. PICK T, G : TlsfGood(TwoLevel!Prepared(k, b, n), T, Q, G) /\ TlsfUsed(T, G) = TlsfUsed(S, F) \union {b}
    BY <1>2, <2>3, TlsfPreparedIs
  <2>5. TlsfHeld(a, TlsfUsed(T, G))
    <3>1. TlsfHeld(a, TlsfUsed(S, F) \union {b})
      BY <1>1, <1>2, <2>3, TlsfHeldGiven
    <3> QED BY <3>1, <2>4
  <2> HIDE DEF a
  <2>6. TlsfSound(tlsfMem', tlsfAt') /\ tlsfAt' = a /\ tlsfDenied' = <<>>
    BY <2>2, <2>4, <2>5, TlsfSettledSound
  <2>7. (b + 1) % 1 = 0
    BY <2>3
  <2>8. TlsfAligned(a, [tlsfWant EXCEPT ![h] = 1])
    BY <1>1, <2>7, TlsfAlignedSet DEF a
  <2> QED BY <2>2, <2>6, <2>8 DEF TlsfIInv, TwoLevel!Wants
<1>4. CASE TwoLevel!Denied(h, size)
  BY <1>4, TlsfDeniedIs
<1> QED BY <1>3, <1>4 DEF TwoLevel!Malloc

LEMMA TlsfStepMemalign ==
  ASSUME TlsfIInv, NEW h \in Handle, NEW x \in Aligns, NEW size \in TlsfSizes, TwoLevel!Memalign(h, x, size)
  PROVE  TlsfIInv'
<1> DEFINE n == TwoLevel!Adjusted(size, 1)
           g == IF n = 0 THEN 0 ELSE TwoLevel!Adjusted(4 * (n + x + TwoLevel!HeaderUnits), x)
           S == tlsfMem.size
           Q == tlsfMem.pools
           F == tlsfMem.free
           gap(b) == TwoLevel!Gap(b, x)
           led(b, m) == IF TwoLevel!Gap(b, x) > 0 THEN TwoLevel!TrimFree(m, b, TwoLevel!Gap(b, x), TwoLevel!Gap(b, x) - 1) ELSE m
           moved(b, m) == IF TwoLevel!Gap(b, x) > 0 /\ TwoLevel!CanSplit(m, b, TwoLevel!Gap(b, x)) THEN b + TwoLevel!Gap(b, x) ELSE b
<1>1. /\ TlsfGood(tlsfMem, S, Q, F) /\ TlsfHeld(tlsfAt, TlsfUsed(S, F)) /\ TlsfAligned(tlsfAt, tlsfWant)
      /\ tlsfAt \in [Handle -> TwoLevel!Cell \union {TwoLevel!None}]
  BY DEF TlsfIInv, TlsfSound, TlsfHeld
<1>2. n \in Nat /\ n >= TwoLevel!block_size_min /\ tlsfAt[h] = TwoLevel!None /\ x \in Nat \ {0}
  BY TlsfAskedIs, TlsfBounds DEF TwoLevel!Memalign
<1>3. CASE \E c \in TwoLevel!Suitable(tlsfMem, g) :
             LET b == Head(tlsfMem.lists[c])
                 m == TwoLevel!RemoveFrom(tlsfMem, b, c)
             IN  /\ TwoLevel!Settled(TwoLevel!Prepared(led(b, m), moved(b, m), n), [tlsfAt EXCEPT ![h] = moved(b, m)], h, 0)
                 /\ TwoLevel!Wants(h, x)
  <2>1. PICK c \in TwoLevel!Suitable(tlsfMem, g) :
          LET b == Head(tlsfMem.lists[c])
              m == TwoLevel!RemoveFrom(tlsfMem, b, c)
          IN  /\ TwoLevel!Settled(TwoLevel!Prepared(led(b, m), moved(b, m), n), [tlsfAt EXCEPT ![h] = moved(b, m)], h, 0)
              /\ TwoLevel!Wants(h, x)
    BY <1>3
  <2> DEFINE b == Head(tlsfMem.lists[c])
             k == TwoLevel!RemoveFrom(tlsfMem, b, c)
             u == TwoLevel!Gap(b, x)
             l == led(b, k)
             d == moved(b, k)
             a == [tlsfAt EXCEPT ![h] = d]
  <2>2. TwoLevel!Settled(TwoLevel!Prepared(l, d, n), a, h, 0) /\ TwoLevel!Wants(h, x)
    BY <2>1
  <2>3. g # 0
    BY <2>1 DEF TwoLevel!Suitable
  <2>4. g \in Nat /\ n + x + TwoLevel!HeaderUnits <= g
    <3>1. g = TwoLevel!Adjusted(4 * (n + x + TwoLevel!HeaderUnits), x)
      BY <2>3
    <3> HIDE DEF g, n
    <3> QED BY <3>1, <2>3, <1>2, TlsfWithGapIs
  <2> HIDE DEF n, g, S, Q, F
  <2>5. /\ b \in F /\ b \in TwoLevel!Cell /\ b \in Nat /\ b \notin TlsfUsed(S, F) /\ g <= S[b] /\ S[b] \in Nat
        /\ TlsfReady(k, S, Q, F, b)
    BY <1>1, <2>4, TlsfFoundIs
  <2>6. /\ u \in Nat /\ (u = 0 \/ u >= TwoLevel!HeaderUnits) /\ u <= x + 3 /\ (b + 1 + u) % x = 0
    BY <1>2, <2>5, TlsfGapIs
  <2>7. k.size = S
    BY <2>5, TlsfLikeIs DEF TlsfReady
  <2>8. l = (IF u > 0 THEN TwoLevel!TrimFree(k, b, u, u - 1) ELSE k)
        /\ d = (IF u > 0 /\ TwoLevel!CanSplit(k, b, u) THEN b + u ELSE b)
    OBVIOUS
  <2> HIDE DEF b, k, u, l, d
  <2>9. u + TwoLevel!HeaderUnits <= S[b]
    BY <1>2, <2>4, <2>5, <2>6 DEF TwoLevel!HeaderUnits, TwoLevel!block_size_min
  <2>10. TwoLevel!CanSplit(k, b, u)
    BY <2>7, <2>9, <2>6, <2>5 DEF TwoLevel!CanSplit, TwoLevel!HeaderUnits
  <2>11. \E T, H : TlsfReady(l, T, Q, H, d) /\ TlsfUsed(T, H) = TlsfUsed(S, F) /\ (d + 1) % x = 0
    <3>1. CASE u = 0
      <4>1. l = k /\ d = b /\ (b + 1) % x = 0
        BY <3>1, <2>5, <2>6, <2>8
      <4> QED BY <4>1, <2>5
    <3>2. CASE u # 0
      <4>1. l = TwoLevel!TrimFree(k, b, u, u - 1) /\ d = b + u /\ u >= TwoLevel!HeaderUnits
        BY <3>2, <2>6, <2>8, <2>10
      <4>2. PICK T : /\ TlsfReady(TwoLevel!TrimFree(k, b, u, u - 1), T, Q, F \union {b + u}, b + u)
                     /\ TlsfUsed(T, F \union {b + u}) = TlsfUsed(S, F)
        <5>1. /\ TlsfGood(tlsfMem, S, Q, F) /\ b \in F /\ TlsfReady(k, S, Q, F, b)
              /\ u \in Nat /\ u >= TwoLevel!HeaderUnits /\ u + TwoLevel!HeaderUnits <= S[b]
          BY <4>1, <1>1, <2>5, <2>6, <2>9
        <5> QED BY ONLY <5>1, TlsfLedIs
      <4>3. (d + 1) % x = 0
        <5>1. d + 1 = b + 1 + u
          BY <4>1, <2>5, <2>6
        <5> QED BY <5>1, <2>6
      <4> QED BY <4>1, <4>2, <4>3
    <3> QED BY <3>1, <3>2
  <2>12. PICK T, H : TlsfReady(l, T, Q, H, d) /\ TlsfUsed(T, H) = TlsfUsed(S, F) /\ (d + 1) % x = 0
    BY <2>11
  <2>13. d \in TwoLevel!Cell /\ d \notin TlsfUsed(S, F)
    <3>1. d \in H /\ TlsfTiled(T, Q) /\ TlsfLike(l, T, Q, H, H, H \ {d})
      BY <2>12 DEF TlsfReady
    <3>2. H \subseteq TlsfHeads(T)
      BY <3>1, TlsfLikeIs
    <3>3. d \notin TlsfUsed(T, H)
      BY <3>1 DEF TlsfUsed
    <3> QED BY <2>12, <3>1, <3>2, <3>3, TlsfTiledIs
  <2>14. PICK V, G : TlsfGood(TwoLevel!Prepared(l, d, n), V, Q, G) /\ TlsfUsed(V, G) = TlsfUsed(T, H) \union {d}
    BY <1>2, <2>12, TlsfPreparedIs
  <2>15. TlsfHeld(a, TlsfUsed(V, G))
    <3>1. TlsfHeld(a, TlsfUsed(S, F) \union {d})
      BY <1>1, <1>2, <2>13, TlsfHeldGiven
    <3> QED BY <3>1, <2>12, <2>14
  <2> HIDE DEF a
  <2>16. TlsfSound(tlsfMem', tlsfAt') /\ tlsfAt' = a /\ tlsfDenied' = <<>>
    BY <2>2, <2>14, <2>15, TlsfSettledSound
  <2>17. TlsfAligned(a, [tlsfWant EXCEPT ![h] = x])
    BY <1>1, <2>12, TlsfAlignedSet DEF a
  <2> QED BY <2>2, <2>16, <2>17 DEF TlsfIInv, TwoLevel!Wants
<1>4. CASE TwoLevel!Denied(h, size)
  BY <1>4, TlsfDeniedIs
<1> QED BY <1>3, <1>4 DEF TwoLevel!Memalign
LEMMA TlsfStepFree ==
  ASSUME TlsfIInv, NEW h \in Handle, TwoLevel!Free(h)
  PROVE  TlsfIInv'
<1> DEFINE S == tlsfMem.size
           Q == tlsfMem.pools
           F == tlsfMem.free
           b == tlsfAt[h]
           a == [tlsfAt EXCEPT ![h] = TwoLevel!None]
<1>1. /\ TlsfGood(tlsfMem, S, Q, F) /\ TlsfHeld(tlsfAt, TlsfUsed(S, F)) /\ TlsfAligned(tlsfAt, tlsfWant)
      /\ tlsfAt \in [Handle -> TwoLevel!Cell \union {TwoLevel!None}]
  BY DEF TlsfIInv, TlsfSound, TlsfHeld
<1>2. b # TwoLevel!None /\ TwoLevel!Settled(TwoLevel!Freed(tlsfMem, b), a, h, 0) /\ TwoLevel!Wants(h, 1)
  BY DEF TwoLevel!Free
<1>3. b \in TlsfUsed(S, F)
  BY <1>1, <1>2 DEF TlsfHeld
<1> HIDE DEF S, Q, F
<1>4. PICK T, G : TlsfGood(TwoLevel!Freed(tlsfMem, b), T, Q, G) /\ TlsfUsed(T, G) = TlsfUsed(S, F) \ {b}
  BY <1>1, <1>3, TlsfFreedIs
<1>5. TlsfHeld(a, TlsfUsed(T, G))
  <2>1. TlsfHeld(a, TlsfUsed(S, F) \ {b})
    BY <1>1, <1>2, TlsfHeldBack
  <2> QED BY <2>1, <1>4
<1>6. TlsfAligned(a, [tlsfWant EXCEPT ![h] = 1])
  BY <1>1, TlsfAlignedSet
<1> HIDE DEF a, b
<1>7. TlsfSound(tlsfMem', tlsfAt') /\ tlsfAt' = a /\ tlsfDenied' = <<>>
  BY <1>2, <1>4, <1>5, TlsfSettledSound
<1> QED BY <1>2, <1>6, <1>7 DEF TlsfIInv, TwoLevel!Wants

LEMMA TlsfStepResize ==
  ASSUME TlsfIInv, NEW h \in Handle, NEW size \in TlsfSizes, TwoLevel!Resize(h, size)
  PROVE  TlsfIInv'
<1> DEFINE S == tlsfMem.size
           Q == tlsfMem.pools
           F == tlsfMem.free
           b == tlsfAt[h]
           n == TwoLevel!Adjusted(size, 1)
           m == IF n > tlsfMem.size[b] THEN TwoLevel!MarkAsUsed(TwoLevel!MergeNext(tlsfMem, b), b) ELSE tlsfMem
           kept == tlsfMem.size[b]
<1>1. /\ TlsfGood(tlsfMem, S, Q, F) /\ TlsfHeld(tlsfAt, TlsfUsed(S, F)) /\ TlsfAligned(tlsfAt, tlsfWant)
      /\ tlsfAt \in [Handle -> TwoLevel!Cell \union {TwoLevel!None}]
  BY DEF TlsfIInv, TlsfSound, TlsfHeld
<1>2. b # TwoLevel!None /\ TwoLevel!Settled(TwoLevel!TrimUsed(m, b, n), tlsfAt, h, kept) /\ tlsfWant' = tlsfWant /\ size > 0
  BY DEF TwoLevel!Resize
<1>3. n \in Nat /\ n >= TwoLevel!block_size_min
  BY <1>2, TlsfAskedIs
<1>4. b \in TlsfUsed(S, F)
  BY <1>1, <1>2 DEF TlsfHeld
<1>5. kept \in Nat
  BY <1>1, <1>4, TlsfGoodIs, TlsfTiledIs
<1>6. \E T, G : TlsfGood(m, T, Q, G) /\ TlsfUsed(T, G) = TlsfUsed(S, F)
  <2>1. m = tlsfMem \/ m = TwoLevel!MarkAsUsed(TwoLevel!MergeNext(tlsfMem, b), b)
    OBVIOUS
  <2>2. \E T, G : TlsfGood(TwoLevel!MarkAsUsed(TwoLevel!MergeNext(tlsfMem, b), b), T, Q, G) /\ TlsfUsed(T, G) = TlsfUsed(S, F)
    <3> HIDE DEF S, Q, F, b
    <3> QED BY <1>1, <1>4, TlsfWidenedIs
  <2> HIDE DEF m, S, Q, F
  <2> QED BY <1>1, <2>1, <2>2
<1> HIDE DEF S, Q, F, b, n, m, kept
<1>7. PICK T, G : TlsfGood(m, T, Q, G) /\ TlsfUsed(T, G) = TlsfUsed(S, F)
  BY <1>6
<1>8. PICK V, H : TlsfGood(TwoLevel!TrimUsed(m, b, n), V, Q, H) /\ TlsfUsed(V, H) = TlsfUsed(T, G)
  <2>1. b \in TlsfUsed(T, G)
    BY <1>4, <1>7
  <2> QED BY <2>1, <1>3, <1>7, TlsfTrimUsedIs
<1>9. TlsfHeld(tlsfAt, TlsfUsed(V, H))
  BY <1>1, <1>7, <1>8
<1>10. TlsfSound(tlsfMem', tlsfAt') /\ tlsfAt' = tlsfAt /\ tlsfDenied' = <<>>
  BY <1>2, <1>5, <1>8, <1>9, TlsfSettledSound
<1> QED BY <1>1, <1>2, <1>10 DEF TlsfIInv

LEMMA TlsfStepMove ==
  ASSUME TlsfIInv, NEW h \in Handle, NEW size \in TlsfSizes, TwoLevel!Move(h, size)
  PROVE  TlsfIInv'
<1> DEFINE S == tlsfMem.size
           Q == tlsfMem.pools
           F == tlsfMem.free
           b == tlsfAt[h]
           n == TwoLevel!Adjusted(size, 1)
           old == tlsfMem.size[b]
<1>1. /\ TlsfGood(tlsfMem, S, Q, F) /\ TlsfHeld(tlsfAt, TlsfUsed(S, F)) /\ TlsfAligned(tlsfAt, tlsfWant)
      /\ tlsfAt \in [Handle -> TwoLevel!Cell \union {TwoLevel!None}]
  BY DEF TlsfIInv, TlsfSound, TlsfHeld
<1>2. b # TwoLevel!None /\ size > 0
  BY DEF TwoLevel!Move
<1>3. n \in Nat /\ n >= TwoLevel!block_size_min
  BY <1>2, TlsfAskedIs
<1>4. b \in TlsfUsed(S, F)
  BY <1>1, <1>2 DEF TlsfHeld
<1>5. old \in Nat /\ b \in Nat /\ b + old \in TwoLevel!Cell
  <2>1. TlsfTiled(S, Q) /\ b \in TlsfHeads(S) \ TlsfEnds
    BY <1>1, <1>4, TlsfGoodIs
  <2>2. old \in Nat /\ b \in Nat /\ TlsfNx(S, b) \in TwoLevel!Cell /\ old = S[b]
    BY <2>1, TlsfTiledIs, TlsfNextInCell
  <2>3. TlsfNx(S, b) = b + 1 + old
    BY DEF TlsfNx
  <2> HIDE DEF S, old, b
  <2> QED BY <2>2, <2>3, TlsfConsts DEF TwoLevel!Cell
<1>6. CASE \E c \in TwoLevel!Suitable(tlsfMem, n) :
             LET d == Head(tlsfMem.lists[c])
                 m == TwoLevel!Copied(TwoLevel!Prepared(TwoLevel!RemoveFrom(tlsfMem, d, c), d, n), b, d, old)
             IN  TwoLevel!Settled(TwoLevel!Freed(m, b), [tlsfAt EXCEPT ![h] = d], h, old) /\ TwoLevel!Wants(h, 1)
  <2>1. PICK c \in TwoLevel!Suitable(tlsfMem, n) :
          LET d == Head(tlsfMem.lists[c])
              m == TwoLevel!Copied(TwoLevel!Prepared(TwoLevel!RemoveFrom(tlsfMem, d, c), d, n), b, d, old)
          IN  TwoLevel!Settled(TwoLevel!Freed(m, b), [tlsfAt EXCEPT ![h] = d], h, old) /\ TwoLevel!Wants(h, 1)
    BY <1>6
  <2> DEFINE d == Head(tlsfMem.lists[c])
             k == TwoLevel!RemoveFrom(tlsfMem, d, c)
             q == TwoLevel!Prepared(k, d, n)
             m == TwoLevel!Copied(q, b, d, old)
             a == [tlsfAt EXCEPT ![h] = d]
  <2>2. TwoLevel!Settled(TwoLevel!Freed(m, b), a, h, old) /\ TwoLevel!Wants(h, 1)
    BY <2>1
  <2> HIDE DEF n, S, Q, F, old
  <2>3. d \in TwoLevel!Cell /\ d \in Nat /\ d \notin TlsfUsed(S, F) /\ TlsfReady(k, S, Q, F, d)
    BY <1>1, <1>3, TlsfFoundIs
  <2> HIDE DEF d, k
  <2>4. PICK T, G : TlsfGood(q, T, Q, G) /\ TlsfUsed(T, G) = TlsfUsed(S, F) \union {d}
    BY <1>3, <2>3, TlsfPreparedIs
  <2> HIDE DEF q
  <2>5. TlsfGood(m, T, Q, G)
    BY <1>5, <2>3, <2>4, TlsfCopiedIs
  <2> HIDE DEF m
  <2>6. PICK V, H : TlsfGood(TwoLevel!Freed(m, b), V, Q, H) /\ TlsfUsed(V, H) = TlsfUsed(T, G) \ {b}
    <3>1. b \in TlsfUsed(T, G)
      BY <1>4, <2>4
    <3> QED BY <3>1, <2>5, TlsfFreedIs
  <2>7. TlsfHeld(a, TlsfUsed(V, H))
    <3>1. TlsfHeld(a, (TlsfUsed(S, F) \union {d}) \ {b})
      BY <1>1, <1>2, <2>3, TlsfHeldMoved
    <3> QED BY <3>1, <2>4, <2>6
  <2>8. (d + 1) % 1 = 0
    BY <2>3
  <2>9. TlsfAligned(a, [tlsfWant EXCEPT ![h] = 1])
    BY <1>1, <2>8, TlsfAlignedSet
  <2> HIDE DEF a, b
  <2>10. TlsfSound(tlsfMem', tlsfAt') /\ tlsfAt' = a /\ tlsfDenied' = <<>>
    BY <1>5, <2>2, <2>6, <2>7, TlsfSettledSound
  <2> QED BY <2>2, <2>9, <2>10 DEF TlsfIInv, TwoLevel!Wants
<1>7. CASE TwoLevel!Denied(h, size)
  BY <1>7, TlsfDeniedIs
<1> QED BY <1>6, <1>7 DEF TwoLevel!Move

LEMMA TlsfStepCreate ==
  ASSUME tlsfMem' = TwoLevel!Constructed, tlsfAt' = [h \in Handle |-> TwoLevel!None],
         tlsfWant' = [h \in Handle |-> 1], tlsfDenied' = <<>>
  PROVE  TlsfIInv'
<1>1. TlsfHeld([h \in Handle |-> TwoLevel!None], {})
  BY DEF TlsfHeld
<1>2. TlsfSound(TwoLevel!Constructed, [h \in Handle |-> TwoLevel!None])
  BY <1>1, TlsfNothing, TlsfSoundIs
<1>3. TlsfAligned([h \in Handle |-> TwoLevel!None], [h \in Handle |-> 1])
  BY DEF TlsfAligned
<1> QED BY <1>2, <1>3 DEF TlsfIInv

LEMMA TlsfStepAddPool ==
  ASSUME TlsfIInv, NEW p \in TwoLevel!Pool, TwoLevel!AddPool(p)
  PROVE  TlsfIInv'
<1> DEFINE S == tlsfMem.size
           Q == tlsfMem.pools
           F == tlsfMem.free
           z == TwoLevel!Sentinel(p)
           T == [S EXCEPT ![p] = z - p - 1, ![z] = 0]
           m == [tlsfMem EXCEPT !.pools = @ \union {p}, !.free = @ \union {p},
                            !.size = [@ EXCEPT ![p] = z - p - 1, ![z] = 0],
                            !.prevFree = @ \union {z}]
<1>1. /\ TlsfGood(tlsfMem, S, Q, F) /\ TlsfHeld(tlsfAt, TlsfUsed(S, F)) /\ TlsfAligned(tlsfAt, tlsfWant) /\ TlsfIsMem(tlsfMem)
  BY TlsfGoodIs, TlsfLikeIs DEF TlsfIInv, TlsfSound
<1>2. p \notin Q /\ tlsfMem' = TwoLevel!Enlist(TwoLevel!Link(m, p), p) /\ tlsfAt' = tlsfAt /\ tlsfWant' = tlsfWant /\ tlsfDenied' = tlsfDenied
  BY DEF TwoLevel!AddPool
<1>3. /\ TlsfIsMem(m) /\ m.pools = Q \union {p} /\ m.free = F \union {p} /\ m.size = T
      /\ m.prevFree = tlsfMem.prevFree \union {z}
      /\ m.fl = tlsfMem.fl /\ m.sl = tlsfMem.sl /\ m.lists = tlsfMem.lists /\ m.prev = tlsfMem.prev
      /\ m.data = tlsfMem.data
  <2> DEFINE y == z - p - 1
  <2>1. m = [tlsfMem EXCEPT !.pools = @ \union {p}, !.free = @ \union {p},
                        !.size = [@ EXCEPT ![p] = y, ![z] = 0],
                        !.prevFree = @ \union {z}]
    OBVIOUS
  <2>2. T = [tlsfMem.size EXCEPT ![p] = y, ![z] = 0]
    OBVIOUS
  <2> HIDE DEF m, z, y, T
  <2> QED BY <1>1, <2>1, <2>2 DEF TlsfIsMem
<1>4. TlsfPoolLaid(S, T, p, z)
  BY DEF TlsfPoolLaid
<1> HIDE DEF S, Q, F, z, T, m
<1>5. z = TwoLevel!Sentinel(p)
  BY DEF z
<1>6. /\ TlsfGood(TwoLevel!Enlist(TwoLevel!Link(m, p), p), T, Q \union {p}, F \union {p})
      /\ TlsfUsed(T, F \union {p}) = TlsfUsed(S, F)
  BY <1>1, <1>2, <1>3, <1>4, <1>5, TlsfAddedIs
<1>7. TlsfSound(tlsfMem', tlsfAt)
  BY <1>1, <1>2, <1>6, TlsfSoundIs
<1> QED BY <1>1, <1>2, <1>7 DEF TlsfIInv

LEMMA TlsfStepRemovePool ==
  ASSUME TlsfIInv, NEW p \in TwoLevel!Pool, TwoLevel!RemovePool(p)
  PROVE  TlsfIInv'
<1> DEFINE S == tlsfMem.size
           Q == tlsfMem.pools
           F == tlsfMem.free
           z == TwoLevel!Sentinel(p)
           T == [c \in TwoLevel!Cell |-> IF c \in {p, z} THEN TwoLevel!None ELSE S[c]]
           k == TwoLevel!Unlist(tlsfMem, p)
           v == [c \in TwoLevel!Cell |-> IF c \in {p, z} THEN TwoLevel!None ELSE k.prev[c]]
           j == tlsfMem'
<1>1. /\ TlsfGood(tlsfMem, S, Q, F) /\ TlsfHeld(tlsfAt, TlsfUsed(S, F)) /\ TlsfAligned(tlsfAt, tlsfWant)
  BY DEF TlsfIInv, TlsfSound
<1>2. /\ p \in Q /\ p \in F /\ TwoLevel!NextOf(tlsfMem, p) = z /\ tlsfAt' = tlsfAt /\ tlsfWant' = tlsfWant /\ tlsfDenied' = tlsfDenied
      /\ j = [k EXCEPT !.pools = @ \ {p}, !.free = @ \ {p, z}, !.prevFree = @ \ {p, z},
                       !.size = [c \in TwoLevel!Cell |-> IF c \in {p, z} THEN TwoLevel!None ELSE @[c]],
                       !.prev = [c \in TwoLevel!Cell |-> IF c \in {p, z} THEN TwoLevel!None ELSE @[c]]]
  BY DEF TwoLevel!RemovePool
<1>3. TlsfIsMem(k) /\ k.size = S /\ k.pools = Q /\ k.free = F
  <2>1. k = TwoLevel!RemoveFrom(tlsfMem, p, TwoLevel!Class(S[p]))
    BY DEF TwoLevel!Unlist
  <2>2. TlsfTiled(S, Q) /\ TlsfLike(tlsfMem, S, Q, F, F, F)
    BY <1>1, TlsfGoodIs
  <2> HIDE DEF k, S, Q, F
  <2>3. TlsfLike(k, S, Q, F, F, F \ {p})
    BY <1>2, <2>1, <2>2, TlsfLikeUnlisted
  <2> QED BY <2>3, TlsfLikeIs
<1>4. j = [k EXCEPT !.pools = @ \ {p}, !.free = @ \ {p, z}, !.prevFree = @ \ {p, z},
                    !.size = T, !.prev = v]
  <2> HIDE DEF k, S, z, Q, F
  <2> QED BY <1>2, <1>3 DEF TlsfIsMem
<1>5. TlsfNx(S, p) = z
  BY <1>2 DEF TlsfNx, TwoLevel!NextOf
<1>6. /\ TlsfIsMem(j) /\ j.pools = Q \ {p} /\ j.free = F \ {p, z} /\ j.size = T
      /\ j.prevFree = k.prevFree \ {p, z} /\ j.prev = v
      /\ j.fl = k.fl /\ j.sl = k.sl /\ j.lists = k.lists /\ j.data = k.data
  <2> HIDE DEF k, T, v, z, S, Q, F, j
  <2> QED BY <1>3, <1>4 DEF TlsfIsMem
<1>7. \E G : TlsfGood(j, T, Q \ {p}, G) /\ TlsfUsed(T, G) = TlsfUsed(S, F)
  <2>1. k = TwoLevel!Unlist(tlsfMem, p) /\ z = TwoLevel!Sentinel(p) /\ TlsfBlanked(S, T, p, z) /\ TlsfBlanked(k.prev, v, p, z)
    BY DEF TlsfBlanked
  <2> HIDE DEF S, Q, F, k, j, z, T, v
  <2>2. /\ TlsfGood(tlsfMem, S, Q, F) /\ p \in Q /\ p \in F /\ z = TwoLevel!Sentinel(p) /\ TlsfNx(S, p) = z
        /\ TlsfBlanked(S, T, p, z) /\ k = TwoLevel!Unlist(tlsfMem, p)
        /\ TlsfIsMem(j) /\ j.pools = Q \ {p} /\ j.free = F \ {p, z} /\ j.size = T
        /\ j.prevFree = k.prevFree \ {p, z} /\ TlsfBlanked(k.prev, j.prev, p, z)
        /\ j.fl = k.fl /\ j.sl = k.sl /\ j.lists = k.lists /\ j.data = k.data
    BY <1>1, <1>2, <1>5, <1>6, <2>1
  <2> QED BY ONLY <2>2, TlsfRemovedIs
<1> HIDE DEF S, Q, F, T
<1>8. TlsfSound(tlsfMem', tlsfAt)
  <2>1. PICK G : TlsfGood(j, T, Q \ {p}, G) /\ TlsfUsed(T, G) = TlsfUsed(S, F)
    BY <1>7
  <2> QED BY <1>1, <2>1, TlsfSoundIs
<1> QED BY <1>1, <1>2, <1>8 DEF TlsfIInv
-----------------------------------------------------------------------------
(* The walk of a pool. *)

\* The blocks of the pool p.
TlsfPart(S, p) == {b \in TlsfHeads(S) : p <= b /\ b <= TwoLevel!Sentinel(p)}

LEMMA TlsfPartIs ==
  ASSUME NEW S, NEW Q, TlsfTiled(S, Q), NEW p \in Q
  PROVE  /\ p \in Nat /\ TwoLevel!Sentinel(p) \in Nat /\ p \in TlsfPart(S, p) /\ TwoLevel!Sentinel(p) \in TlsfPart(S, p)
         /\ TlsfPart(S, p) \subseteq p .. TwoLevel!Sentinel(p) /\ TlsfPart(S, p) \subseteq TwoLevel!Cell
         /\ S[TwoLevel!Sentinel(p)] = 0
         /\ \A b \in TlsfPart(S, p) \ {TwoLevel!Sentinel(p)} :
              /\ b \in TlsfHeads(S) \ TlsfEnds /\ S[b] # 0 /\ S[b] # TwoLevel!None
              /\ TlsfNx(S, b) \in TlsfPart(S, p) /\ b < TlsfNx(S, b)
              /\ \A c \in TlsfPart(S, p) : b < c => TlsfNx(S, b) <= c
<1> DEFINE z == TwoLevel!Sentinel(p)
<1>1. /\ p \in {0, Split} /\ p \in Nat /\ z \in Nat /\ p < z /\ p \in TlsfHeads(S) /\ z \in TlsfHeads(S)
      /\ S[z] = 0 /\ TlsfHeads(S) \subseteq Nat /\ TlsfHeads(S) \subseteq TwoLevel!Cell
  BY TlsfTiledIs, TlsfConsts DEF TwoLevel!Pool, TwoLevel!Sentinel
<1>2. \A b \in TlsfEnds : p <= b /\ b <= z => b = z
  BY <1>1, TlsfConsts DEF TlsfEnds, TwoLevel!Sentinel
<1> HIDE DEF z
<1>3. ASSUME NEW b \in TlsfPart(S, p) \ {z}
      PROVE  /\ b \in TlsfHeads(S) \ TlsfEnds /\ S[b] # 0 /\ S[b] # TwoLevel!None
             /\ TlsfNx(S, b) \in TlsfPart(S, p) /\ b < TlsfNx(S, b)
             /\ \A c \in TlsfPart(S, p) : b < c => TlsfNx(S, b) <= c
  <2>1. b \in TlsfHeads(S) /\ p <= b /\ b <= z
    BY DEF TlsfPart, z
  <2>2. b \in TlsfHeads(S) \ TlsfEnds
    BY <2>1, <1>2
  <2>3. TlsfLies(S, b) /\ TlsfNx(S, b) \in Nat /\ b < TlsfNx(S, b) /\ S[b] \in Nat /\ b \in Nat
    BY <2>2, TlsfTiledIs
  <2>4. /\ S[b] >= 3 /\ TlsfNx(S, b) \in TlsfHeads(S) /\ \A c \in TlsfHeads(S) : b < c => TlsfNx(S, b) <= c
    BY <2>3 DEF TlsfLies, TwoLevel!block_size_min
  <2>5. b < z
    BY <2>1, <2>3, <1>1
  <2>6. TlsfNx(S, b) <= z /\ p <= TlsfNx(S, b)
    BY <2>1, <2>3, <2>4, <2>5, <1>1
  <2>7. TlsfNx(S, b) \in TlsfPart(S, p)
    BY <2>4, <2>6 DEF TlsfPart, z
  <2>8. \A c \in TlsfPart(S, p) : b < c => TlsfNx(S, b) <= c
    BY <2>4 DEF TlsfPart
  <2>9. S[b] # 0 /\ S[b] # TwoLevel!None
    BY <2>3, <2>4 DEF TwoLevel!None
  <2> QED BY <2>2, <2>3, <2>7, <2>8, <2>9
<1>4. p \in TlsfPart(S, p) /\ z \in TlsfPart(S, p)
  BY <1>1 DEF TlsfPart, z
<1>5. TlsfPart(S, p) \subseteq p .. z /\ TlsfPart(S, p) \subseteq TwoLevel!Cell
  BY <1>1 DEF TlsfPart, z
<1> QED BY <1>1, <1>3, <1>4, <1>5 DEF z

LEMMA TlsfBlocksIs ==
  ASSUME NEW m, NEW S, m.size = S, NEW Q, TlsfTiled(S, Q), NEW p \in Q
  PROVE  TwoLevel!Blocks(m, p) = TlsfPart(S, p)
<1> DEFINE H == TlsfPart(S, p)
           z == TwoLevel!Sentinel(p)
           g == [b \in H |-> TlsfNx(S, b)]
           f == [b \in H |-> IF S[b] \in {0, TwoLevel!None} THEN b ELSE TlsfNx(S, b)]
           W(w) == w = [i \in 1 .. TlsfCells |->
                          IF i = 1 THEN p
                          ELSE LET b == w[i - 1] IN IF m.size[b] \in {0, TwoLevel!None} THEN b ELSE TwoLevel!NextOf(m, b)]
           w == CHOOSE w : W(w)
<1>1. /\ p \in Nat /\ z \in Nat /\ p \in H /\ z \in H /\ H \subseteq p .. z /\ H \subseteq TwoLevel!Cell
      /\ S[z] = 0
      /\ \A b \in H \ {z} : /\ S[b] # 0 /\ S[b] # TwoLevel!None /\ TlsfNx(S, b) \in H /\ b < TlsfNx(S, b)
                            /\ \A c \in H : b < c => TlsfNx(S, b) <= c
  BY TlsfPartIs
<1>2. /\ TlsfCells \in Nat /\ 1 \in 1 .. TlsfCells
      /\ \A b \in H : b \in Nat /\ b < TlsfCells
  BY <1>1, TlsfConsts DEF TwoLevel!Cell
<1>3. \A b : TwoLevel!NextOf(m, b) = TlsfNx(S, b)
  BY DEF TwoLevel!NextOf, TlsfNx
<1>4. /\ f \in [H -> H] /\ f[z] = z /\ \A b \in H \ {z} : f[b] = TlsfNx(S, b)
      /\ \A b \in H : f[b] = IF m.size[b] \in {0, TwoLevel!None} THEN b ELSE TwoLevel!NextOf(m, b)
  <2> HIDE DEF H, z
  <2>1. ASSUME NEW b \in H PROVE (IF S[b] \in {0, TwoLevel!None} THEN b ELSE TlsfNx(S, b)) \in H
    <3>1. CASE b = z
      BY <3>1, <1>1
    <3>2. CASE b # z
      BY <3>2, <1>1
    <3> QED BY <3>1, <3>2
  <2> QED BY <2>1, <1>1, <1>3
<1>5. Tiles(H, g, p, z)
  <2> HIDE DEF H, z
  <2>1. ASSUME NEW b \in H \ {z}
        PROVE  g[b] \in H /\ b < g[b] /\ \A c \in H : b < c => g[b] <= c
    BY <1>1
  <2> QED BY <2>1, <1>1 DEF Tiles
<1>6. \A b \in H : g[b] = TlsfNx(S, b)
  OBVIOUS
<1> HIDE DEF H, z, f, g
<1>7. PICK v \in [1 .. TlsfCells -> H] : IsWalk(v, p, f, TlsfCells)
  BY <1>1, <1>2, <1>4, WalkExists
<1>8. \E x : W(x)
  <2>1. ASSUME NEW i \in 1 .. TlsfCells, i # 1
        PROVE  f[v[i - 1]] = LET b == v[i - 1]
                             IN  IF m.size[b] \in {0, TwoLevel!None} THEN b ELSE TwoLevel!NextOf(m, b)
    <3>1. i - 1 \in 1 .. TlsfCells
      BY <1>2, <2>1
    <3>2. v[i - 1] \in H
      BY <3>1
    <3> QED BY <3>2, <1>4
  <2>2. W(v)
    BY <1>7, <2>1 DEF IsWalk
  <2> QED BY <2>2
<1>9. TwoLevel!Blocks(m, p) = {w[i] : i \in 1 .. TlsfCells}
  BY DEF TwoLevel!Blocks
<1>10. W(w)
  <2> HIDE DEF W
  <2> QED BY <1>8
<1> HIDE DEF w
<1>11. w[1] = p
  BY <1>2, <1>10
<1>12. ASSUME NEW i \in 1 .. TlsfCells - 1
       PROVE  w[i + 1] = IF m.size[w[i]] \in {0, TwoLevel!None} THEN w[i] ELSE TwoLevel!NextOf(m, w[i])
  <2>1. i + 1 \in 1 .. TlsfCells /\ i + 1 # 1 /\ (i + 1) - 1 = i
    BY <1>2
  <2> QED BY <1>10, <2>1
<1> HIDE DEF W
<1>13. \A i \in 1 .. TlsfCells - 1 : w[i] \in H => w[i + 1] = f[w[i]]
  BY <1>4, <1>12
<1>14. \A i \in 1 .. TlsfCells : w[i] \in H
  <2>1. ASSUME NEW i \in 1 .. TlsfCells - 1, w[i] \in H PROVE w[i + 1] \in H
    BY <1>4, <1>13, <2>1
  <2>2. \A i \in 1 .. TlsfCells - 1 : w[i] \in H => w[i + 1] \in H
    BY <2>1
  <2>3. w[1] \in H
    BY <1>1, <1>11
  <2> QED BY ONLY <1>2, <2>2, <2>3, WalkStays
<1>15. Reaches(w, H, TlsfCells)
  <2>1. Within(H, p, TlsfCells)
    BY <1>1, <1>2 DEF Within
  <2>2. Follows(w, g, H, H, z, TlsfCells)
    BY <1>4, <1>6, <1>13 DEF Follows
  <2>3. H \ {z} \subseteq H /\ H \subseteq H
    OBVIOUS
  <2> QED BY <1>1, <1>2, <1>5, <1>11, <2>1, <2>2, <2>3, WalkReaches
<1>16. \A b \in H : \E i \in 1 .. TlsfCells : w[i] = b
  BY <1>15 DEF Reaches
<1> QED BY <1>9, <1>14, <1>16 DEF H
-----------------------------------------------------------------------------
(* What the invariant says of the memory. *)

LEMMA TlsfIntegrityIs == ASSUME TlsfIInv PROVE TwoLevel!Integrity
<1> DEFINE S == tlsfMem.size
           Q == tlsfMem.pools
           F == tlsfMem.free
           heads == UNION {TwoLevel!Blocks(tlsfMem, p) : p \in Q}
<1>1. /\ TlsfGood(tlsfMem, S, Q, F) /\ TlsfHeld(tlsfAt, TlsfUsed(S, F)) /\ TlsfAligned(tlsfAt, tlsfWant)
  BY DEF TlsfIInv, TlsfSound
<1>2. /\ TlsfTiled(S, Q) /\ TlsfLike(tlsfMem, S, Q, F, F, F) /\ F \subseteq TlsfHeads(S) \ TlsfEnds
  BY <1>1, TlsfGoodIs
<1>3. TlsfMarked(tlsfMem.prev, tlsfMem.prevFree, S, F) /\ TlsfListed(tlsfMem.lists, tlsfMem.sl, tlsfMem.fl, S, F)
  BY <1>2, TlsfLikeIs
<1>4. \A p \in Q : TwoLevel!Blocks(tlsfMem, p) = TlsfPart(S, p)
  <2> HIDE DEF Q
  <2> QED BY <1>2, TlsfBlocksIs
<1>5. TlsfHeads(S) = {c \in TwoLevel!Cell : tlsfMem.size[c] # TwoLevel!None}
  BY DEF TlsfHeads
<1>6. TlsfEnds = {TwoLevel!Sentinel(p) : p \in TwoLevel!Pool}
  <2>1. TwoLevel!Sentinel(0) = Split - 1 /\ TwoLevel!Sentinel(Split) = TlsfCells - 1
    BY TlsfConsts DEF TwoLevel!Sentinel
  <2> QED BY <2>1 DEF TlsfEnds, TwoLevel!Pool
<1>7. TwoLevel!NextOf(tlsfMem, 0) = TlsfNx(S, 0) /\ \A b : TwoLevel!NextOf(tlsfMem, b) = TlsfNx(S, b)
  BY DEF TwoLevel!NextOf, TlsfNx
<1> HIDE DEF S, Q, F
<1>8. heads = TlsfHeads(S)
  <2>1. ASSUME NEW b \in TlsfHeads(S) PROVE b \in heads
    <3>1. PICK p \in Q : p <= b /\ b <= TwoLevel!Sentinel(p)
      BY <1>2, TlsfTiledIs
    <3>2. b \in TwoLevel!Blocks(tlsfMem, p)
      BY <1>4, <3>1 DEF TlsfPart
    <3> QED BY <3>2
  <2>2. ASSUME NEW p \in Q PROVE TwoLevel!Blocks(tlsfMem, p) \subseteq TlsfHeads(S)
    BY <1>4 DEF TlsfPart
  <2> QED BY <2>1, <2>2
<1>9. ASSUME NEW c \in TwoLevel!ClassIndex
      PROVE  /\ c \in tlsfMem.sl <=> tlsfMem.lists[c] # <<>>
             /\ TwoLevel!IsInjective(tlsfMem.lists[c])
             /\ TwoLevel!Range(tlsfMem.lists[c]) = {b \in tlsfMem.free : TwoLevel!Class(tlsfMem.size[b]) = c}
  BY <1>3 DEF TlsfListed, S, F
<1>10. tlsfMem.fl = {c[1] : c \in tlsfMem.sl}
  BY <1>3 DEF TlsfListed
<1>11. ASSUME NEW p \in Q, NEW b \in TwoLevel!Blocks(tlsfMem, p)
       PROVE  /\ b < TwoLevel!Sentinel(p) => /\ tlsfMem.size[b] >= TwoLevel!block_size_min
                                             /\ b \in tlsfMem.free <=> TwoLevel!NextOf(tlsfMem, b) \in tlsfMem.prevFree
                                             /\ b \in tlsfMem.free => tlsfMem.prev[TwoLevel!NextOf(tlsfMem, b)] = b
              /\ p \notin tlsfMem.prevFree
  <2>1. b \in TlsfPart(S, p)
    BY <1>4
  <2>2. /\ tlsfMem.prevFree = {TlsfNx(S, x) : x \in F} /\ \A x \in F : tlsfMem.prev[TlsfNx(S, x)] = x
    BY <1>3 DEF TlsfMarked
  <2>3. p \notin tlsfMem.prevFree
    <3>1. p \in TwoLevel!Pool
      BY <1>2, TlsfTiledIs
    <3>2. ASSUME NEW x \in F PROVE TlsfNx(S, x) # p
      BY <1>2, <3>1, TlsfPoolFollowsNone
    <3> QED BY <2>2, <3>2
  <2>4. CASE b < TwoLevel!Sentinel(p)
    <3>1. b # TwoLevel!Sentinel(p)
      <4>1. b \in Nat /\ TwoLevel!Sentinel(p) \in Nat
        BY <1>2, <2>1, TlsfTiledIs, TlsfPartIs DEF TlsfPart
      <4> QED BY <4>1, <2>4
    <3>2. b \in TlsfHeads(S) \ TlsfEnds
      BY <1>2, <2>1, <3>1, TlsfPartIs
    <3>3. S[b] >= TwoLevel!block_size_min
      BY <1>2, <3>2, TlsfTiledIs DEF TlsfLies
    <3>4. b \in F <=> TlsfNx(S, b) \in tlsfMem.prevFree
      <4>1. ASSUME NEW x \in F, TlsfNx(S, x) = TlsfNx(S, b) PROVE x = b
        BY <1>2, <3>2, <4>1, TlsfNextOnce
      <4> QED BY <4>1, <2>2
    <3>5. b \in F => tlsfMem.prev[TlsfNx(S, b)] = b
      BY <2>2
    <3>6. TwoLevel!NextOf(tlsfMem, b) = TlsfNx(S, b)
      BY <1>7
    <3>7. /\ tlsfMem.size[b] >= TwoLevel!block_size_min
          /\ b \in tlsfMem.free <=> TwoLevel!NextOf(tlsfMem, b) \in tlsfMem.prevFree
          /\ b \in tlsfMem.free => tlsfMem.prev[TwoLevel!NextOf(tlsfMem, b)] = b
      BY <3>3, <3>4, <3>5, <3>6 DEF S, F
    <3> QED BY <3>7, <2>3
  <2>5. CASE ~(b < TwoLevel!Sentinel(p))
    BY <2>3, <2>5
  <2> QED BY <2>4, <2>5
<1>12. {tlsfAt[h] : h \in Handle} \ {TwoLevel!None}
         = heads \ (tlsfMem.free \union {TwoLevel!Sentinel(p) : p \in TwoLevel!Pool})
  <2>1. {tlsfAt[h] : h \in Handle} \ {TwoLevel!None} = TlsfUsed(S, F)
    <3>1. TwoLevel!None \notin TlsfUsed(S, F)
      BY <1>1, TlsfConsts DEF TlsfHeld, TwoLevel!Cell, TwoLevel!None
    <3> QED BY <1>1, <3>1 DEF TlsfHeld
  <2> QED BY <2>1, <1>6, <1>8 DEF TlsfUsed, F
<1>13. \A h \in Handle : tlsfAt[h] # TwoLevel!None => (tlsfAt[h] + 1) % tlsfWant[h] = 0
  BY <1>1 DEF TlsfAligned
<1> HIDE DEF heads
<1>14. heads = UNION {TwoLevel!Blocks(tlsfMem, p) : p \in tlsfMem.pools}
  BY DEF heads, Q
<1>15. \A p \in tlsfMem.pools : \A b \in TwoLevel!Blocks(tlsfMem, p) :
           /\ b < TwoLevel!Sentinel(p) => /\ tlsfMem.size[b] >= TwoLevel!block_size_min
                                          /\ b \in tlsfMem.free <=> TwoLevel!NextOf(tlsfMem, b) \in tlsfMem.prevFree
                                          /\ b \in tlsfMem.free => tlsfMem.prev[TwoLevel!NextOf(tlsfMem, b)] = b
           /\ p \notin tlsfMem.prevFree
  BY <1>11 DEF Q
<1> QED BY <1>5, <1>8, <1>9, <1>10, <1>12, <1>13, <1>14, <1>15 DEF TwoLevel!Integrity

LEMMA TlsfCoalescedIs == ASSUME TlsfIInv PROVE TwoLevel!Coalesced
<1>1. TlsfGood(tlsfMem, tlsfMem.size, tlsfMem.pools, tlsfMem.free)
  BY DEF TlsfIInv, TlsfSound
<1>2. TlsfMarked(tlsfMem.prev, tlsfMem.prevFree, tlsfMem.size, tlsfMem.free) /\ TlsfApart(tlsfMem.size, tlsfMem.free)
  BY <1>1, TlsfGoodIs, TlsfLikeIs DEF TlsfGood
<1>3. \A b \in tlsfMem.free : b \notin tlsfMem.prevFree
  BY <1>2 DEF TlsfMarked, TlsfApart
<1> QED BY <1>3 DEF TwoLevel!Coalesced

LEMMA TlsfTypesAre == ASSUME TlsfIInv PROVE TwoLevel!TypeOK
<1> DEFINE S == tlsfMem.size
           Q == tlsfMem.pools
           F == tlsfMem.free
<1>1. /\ TlsfGood(tlsfMem, S, Q, F) /\ TlsfHeld(tlsfAt, TlsfUsed(S, F)) /\ TlsfAligned(tlsfAt, tlsfWant)
      /\ tlsfDenied \in {<<>>} \union (Handle \X Nat)
  BY DEF TlsfIInv, TlsfSound
<1>2. /\ TlsfTiled(S, Q) /\ TlsfLike(tlsfMem, S, Q, F, F, F) /\ F \subseteq TlsfHeads(S) \ TlsfEnds
  BY <1>1, TlsfGoodIs
<1>3. /\ TlsfMarked(tlsfMem.prev, tlsfMem.prevFree, S, F) /\ TlsfListed(tlsfMem.lists, tlsfMem.sl, tlsfMem.fl, S, F)
      /\ tlsfMem.data \in TlsfDatas
  BY <1>2, TlsfLikeIs
<1> HIDE DEF S, Q, F
<1>4. tlsfMem.sl \subseteq TwoLevel!ClassIndex /\ tlsfMem.lists \in [TwoLevel!ClassIndex -> Seq(TwoLevel!Cell)]
      /\ tlsfMem.fl = {c[1] : c \in tlsfMem.sl}
  BY <1>3 DEF TlsfListed
<1>5. tlsfMem.fl \subseteq 0 .. FlCount - 1
  <2>1. \A c \in TwoLevel!ClassIndex : c[1] \in 0 .. FlCount - 1
    BY DEF TwoLevel!ClassIndex
  <2> QED BY <1>4, <2>1
<1>6. S \in [TwoLevel!Cell -> TwoLevel!Cell \union {TwoLevel!None}] /\ Q \subseteq TwoLevel!Pool /\ F \subseteq TwoLevel!Cell
  BY <1>2, TlsfTiledIs
<1>7. tlsfMem.prev \in [TwoLevel!Cell -> TwoLevel!Cell \union {TwoLevel!None}] /\ tlsfMem.prevFree \subseteq TwoLevel!Cell
  <2>1. tlsfMem.prev \in [TwoLevel!Cell -> TwoLevel!Cell \union {TwoLevel!None}] /\ tlsfMem.prevFree = {TlsfNx(S, x) : x \in F}
    BY <1>3 DEF TlsfMarked
  <2>2. \A x \in F : TlsfNx(S, x) \in TwoLevel!Cell
    BY <1>2, TlsfNextInCell
  <2> QED BY <2>1, <2>2
<1>8. tlsfMem.data \in [TwoLevel!Cell -> {Nobody} \union (Handle \X Nat)]
  BY <1>3 DEF TlsfDatas
<1>9. tlsfAt \in [Handle -> TwoLevel!Cell \union {TwoLevel!None}] /\ tlsfWant \in [Handle -> {1} \union Aligns]
  BY <1>1 DEF TlsfHeld, TlsfAligned
<1> QED BY <1>1, <1>4, <1>5, <1>6, <1>7, <1>8, <1>9 DEF TwoLevel!TypeOK, S, Q, F

LEMMA TlsfStep == ASSUME TlsfIInv, [TwoLevel!Next]_TwoLevel!vars PROVE TlsfIInv'
<1>1. CASE TwoLevel!Create
  BY <1>1, TlsfStepCreate DEF TwoLevel!Create
<1>2. CASE \E p \in TwoLevel!Pool : TwoLevel!AddPool(p) \/ TwoLevel!RemovePool(p)
  BY <1>2, TlsfStepAddPool, TlsfStepRemovePool
<1>3. CASE \E h \in Handle : TwoLevel!Free(h)
  BY <1>3, TlsfStepFree
<1>4. CASE \E h \in Handle : \E size \in TlsfSizes : TwoLevel!Malloc(h, size) \/ TwoLevel!Resize(h, size) \/ TwoLevel!Move(h, size)
  BY <1>4, TlsfStepMalloc, TlsfStepResize, TlsfStepMove
<1>5. CASE \E h \in Handle : \E size \in TlsfSizes : \E a \in Aligns : TwoLevel!Memalign(h, a, size)
  BY <1>5, TlsfStepMemalign
<1>6. CASE UNCHANGED TwoLevel!vars
  BY <1>6 DEF TwoLevel!vars, TlsfIInv, TlsfSound, TlsfAligned
<1> QED BY <1>1, <1>2, <1>3, <1>4, <1>5, <1>6 DEF TwoLevel!Next

LEMMA TlsfStart == ASSUME TwoLevel!Init PROVE TlsfIInv
<1>1. TlsfHeld([h \in Handle |-> TwoLevel!None], {})
  BY DEF TlsfHeld
<1>2. TlsfSound(TwoLevel!Constructed, [h \in Handle |-> TwoLevel!None])
  BY <1>1, TlsfNothing, TlsfSoundIs
<1>3. TlsfAligned([h \in Handle |-> TwoLevel!None], [h \in Handle |-> 1])
  BY DEF TlsfAligned
<1> QED BY <1>2, <1>3 DEF TlsfIInv, TwoLevel!Init


\* The bitmaps and lists show the free blocks, and the rest is the clients'.
THEOREM TlsfIntegrityHolds == TwoLevel!Spec => []TwoLevel!Integrity
<1>1. TwoLevel!Init => TlsfIInv
  BY TlsfStart
<1>2. TlsfIInv /\ [TwoLevel!Next]_TwoLevel!vars => TlsfIInv'
  BY TlsfStep
<1>3. TlsfIInv => TwoLevel!Integrity
  BY TlsfIntegrityIs
<1> QED BY <1>1, <1>2, <1>3, PTL DEF TwoLevel!Spec

\* No two free blocks lie side by side.
THEOREM TlsfCoalescedHolds == TwoLevel!Spec => []TwoLevel!Coalesced
<1>1. TwoLevel!Init => TlsfIInv
  BY TlsfStart
<1>2. TlsfIInv /\ [TwoLevel!Next]_TwoLevel!vars => TlsfIInv'
  BY TlsfStep
<1>3. TlsfIInv => TwoLevel!Coalesced
  BY TlsfCoalescedIs
<1> QED BY <1>1, <1>2, <1>3, PTL DEF TwoLevel!Spec

-----------------------------------------------------------------------------
(* mmem's clients see a heap. *)

\* Each client's block holds what it has written, and one that has none is of size 0.
MmemWritten ==
  /\ \A h \in Handle : h \notin Managed!Listed => mmemSize[h] = 0
  /\ \A h \in Handle : \A i \in 1 .. mmemSize[h] : mmemMem.data[mmemPtr[h] + i - 1] = <<h, i>>

MmemAt == [h \in Handle |-> IF mmemSize[h] > 0 THEN mmemPtr[h] ELSE 0]

LEMMA MmemTypes ==
  ASSUME MmemIInv
  PROVE  /\ mmemMem.data \in [1 .. MmemSize -> {Nobody} \union (Handle \X Nat)]
         /\ mmemPtr \in [Handle -> 1 .. MmemSize + 1] /\ mmemSize \in [Handle -> Nat]
         /\ MmemSize \in Nat /\ Managed!Top = MmemSize - mmemMem.avail + 1 /\ mmemMem.avail \in 0 .. MmemSize
BY MmemBounds DEF MmemIInv, Managed!TypeOK, Managed!Top

\* The blocks lie in the memory, none upon another.
LEMMA MmemApart ==
  ASSUME MmemIInv, MmemWritten
  PROVE  /\ \A g \in Handle : mmemSize[g] > 0 => mmemPtr[g] + mmemSize[g] <= Managed!Top
         /\ \A f, g \in Handle : f # g /\ mmemSize[f] > 0 /\ mmemSize[g] > 0 =>
              mmemPtr[f] + mmemSize[f] <= mmemPtr[g] \/ mmemPtr[g] + mmemSize[g] <= mmemPtr[f]
<1>1. \A g \in Handle : mmemSize[g] > 0 => \E i \in 1 .. Len(mmemMem.list) : g = mmemMem.list[i]
  <2>1. \A g \in Handle : mmemSize[g] > 0 => g \in Managed!Listed
    BY MmemTypes DEF MmemWritten
  <2> QED BY <2>1, MmemListedIs
<1>2. /\ MmemOrdered(mmemMem.list, Len(mmemMem.list), mmemPtr, mmemSize)
      /\ MmemBelow(mmemMem.list, Len(mmemMem.list), mmemPtr, mmemSize, Managed!Top)
  BY MmemState DEF MmemTiled
<1>3. ASSUME NEW g \in Handle, mmemSize[g] > 0
      PROVE  mmemPtr[g] + mmemSize[g] <= Managed!Top
  BY <1>1, <1>2, <1>3 DEF MmemBelow
<1>4. ASSUME NEW f \in Handle, NEW g \in Handle, f # g, mmemSize[f] > 0, mmemSize[g] > 0
      PROVE  mmemPtr[f] + mmemSize[f] <= mmemPtr[g] \/ mmemPtr[g] + mmemSize[g] <= mmemPtr[f]
  <2>1. PICK i \in 1 .. Len(mmemMem.list) : f = mmemMem.list[i]
    BY <1>1, <1>4
  <2>2. PICK j \in 1 .. Len(mmemMem.list) : g = mmemMem.list[j]
    BY <1>1, <1>4
  <2>3. Len(mmemMem.list) \in Nat
    BY MmemState
  <2>4. i < j \/ j < i
    BY <2>1, <2>2, <2>3, <1>4
  <2> QED BY <2>1, <2>2, <2>4, <1>2 DEF MmemOrdered
<1> QED BY <1>3, <1>4

\* mmem_alloc succeeds.
LEMMA MmemAllocWrites ==
  ASSUME MmemIInv, MmemWritten, NEW h \in Handle, NEW n \in MmemSizes, Managed!Alloc(h, n), ~(mmemMem.avail < n)
  PROVE  /\ mmemSize' = [mmemSize EXCEPT ![h] = n] /\ mmemPtr' = [mmemPtr EXCEPT ![h] = Managed!Top]
         /\ h \notin Managed!Listed /\ mmemSize[h] = 0 /\ Managed!Top + n <= MmemSize + 1 /\ mmemDenied' = <<>>
         /\ MmemWritten'
<1>1. /\ mmemMem' = [list |-> Append(mmemMem.list, h), avail |-> mmemMem.avail - n,
                     data |-> [c \in 1 .. MmemSize |->
                                 IF c \in Managed!Top .. Managed!Top + n - 1 THEN <<h, c - Managed!Top + 1>>
                                 ELSE mmemMem.data[c]]]
      /\ mmemPtr' = [mmemPtr EXCEPT ![h] = Managed!Top] /\ mmemSize' = [mmemSize EXCEPT ![h] = n]
      /\ mmemDenied' = <<>> /\ h \notin Managed!Listed
  BY DEF Managed!Alloc
<1>2. n \in Nat /\ mmemSize[h] = 0 /\ Managed!Top + n <= MmemSize + 1 /\ Managed!Top \in Nat /\ Managed!Top >= 1
  BY <1>1, MmemTypes, MmemBounds DEF MmemWritten
<1>3. Managed!Listed' = Managed!Listed \union {h}
  <2>1. mmemMem.list \in Seq(Handle) /\ mmemMem'.list = Append(mmemMem.list, h)
    BY <1>1 DEF MmemIInv, Managed!TypeOK
  <2>2. Managed!Listed = {mmemMem.list[i] : i \in 1 .. Len(mmemMem.list)}
    BY MmemListedIs
  <2>3. Managed!Listed' = {mmemMem'.list[i] : i \in 1 .. Len(mmemMem'.list)}
    BY <2>1 DEF Managed!Listed, Managed!Range
  <2> QED BY <2>1, <2>2, <2>3
<1>4. \A g \in Handle : g \notin Managed!Listed' => mmemSize'[g] = 0
  BY <1>1, <1>3, MmemTypes DEF MmemWritten
<1>5. ASSUME NEW g \in Handle, NEW i \in 1 .. mmemSize'[g]
      PROVE  mmemMem'.data[mmemPtr'[g] + i - 1] = <<g, i>>
  <2>1. CASE g = h
    <3>1. i \in 1 .. n /\ mmemPtr'[g] = Managed!Top
      BY <2>1, <1>1, <1>5, MmemTypes
    <3>2. \A c \in 1 .. MmemSize : c \in Managed!Top .. Managed!Top + n - 1 => mmemMem'.data[c] = <<h, c - Managed!Top + 1>>
      BY <1>1
    <3> DEFINE x == Managed!Top + i - 1
    <3>3. x \in 1 .. MmemSize /\ x \in Managed!Top .. Managed!Top + n - 1 /\ x - Managed!Top + 1 = i
      BY <3>1, <1>2, MmemTypes
    <3> HIDE DEF x
    <3>4. mmemMem'.data[x] = <<h, i>>
      BY ONLY <3>2, <3>3
    <3> QED BY <3>1, <3>4, <2>1 DEF x
  <2>2. CASE g # h
    <3>1. mmemSize'[g] = mmemSize[g] /\ mmemPtr'[g] = mmemPtr[g] /\ mmemSize[g] \in Nat /\ mmemPtr[g] \in Nat /\ mmemPtr[g] >= 1
      BY <2>2, <1>1, MmemTypes
    <3>2. mmemPtr[g] + mmemSize[g] <= Managed!Top /\ i \in 1 .. mmemSize[g]
      BY <3>1, <1>5, MmemApart
    <3>3. mmemPtr[g] + i - 1 \in 1 .. MmemSize /\ mmemPtr[g] + i - 1 \notin Managed!Top .. Managed!Top + n - 1
      BY <3>1, <3>2, <1>2, MmemTypes
    <3>4. mmemMem'.data[mmemPtr[g] + i - 1] = mmemMem.data[mmemPtr[g] + i - 1]
      BY <3>3, <1>1
    <3> QED BY <3>1, <3>2, <3>4 DEF MmemWritten
  <2> QED BY <2>1, <2>2
<1> QED BY <1>1, <1>2, <1>4, <1>5 DEF MmemWritten

LEMMA MmemDroppedIs ==
  ASSUME NEW l \in Seq(Handle), NEW i \in 1 .. Len(l)
  PROVE  \A j \in 1 .. Len(l) - 1 : MmemDropped(l, i)[j] = l[IF j < i THEN j ELSE j + 1]
<1> DEFINE a == SubSeq(l, 1, i - 1)
           b == SubSeq(l, i + 1, Len(l))
<1>1. a \in Seq(Handle) /\ Len(a) = i - 1 /\ \A j \in 1 .. i - 1 : a[j] = l[j]
  OBVIOUS
<1>2. b \in Seq(Handle) /\ Len(b) = Len(l) - i /\ \A j \in 1 .. Len(l) - i : b[j] = l[i + j]
  OBVIOUS
<1>3. MmemDropped(l, i) = a \o b
  BY DEF MmemDropped
<1> HIDE DEF a, b
<1> SUFFICES ASSUME NEW j \in 1 .. Len(l) - 1
             PROVE  (a \o b)[j] = l[IF j < i THEN j ELSE j + 1]
  BY <1>3
<1>4. (a \o b)[j] = IF j <= Len(a) THEN a[j] ELSE b[j - Len(a)]
  BY <1>1, <1>2
<1>5. CASE j < i
  BY <1>1, <1>4, <1>5
<1>6. CASE ~(j < i)
  <2>1. j - Len(a) \in 1 .. Len(l) - i /\ i + (j - Len(a)) = j + 1 /\ ~(j <= Len(a))
    BY <1>1, <1>6
  <2> QED BY <1>2, <1>4, <1>6, <2>1
<1> QED BY <1>5, <1>6

\* mmem_free.
LEMMA MmemFreeWrites ==
  ASSUME MmemIInv, MmemWritten, NEW h \in Handle, Managed!Free(h)
  PROVE  mmemSize' = [mmemSize EXCEPT ![h] = 0] /\ mmemDenied' = <<>> /\ MmemWritten'
<1>1. PICK i \in 1 .. Len(mmemMem.list) : MmemFreesAt(h, i)
  BY MmemFreeIs
<1>2. mmemSize' = [mmemSize EXCEPT ![h] = 0] /\ mmemDenied' = <<>> /\ mmemSize \in [Handle -> Nat]
  BY <1>1, MmemTypes DEF MmemFreesAt
<1>3. /\ mmemMem.list \in Seq(Handle) /\ Len(mmemMem.list) \in Nat
      /\ MmemOrdered(mmemMem.list, Len(mmemMem.list), mmemPtr, mmemSize)
      /\ MmemBelow(mmemMem.list, Len(mmemMem.list), mmemPtr, mmemSize, Managed!Top)
  BY MmemState DEF MmemTiled, MmemTyped
<1>4. ASSUME NEW g \in Handle, g \notin Managed!Listed'
      PROVE  mmemSize'[g] = 0
  <2>1. CASE g = h
    BY <2>1, <1>2
  <2>2. CASE g # h
    <3>1. ASSUME NEW j \in 1 .. Len(mmemMem.list), g = mmemMem.list[j]
          PROVE  FALSE
      <4>1. j # i
        BY <3>1, <2>2, <1>1 DEF MmemFreesAt
      <4>2. Managed!Listed' = {mmemMem'.list[k] : k \in 1 .. Len(mmemMem'.list)}
        BY <1>1 DEF Managed!Listed, Managed!Range, MmemFreesAt
      <4>3. /\ Len(mmemMem'.list) = Len(mmemMem.list) - 1
            /\ \A k \in 1 .. Len(mmemMem.list) - 1 : mmemMem'.list[k] = mmemMem.list[IF k < i THEN k ELSE k + 1]
        BY <1>1, <1>3, MmemDroppedIs DEF MmemFreesAt
      <4>4. \E k \in 1 .. Len(mmemMem.list) - 1 : mmemMem'.list[k] = mmemMem.list[j]
        <5>1. CASE j < i
          BY <5>1, <4>3, <1>3
        <5>2. CASE j > i
          <6>1. j - 1 \in 1 .. Len(mmemMem.list) - 1 /\ mmemMem'.list[j - 1] = mmemMem.list[j]
            BY <5>2, <4>3, <1>3
          <6> QED BY <6>1
        <5> QED BY <5>1, <5>2, <4>1, <1>3
      <4> QED BY <4>2, <4>3, <4>4, <3>1, <1>4
    <3>2. g \notin Managed!Listed
      BY <3>1, MmemListedIs
    <3> QED BY <3>2, <2>2, <1>2 DEF MmemWritten
  <2> QED BY <2>1, <2>2
<1>5. ASSUME NEW g \in Handle, NEW k \in 1 .. mmemSize'[g]
      PROVE  mmemMem'.data[mmemPtr'[g] + k - 1] = <<g, k>>
  <2>1. g # h /\ mmemSize'[g] = mmemSize[g] /\ k \in 1 .. mmemSize[g] /\ mmemSize[g] \in Nat
    BY <1>2, <1>5
  <2>2. PICK j \in 1 .. Len(mmemMem.list) : g = mmemMem.list[j]
    <3>1. g \in Managed!Listed
      BY <2>1 DEF MmemWritten
    <3> QED BY <3>1, MmemListedIs
  <2>3. mmemMem.list[i] = h /\ j # i
    BY <1>1, <2>1, <2>2 DEF MmemFreesAt
  <2>4. mmemPtr[g] + mmemSize[g] <= Managed!Top /\ mmemPtr[g] \in 1 .. MmemSize + 1 /\ mmemPtr[h] \in 1 .. MmemSize + 1
        /\ mmemSize[h] \in Nat /\ MmemSize \in Nat /\ Managed!Top \in Nat /\ Managed!Top <= MmemSize + 1
    <3>1. mmemPtr[g] + mmemSize[g] <= Managed!Top
      BY <1>3, <2>2 DEF MmemBelow
    <3>2. Managed!Top \in Nat /\ Managed!Top <= MmemSize + 1
      BY MmemTypes
    <3> QED BY <3>1, <3>2, MmemTypes
  <2>5. mmemMem.data[mmemPtr[g] + k - 1] = <<g, k>>
    BY <2>1 DEF MmemWritten
  <2>6. \A c \in 1 .. MmemSize :
          mmemMem'.data[c] = IF c < mmemPtr[h] THEN mmemMem.data[c]
                             ELSE IF c < Managed!Top - mmemSize[h] THEN mmemMem.data[c + mmemSize[h]] ELSE Nobody
    BY <1>1 DEF MmemFreesAt
  <2>7. CASE j < i
    <3>1. mmemPtr[g] + mmemSize[g] <= mmemPtr[h]
      BY <2>7, <2>3, <2>2, <1>3 DEF MmemOrdered
    <3>2. ~(\E m \in i + 1 .. Len(mmemMem.list) : g = mmemMem.list[m])
      BY <2>7, <2>2, <1>3 DEF MmemOrdered
    <3>3. mmemPtr'[g] = mmemPtr[g]
      BY <3>2, <2>1, <1>1 DEF MmemFreesAt
    <3>4. mmemPtr[g] + k - 1 \in 1 .. MmemSize /\ mmemPtr[g] + k - 1 < mmemPtr[h]
      BY ONLY <3>1, <2>1, <2>4, SMTT(20)
    <3> QED BY <3>3, <3>4, <2>5, <2>6
  <2>8. CASE i < j
    <3>1. mmemPtr[h] + mmemSize[h] <= mmemPtr[g]
      BY <2>8, <2>3, <2>2, <1>3 DEF MmemOrdered
    <3>2. mmemPtr'[g] = mmemPtr[g] - mmemSize[h]
      <4>1. j \in i + 1 .. Len(mmemMem.list)
        BY <2>8, <1>3
      <4> QED BY <4>1, <2>2, <2>1, <1>1 DEF MmemFreesAt
    <3>3. mmemPtr[g] - mmemSize[h] + k - 1 \in 1 .. MmemSize /\ ~(mmemPtr[g] - mmemSize[h] + k - 1 < mmemPtr[h])
          /\ mmemPtr[g] - mmemSize[h] + k - 1 < Managed!Top - mmemSize[h]
          /\ mmemPtr[g] - mmemSize[h] + k - 1 + mmemSize[h] = mmemPtr[g] + k - 1
      BY ONLY <3>1, <2>1, <2>4, SMTT(20)
    <3> QED BY <3>2, <3>3, <2>5, <2>6
  <2> QED BY <2>3, <2>7, <2>8, <1>3
<1> QED BY <1>2, <1>4, <1>5 DEF MmemWritten

\* Where Heap sees the blocks of mmem, and what is in them.
MmemSeesAt == [h \in Handle |-> IF Managed!Has(h) THEN mmemPtr[h] ELSE 0]
MmemSees == [h \in Handle |->
               IF Managed!Has(h)
               THEN SubSeq([c \in 1 .. MmemSize |-> mmemMem.data[c]], mmemPtr[h], mmemPtr[h] + mmemSize[h] - 1)
               ELSE <<>>]
MmemView == MmemSeesAt = MmemAt /\ MmemSees = HeapContent(mmemSize)

LEMMA MmemSeen == MmemIInv /\ MmemWritten => MmemView
<1> SUFFICES ASSUME MmemIInv, MmemWritten
             PROVE  MmemView
  OBVIOUS
<1>1. \A h \in Handle : Managed!Has(h) <=> mmemSize[h] > 0
  <2>1. ASSUME NEW h \in Handle, mmemSize[h] > 0
        PROVE  h \in Managed!Listed
    BY <2>1 DEF MmemWritten
  <2> QED BY <2>1 DEF Managed!Has
<1>2. [h \in Handle |-> IF Managed!Has(h) THEN mmemPtr[h] ELSE 0] = MmemAt
  BY <1>1 DEF MmemAt
<1>3. ASSUME NEW h \in Handle
      PROVE  (IF Managed!Has(h)
              THEN SubSeq([c \in 1 .. MmemSize |-> mmemMem.data[c]], mmemPtr[h], mmemPtr[h] + mmemSize[h] - 1)
              ELSE <<>>) = HeapWords(h, mmemSize[h])
  <2>1. CASE ~Managed!Has(h)
    <3>1. mmemSize[h] = 0
      BY <2>1, <1>1, MmemTypes
    <3> QED BY <2>1, <3>1, HeapWordsAre
  <2>2. CASE Managed!Has(h)
    <3> DEFINE d == [c \in 1 .. MmemSize |-> mmemMem.data[c]]
               p == mmemPtr[h]
               n == mmemSize[h]
    <3>1. p \in Nat /\ p >= 1 /\ n \in Nat /\ n > 0 /\ p + n <= MmemSize + 1 /\ MmemSize \in Nat
      BY <2>2, <1>1, MmemTypes, MmemApart
    <3>2. \A c \in 1 .. MmemSize : d[c] = mmemMem.data[c]
      OBVIOUS
    <3>3. \A i \in 1 .. n : mmemMem.data[p + i - 1] = <<h, i>>
      BY DEF MmemWritten
    <3> HIDE DEF d, p, n
    <3>4. SubSeq(d, p, p + n - 1) = [i \in 1 .. n |-> d[p + i - 1]]
      <4> DEFINE s == SubSeq(d, p, p + n - 1)
                 W == {Nobody} \union (Handle \X Nat)
      <4>1. d \in Seq(W) /\ Len(d) = MmemSize
        BY <3>1, MmemTypes DEF d
      <4>2. s \in Seq(W) /\ Len(s) = n /\ \A i \in 1 .. n : s[i] = d[p + i - 1]
        BY <3>1, <4>1
      <4> HIDE DEF s, W
      <4>3. s = [i \in 1 .. n |-> s[i]]
        BY <4>2
      <4> QED BY <4>2, <4>3 DEF s
    <3>5. \A i \in 1 .. n : d[p + i - 1] = <<h, i>>
      BY <3>1, <3>2, <3>3
    <3>6. SubSeq(d, p, p + n - 1) = HeapWords(h, n)
      BY <3>4, <3>5 DEF HeapWords
    <3> QED BY <2>2, <3>6 DEF d, p, n
  <2> QED BY <2>1, <2>2
<1>4. [h \in Handle |->
         IF Managed!Has(h)
         THEN SubSeq([c \in 1 .. MmemSize |-> mmemMem.data[c]], mmemPtr[h], mmemPtr[h] + mmemSize[h] - 1)
         ELSE <<>>] = HeapContent(mmemSize)
  BY <1>3 DEF HeapContent
<1> QED BY <1>2, <1>4 DEF MmemView, MmemSeesAt, MmemSees

\* A block takes as many bytes as were asked for.
LEMMA MmemNeeds ==
  ASSUME NEW n \in MmemSizes, n > 0
  PROVE  n \in Managed!Clients!Needs /\ n \in Nat
<1>1. n \in Nat /\ n \in 1 .. n + 1 /\ \A m \in 1 .. n + 1 :
        (m * 1 - 0 >= n /\ \A k \in 1 .. m - 1 : k * 1 - 0 < n) <=> m = n
  <2>1. n \in Nat
    BY MmemBounds
  <2>2. ASSUME NEW m \in 1 .. n + 1, m * 1 - 0 >= n, \A k \in 1 .. m - 1 : k * 1 - 0 < n
        PROVE  m = n
    <3>1. CASE m > n
      <4>1. n \in 1 .. m - 1 /\ ~(n * 1 - 0 < n)
        BY <2>1, <3>1
      <4> QED BY <4>1, <2>2
    <3> QED BY <3>1, <2>1, <2>2
  <2>3. n * 1 - 0 >= n /\ \A k \in 1 .. n - 1 : k * 1 - 0 < n
    BY <2>1
  <2> QED BY <2>1, <2>2, <2>3
<1>2. Managed!Clients!Need(n) = n
  BY <1>1 DEF Managed!Clients!Need
<1>3. n \in MmemSizes \ {0}
  BY MmemBounds
<1> QED BY <1>1, <1>2, <1>3 DEF Managed!Clients!Needs

LEMMA MmemRooms ==
  ASSUME MmemIInv, MmemWritten, NEW h \in Handle, NEW n
  PROVE  Managed!Clients!Rooms(h, n) = HeapRooms(MmemAt, HeapContent(mmemSize), 1 .. MmemSize, h, n)
<1>1. Managed!Clients!Rooms(h, n) = HeapRooms(MmemSeesAt, MmemSees, 1 .. MmemSize, h, n)
  BY Zenon DEF MmemSeesAt, MmemSees, Managed!Clients!Rooms, Managed!Clients!Extent, HeapRooms, HeapExtent
<1>2. MmemSeesAt = MmemAt /\ MmemSees = HeapContent(mmemSize)
  BY MmemSeen DEF MmemView
<1> QED BY <1>1, <1>2, Zenon

LEMMA MmemAtIs ==
  ASSUME MmemIInv, MmemWritten
  PROVE  /\ MmemAt \in [Handle -> Nat] /\ mmemSize \in [Handle -> Nat]
         /\ \A h \in Handle : mmemSize[h] > 0 => MmemAt[h] = mmemPtr[h] /\ MmemAt[h] > 0
         /\ \A h \in Handle : mmemSize[h] = 0 => MmemAt[h] = 0
BY MmemTypes DEF MmemAt

\* The blocks lie in the memory, none upon another.
MmemLies ==
  /\ MmemAt \in [Handle -> Nat]
  /\ \A g \in Handle : mmemSize[g] > 0 => MmemAt[g] > 0
  /\ \A g \in Handle : mmemSize[g] = 0 => MmemAt[g] = 0
  /\ \A g \in Handle : mmemSize[g] > 0 => MmemAt[g] + mmemSize[g] <= MmemSize + 1
  /\ \A f, g \in Handle : f # g /\ mmemSize[f] > 0 /\ mmemSize[g] > 0 =>
       MmemAt[f] + mmemSize[f] <= MmemAt[g] \/ MmemAt[g] + mmemSize[g] <= MmemAt[f]

LEMMA MmemLiesSo == MmemIInv /\ MmemWritten => MmemLies
<1> SUFFICES ASSUME MmemIInv, MmemWritten
             PROVE  MmemLies
  OBVIOUS
<1>1. \A g \in Handle : mmemSize[g] > 0 => MmemAt[g] + mmemSize[g] <= MmemSize + 1
  BY MmemAtIs, MmemApart, MmemTypes
<1>2. \A f, g \in Handle : f # g /\ mmemSize[f] > 0 /\ mmemSize[g] > 0 =>
       MmemAt[f] + mmemSize[f] <= MmemAt[g] \/ MmemAt[g] + mmemSize[g] <= MmemAt[f]
  BY MmemAtIs, MmemApart
<1> QED BY <1>1, <1>2, MmemAtIs DEF MmemLies

\* An allocation that succeeds is one Heap grants.
LEMMA MmemGrants ==
  ASSUME MmemIInv, MmemWritten, MmemIInv', NEW h \in Handle, NEW n \in MmemSizes, n > 0,
         Managed!Alloc(h, n), ~(mmemMem.avail < n)
  PROVE  Managed!Clients!Grant(h, n)
<1>1. n \in Nat /\ MmemWritten' /\ mmemSize' = [mmemSize EXCEPT ![h] = n] /\ mmemPtr' = [mmemPtr EXCEPT ![h] = Managed!Top]
      /\ Managed!Top + n <= MmemSize + 1 /\ mmemDenied' = <<>> /\ mmemSize[h] = 0 /\ Managed!Top \in Nat /\ Managed!Top > 0
  BY MmemAllocWrites, MmemTypes, MmemBounds
<1>2. MmemAt' = [MmemAt EXCEPT ![h] = Managed!Top]
  BY <1>1, MmemTypes DEF MmemAt
<1>3. HeapFits(MmemAt, mmemSize, 1 .. MmemSize, h, Managed!Top, n)
  <2>1. Managed!Top .. Managed!Top + n - 1 \subseteq 1 .. MmemSize
    BY <1>1, MmemBounds
  <2>2. ASSUME NEW g \in Handle \ {h}
        PROVE  (Managed!Top .. Managed!Top + n - 1) \intersect (MmemAt[g] .. MmemAt[g] + mmemSize[g] - 1) = {}
    <3>1. mmemSize[g] > 0 => MmemAt[g] + mmemSize[g] <= Managed!Top
      BY MmemApart, MmemAtIs
    <3>2. mmemSize[g] \in Nat /\ MmemAt[g] \in Nat
      BY MmemAtIs
    <3> QED BY <3>1, <3>2, <1>1
  <2> QED BY <2>1, <2>2 DEF HeapFits
<1>4. Managed!Top \in Managed!Clients!Rooms(h, n)
  BY <1>1, <1>3, MmemAtIs, MmemRooms, HeapRoomIs
<1>5. HeapContent(mmemSize') = HeapPut(HeapContent(mmemSize), h, HeapLonger(HeapContent(mmemSize)[h], h, n))
  <2>1. mmemSize \in [Handle -> Nat] /\ h \in Handle /\ n \in Nat /\ mmemSize' = [mmemSize EXCEPT ![h] = n]
    BY <1>1, MmemTypes
  <2> QED BY ONLY <2>1, HeapGrants
<1>6. MmemView /\ MmemView'
  BY <1>1, MmemSeen, PTL
<1> QED BY <1>1, <1>2, <1>4, <1>5, <1>6, Zenon DEF MmemView, MmemSeesAt, MmemSees, HeapPut, HeapLonger, Managed!Clients!Grant

\* One that fails is one Heap denies: all memory that is free is at the top.
LEMMA MmemDenies ==
  ASSUME MmemIInv, MmemWritten, NEW h \in Handle, NEW n \in MmemSizes, Managed!Alloc(h, n), mmemMem.avail < n
  PROVE  n > 0 /\ Managed!Clients!Deny(h, n) /\ MmemWritten'
<1>1. /\ mmemDenied' = <<h, n>> /\ h \notin Managed!Listed
      /\ mmemMem' = mmemMem /\ mmemPtr' = mmemPtr /\ mmemSize' = mmemSize
  BY DEF Managed!Alloc
<1>2. n \in Nat /\ n > 0 /\ Managed!Top + n > MmemSize + 1 /\ Managed!Top \in Nat /\ Managed!Top >= 1 /\ MmemSize \in Nat
  BY MmemTypes, MmemBounds
<1>3. ASSUME NEW b \in Nat, HeapFits(MmemAt, mmemSize, 1 .. MmemSize, h, b, n)
      PROVE  FALSE
  <2>1. b >= 1 /\ b + n - 1 <= MmemSize
    <3>1. b \in b .. b + n - 1 /\ b + n - 1 \in b .. b + n - 1
      BY <1>2
    <3>2. b .. b + n - 1 \subseteq 1 .. MmemSize
      BY <1>3 DEF HeapFits
    <3> QED BY <3>1, <3>2, <1>2
  <2>2. b \in 1 .. Managed!Top - 1
    BY <2>1, <1>2
  <2>3. MmemCovered(mmemMem.list, Len(mmemMem.list), mmemPtr, mmemSize, Managed!Top)
    BY MmemState DEF MmemTiled
  <2>4. PICK i \in 1 .. Len(mmemMem.list) :
          b \in mmemPtr[mmemMem.list[i]] .. mmemPtr[mmemMem.list[i]] + mmemSize[mmemMem.list[i]] - 1
    BY <2>2, <2>3 DEF MmemCovered
  <2>5. mmemMem.list[i] \in Handle \ {h}
    BY <1>1, MmemListedIs
  <2>6. ASSUME NEW g \in Handle \ {h}, b \in mmemPtr[g] .. mmemPtr[g] + mmemSize[g] - 1
        PROVE  FALSE
    <3>1. mmemPtr[g] \in Nat /\ mmemSize[g] \in Nat
      BY MmemTypes
    <3>2. mmemSize[g] > 0
      BY <3>1, <2>6
    <3>3. MmemAt[g] = mmemPtr[g]
      BY <3>2, MmemAtIs
    <3>4. b \in MmemAt[g] .. MmemAt[g] + mmemSize[g] - 1 /\ b \in b .. b + n - 1
      BY <3>3, <2>6, <1>2
    <3> QED BY <3>4, <1>3 DEF HeapFits
  <2> QED BY <2>4, <2>5, <2>6
<1>4. Managed!Clients!Rooms(h, n) = {}
  <2>1. ASSUME NEW b \in Managed!Clients!Rooms(h, n)
        PROVE  FALSE
    <3>1. b \in HeapRooms(MmemAt, HeapContent(mmemSize), 1 .. MmemSize, h, n)
      BY MmemRooms
    <3>2. b \in Nat
      BY <3>1, <1>2 DEF HeapRooms
    <3> QED BY <3>1, <3>2, <1>2, <1>3, MmemAtIs, HeapRoomIs
  <2> QED BY <2>1
<1>5. MmemWritten'
  BY <1>1 DEF MmemWritten, Managed!Listed, Managed!Range
<1>6. Managed!Clients!Deny(h, n)
  BY <1>1, <1>4, Zenon DEF Managed!Clients!Deny, Managed!Has, Managed!Listed, Managed!Range
<1> QED BY <1>2, <1>5, <1>6

\* Freeing is Heap's, and so is an allocation of no bytes: there is no more than before.
LEMMA MmemFreed ==
  ASSUME MmemIInv, MmemWritten, MmemIInv', MmemWritten', NEW h \in Handle, mmemSize' = [mmemSize EXCEPT ![h] = 0],
         mmemDenied' = <<>>
  PROVE  Managed!Clients!Free(h)
<1>1. MmemView /\ MmemView'
  BY MmemSeen, PTL
<1>2. HeapContent(mmemSize') = [HeapContent(mmemSize) EXCEPT ![h] = <<>>]
  <2>1. mmemSize \in [Handle -> Nat] /\ h \in Handle /\ mmemSize' = [mmemSize EXCEPT ![h] = 0]
    BY MmemTypes
  <2> QED BY ONLY <2>1, HeapFreed
<1>3. /\ MmemAt \in [Handle -> Nat] /\ mmemSize \in [Handle -> Nat] /\ MmemSize \in Nat
      /\ \A g \in Handle : mmemSize[g] > 0 => MmemAt[g] > 0
      /\ \A g \in Handle : mmemSize[g] = 0 => MmemAt[g] = 0
  BY MmemAtIs, MmemTypes
<1>4. /\ MmemAt' \in [Handle -> Nat]
      /\ \A g \in Handle : mmemSize'[g] > 0 => MmemAt'[g] > 0
      /\ \A g \in Handle : mmemSize'[g] = 0 => MmemAt'[g] = 0
      /\ \A g \in Handle : mmemSize'[g] > 0 => MmemAt'[g] + mmemSize'[g] <= MmemSize + 1
      /\ \A f, g \in Handle : f # g /\ mmemSize'[f] > 0 /\ mmemSize'[g] > 0 =>
           MmemAt'[f] + mmemSize'[f] <= MmemAt'[g] \/ MmemAt'[g] + mmemSize'[g] <= MmemAt'[f]
  <2>1. MmemLies'
    BY MmemLiesSo, PTL
  <2> QED BY <2>1 DEF MmemLies
<1>5. MmemAt' \in [Handle -> (1 .. MmemSize) \union {0}]
  <2>1. mmemSize' \in [Handle -> Nat]
    BY <1>3
  <2>2. ASSUME NEW g \in Handle
        PROVE  MmemAt'[g] \in (1 .. MmemSize) \union {0}
    <3>1. mmemSize'[g] \in Nat /\ MmemAt'[g] \in Nat
      BY <2>1, <1>4
    <3>2. CASE mmemSize'[g] = 0
      BY <3>2, <1>4
    <3>3. CASE mmemSize'[g] > 0
      BY <3>1, <3>3, <1>3, <1>4
    <3> QED BY <3>1, <3>2, <3>3
  <2> QED BY <2>2, <1>4
<1>6. \A g \in Handle : Len(HeapContent(mmemSize)[g]) = mmemSize[g]
  BY HeapContentIs, <1>3
<1>7. MmemAt' \in Managed!Clients!Moved(h)
  <2> DEFINE extent(g) == MmemAt'[g] .. MmemAt'[g] + Len(HeapContent(mmemSize)[g]) - 1
  <2>1. MmemAt'[h] = 0
    BY <1>3, <1>4
  <2>2. \A g \in Handle \ {h} : extent(g) = MmemAt'[g] .. MmemAt'[g] + mmemSize'[g] - 1 /\ mmemSize'[g] = mmemSize[g]
    BY <1>3, <1>6
  <2>3. ASSUME NEW g \in Handle \ {h}, MmemAt[g] = 0
        PROVE  MmemAt'[g] = 0
    <3>1. mmemSize[g] = 0
      BY <2>3, <1>3
    <3> QED BY <3>1, <2>2, <1>4
  <2>4. ASSUME NEW g \in Handle \ {h}, MmemAt[g] # 0
        PROVE  /\ extent(g) \subseteq 1 .. MmemSize
               /\ \A f \in Handle \ {g} : MmemAt'[f] = 0 \/ extent(f) \intersect extent(g) = {}
    <3>1. mmemSize'[g] > 0 /\ mmemSize'[g] \in Nat /\ MmemAt'[g] \in Nat
      BY <2>2, <2>4, <1>3, <1>4
    <3>2. MmemAt'[g] > 0 /\ MmemAt'[g] + mmemSize'[g] <= MmemSize + 1
      BY <3>1, <1>4
    <3>3. extent(g) = MmemAt'[g] .. MmemAt'[g] + mmemSize'[g] - 1
      BY <2>2
    <3> HIDE DEF extent
    <3>4. extent(g) \subseteq 1 .. MmemSize
      BY <3>1, <3>2, <3>3, <1>3
    <3>5. ASSUME NEW f \in Handle \ {g}, MmemAt'[f] # 0
          PROVE  extent(f) \intersect extent(g) = {}
      <4>1. f # h
        BY <2>1, <3>5
      <4>2. mmemSize'[f] \in Nat /\ MmemAt'[f] \in Nat /\ mmemSize'[f] > 0
        BY <4>1, <2>2, <3>5, <1>3, <1>4
      <4>3. MmemAt'[f] + mmemSize'[f] <= MmemAt'[g] \/ MmemAt'[g] + mmemSize'[g] <= MmemAt'[f]
        BY <4>2, <3>1, <1>4
      <4>4. extent(f) = MmemAt'[f] .. MmemAt'[f] + mmemSize'[f] - 1
        BY <4>1, <2>2
      <4> QED BY ONLY <4>2, <4>3, <4>4, <3>1, <3>3, SMTT(20)
    <3> QED BY <3>4, <3>5
  <2> HIDE DEF extent
  <2>5. \A g \in Handle \ {h} :
          IF MmemAt[g] = 0 THEN MmemAt'[g] = 0
          ELSE /\ extent(g) \subseteq 1 .. MmemSize
               /\ \A f \in Handle \ {g} : MmemAt'[f] = 0 \/ extent(f) \intersect extent(g) = {}
    BY <2>3, <2>4
  <2>6. MmemAt' \in HeapMoved(MmemAt, HeapContent(mmemSize), 1 .. MmemSize, h)
    BY ONLY <1>5, <2>1, <2>5, Zenon DEF extent, HeapMoved, HeapExtent
  <2>7. Managed!Clients!Moved(h) = HeapMoved(MmemSeesAt, MmemSees, 1 .. MmemSize, h)
    BY Zenon DEF MmemSeesAt, MmemSees, Managed!Clients!Moved, HeapMoved, HeapExtent
  <2> QED BY ONLY <1>1, <2>6, <2>7, Zenon DEF MmemView
<1>8. MmemSeesAt' \in Managed!Clients!Moved(h)
  BY <1>1, <1>7, Zenon DEF MmemView
<1>9. MmemSees' = [MmemSees EXCEPT ![h] = <<>>]
  BY <1>1, <1>2, Zenon DEF MmemView
<1> QED BY <1>8, <1>9, Zenon DEF MmemSeesAt, MmemSees, Managed!Clients!Free

LEMMA MmemInitSeen == Managed!Init => MmemWritten /\ Managed!Clients!Init
<1> SUFFICES ASSUME Managed!Init
             PROVE  MmemWritten /\ Managed!Clients!Init
  OBVIOUS
<1>1. mmemSize = [h \in Handle |-> 0] /\ mmemDenied = <<>>
  BY DEF Managed!Init
<1>2. MmemWritten
  BY <1>1 DEF MmemWritten
<1>3. MmemSeesAt = [h \in Handle |-> 0] /\ MmemSees = [h \in Handle |-> <<>>]
  <2>1. ASSUME NEW h \in Handle
        PROVE  ~Managed!Has(h)
    <3>1. mmemSize[h] = 0
      BY <1>1
    <3> QED BY <3>1 DEF Managed!Has
  <2> QED BY <2>1 DEF MmemSeesAt, MmemSees
<1>4. Managed!Clients!Init
  BY <1>1, <1>3, Zenon DEF MmemSeesAt, MmemSees, Managed!Clients!Init
<1> QED BY <1>2, <1>4

LEMMA MmemStepsSeen ==
  MmemIInv /\ MmemIInv' /\ MmemWritten /\ [Managed!Next]_Managed!vars =>
    MmemWritten' /\ [Managed!Clients!Next]_Managed!Clients!heap
<1> SUFFICES ASSUME MmemIInv, MmemIInv', MmemWritten, [Managed!Next]_Managed!vars
             PROVE  MmemWritten' /\ [Managed!Clients!Next]_Managed!Clients!heap
  OBVIOUS
<1>1. CASE UNCHANGED Managed!vars
  <2>1. mmemMem' = mmemMem /\ mmemPtr' = mmemPtr /\ mmemSize' = mmemSize /\ mmemDenied' = mmemDenied
    BY <1>1 DEF Managed!vars
  <2>2. MmemWritten'
    BY <2>1 DEF MmemWritten, Managed!Listed, Managed!Range
  <2>3. MmemSeesAt' = MmemSeesAt /\ MmemSees' = MmemSees
    BY <2>1 DEF MmemSeesAt, MmemSees, Managed!Has, Managed!Listed, Managed!Range
  <2>4. UNCHANGED Managed!Clients!heap
    BY <2>1, <2>3, Zenon DEF MmemSeesAt, MmemSees, Managed!Clients!heap
  <2> QED BY <2>2, <2>4
<1>2. ASSUME NEW h \in Handle, Managed!Free(h)
      PROVE  MmemWritten' /\ [Managed!Clients!Next]_Managed!Clients!heap
  <2>1. MmemWritten' /\ mmemSize' = [mmemSize EXCEPT ![h] = 0] /\ mmemDenied' = <<>>
    BY <1>2, MmemFreeWrites
  <2>2. Managed!Clients!Free(h)
    BY <2>1, MmemFreed
  <2> QED BY <2>1, <2>2 DEF Managed!Clients!Next
<1>3. ASSUME NEW h \in Handle, NEW n \in MmemSizes, Managed!Alloc(h, n)
      PROVE  MmemWritten' /\ [Managed!Clients!Next]_Managed!Clients!heap
  <2>1. CASE mmemMem.avail < n
    <3>1. n > 0 /\ Managed!Clients!Deny(h, n) /\ MmemWritten'
      BY <1>3, <2>1, MmemDenies
    <3>2. n \in Managed!Clients!Needs
      BY <3>1, MmemNeeds
    <3> QED BY <3>1, <3>2 DEF Managed!Clients!Next
  <2>2. CASE ~(mmemMem.avail < n) /\ n > 0
    <3>1. Managed!Clients!Grant(h, n) /\ MmemWritten'
      BY <1>3, <2>2, MmemGrants, MmemAllocWrites
    <3>2. n \in Managed!Clients!Needs /\ n \in n .. n + 0
      BY <2>2, MmemNeeds
    <3> QED BY <3>1, <3>2 DEF Managed!Clients!Next
  <2>3. CASE ~(mmemMem.avail < n) /\ ~(n > 0)
    <3>1. n = 0
      BY <2>3, MmemBounds
    <3>2. MmemWritten' /\ mmemSize' = [mmemSize EXCEPT ![h] = 0] /\ mmemDenied' = <<>>
      BY <1>3, <2>3, <3>1, MmemAllocWrites
    <3>3. Managed!Clients!Free(h)
      BY <3>2, MmemFreed
    <3> QED BY <3>2, <3>3 DEF Managed!Clients!Next
  <2> QED BY <2>1, <2>2, <2>3
<1> QED BY <1>1, <1>2, <1>3 DEF Managed!Next

\* The clients of mmem see a heap whose blocks move when others are freed: what
\* each has written stays in its block, blocks do not overlap, and mmem_alloc
\* returns 0 only if there is no room (mmem.c:82-140).
THEOREM MmemImplementsHeap == Managed!Spec => Managed!ImplementsHeap
<1>1. Managed!Init => MmemIInv /\ MmemWritten /\ Managed!Clients!Init
  BY MmemInitSound, MmemInitSeen
<1>2. MmemIInv /\ [Managed!Next]_Managed!vars => MmemIInv'
  BY MmemInductive
<1>3. MmemIInv /\ MmemIInv' /\ MmemWritten /\ [Managed!Next]_Managed!vars =>
        MmemWritten' /\ [Managed!Clients!Next]_Managed!Clients!heap
  BY MmemStepsSeen
<1> QED BY <1>1, <1>2, <1>3, PTL DEF Managed!Spec, Managed!ImplementsHeap, Managed!Clients!Spec

-----------------------------------------------------------------------------
(* lv_mem's clients see a heap. *)

\* What lies in the memory m of the clients, who have the entries a, is theirs.
LvMemHolds(m, a) ==
  \A h \in Handle : a[h] # Lv!None =>
    \A c \in a[h] + 1 .. a[h] + m.size[a[h]] : m.data[c] = <<h, c - a[h] + 1>>

LvMemWritten == LvMemHolds(lvMem, lvAt)

\* How many cells each client has in m, the header among them.
LvMemLong(m, a) == [h \in Handle |-> IF a[h] = Lv!None THEN 0 ELSE m.size[a[h]] + 1]

\* Where Heap sees the blocks of lv_mem, and what is in them.
LvMemSeesAt == [h \in Handle |-> lvAt[h] + 1]
LvMemLen == LvMemLong(lvMem, lvAt)
LvMemSees == [h \in Handle |-> IF lvAt[h] = Lv!None THEN <<>>
                               ELSE [i \in 1 .. lvMem.size[lvAt[h]] + 1 |->
                                       IF i = 1 THEN <<h, 1>> ELSE lvMem.data[lvAt[h] + i - 1]]]

\* The blocks lie apart, and each is as long as one that was asked for.
LvMemView ==
  /\ LvMemSeesAt \in [Handle -> Nat] /\ LvMemLen \in [Handle -> Nat] /\ LvMemSees = HeapContent(LvMemLen)
  /\ HeapLies(LvMemSeesAt, LvMemLen, 1 .. LvCells)
  /\ \A h \in Handle : lvAt[h] # Lv!None =>
       \E s \in LvSizes : LvMemLen[h] = Lv!Units(s) + 1 \/ LvMemLen[h] = Lv!Units(s) + 2

LEMMA LvMemEntryIs ==
  ASSUME LvMemIInv, NEW h \in Handle
  PROVE  /\ LvMemSeesAt[h] \in Nat /\ LvMemLen[h] \in Nat
         /\ lvAt[h] = Lv!None => LvMemSeesAt[h] = 0 /\ LvMemLen[h] = 0
         /\ lvAt[h] # Lv!None =>
              /\ lvAt[h] \in LvMemHeads(lvMem) /\ lvAt[h] \in Nat /\ lvMem.size[lvAt[h]] \in Nat
              /\ LvMemSeesAt[h] = lvAt[h] + 1 /\ LvMemLen[h] = lvMem.size[lvAt[h]] + 1
              /\ lvAt[h] + 1 + lvMem.size[lvAt[h]] <= LvCells
<1>1. LvMemSeesAt[h] = lvAt[h] + 1 /\ LvMemLen[h] = IF lvAt[h] = Lv!None THEN 0 ELSE lvMem.size[lvAt[h]] + 1
  BY DEF LvMemSeesAt, LvMemLen, LvMemLong
<1>2. CASE lvAt[h] = Lv!None
  BY <1>1, <1>2 DEF Lv!None
<1>3. CASE lvAt[h] # Lv!None
  <2>1. lvAt[h] \in LvMemHeads(lvMem)
    BY <1>3, LvMemStateIs DEF LvMemHas
  <2>2. lvAt[h] \in Nat /\ lvMem.size[lvAt[h]] \in Nat /\ lvAt[h] + 1 + lvMem.size[lvAt[h]] \in LvMemHeads(lvMem) \union {LvCells}
    BY <2>1, LvMemStateIs, LvMemShapeIs
  <2>3. lvAt[h] + 1 + lvMem.size[lvAt[h]] <= LvCells
    <3>1. LvMemHeads(lvMem) \subseteq 0 .. LvCells - 2
      BY LvMemStateIs, LvMemShapeIs
    <3> QED BY <3>1, <2>2, LvMemCells
  <2> QED BY <1>1, <1>3, <2>1, <2>2, <2>3
<1> QED BY <1>2, <1>3

LEMMA LvMemSeen == LvMemIInv /\ LvMemWritten => LvMemView
<1> SUFFICES ASSUME LvMemIInv, LvMemWritten
             PROVE  LvMemView
  OBVIOUS
<1>1. LvMemSeesAt \in [Handle -> Nat] /\ LvMemLen \in [Handle -> Nat]
  <2>1. \A h \in Handle : LvMemSeesAt[h] \in Nat /\ LvMemLen[h] \in Nat
    BY LvMemEntryIs
  <2> QED BY <2>1 DEF LvMemSeesAt, LvMemLen, LvMemLong
<1>2. ASSUME NEW h \in Handle
      PROVE  (IF lvAt[h] = Lv!None THEN <<>>
              ELSE [i \in 1 .. lvMem.size[lvAt[h]] + 1 |-> IF i = 1 THEN <<h, 1>> ELSE lvMem.data[lvAt[h] + i - 1]])
               = HeapWords(h, LvMemLen[h])
  <2>1. CASE lvAt[h] = Lv!None
    BY <2>1, LvMemEntryIs, HeapWordsAre
  <2>2. CASE lvAt[h] # Lv!None
    <3> DEFINE e == lvAt[h]
               k == lvMem.size[e]
    <3>1. e \in Nat /\ k \in Nat /\ LvMemLen[h] = k + 1
      BY <2>2, LvMemEntryIs
    <3>2. \A c \in e + 1 .. e + k : lvMem.data[c] = <<h, c - e + 1>>
      BY <2>2 DEF LvMemWritten, LvMemHolds
    <3> HIDE DEF e, k
    <3>3. ASSUME NEW i \in 1 .. k + 1, i # 1
          PROVE  lvMem.data[e + i - 1] = <<h, i>>
      <4>1. e + i - 1 \in e + 1 .. e + k /\ (e + i - 1) - e + 1 = i
        BY <3>1, <3>3
      <4> QED BY <4>1, <3>2
    <3>4. [i \in 1 .. k + 1 |-> IF i = 1 THEN <<h, 1>> ELSE lvMem.data[e + i - 1]] = HeapWords(h, k + 1)
      BY <3>3 DEF HeapWords
    <3> QED BY <3>1, <3>4, <2>2 DEF e, k
  <2> QED BY <2>1, <2>2
<1>3. LvMemSees = HeapContent(LvMemLen)
  BY <1>2 DEF LvMemSees, HeapContent
<1>4. ASSUME NEW g \in Handle
      PROVE  LvMemSeesAt[g] .. LvMemSeesAt[g] + LvMemLen[g] - 1 \subseteq 1 .. LvCells
  BY LvMemEntryIs, LvMemCells
<1>5. ASSUME NEW f \in Handle, NEW g \in Handle, f # g, lvAt[f] # Lv!None, lvAt[g] # Lv!None
      PROVE  lvAt[f] + 1 + lvMem.size[lvAt[f]] <= lvAt[g] \/ lvAt[g] + 1 + lvMem.size[lvAt[g]] <= lvAt[f]
  <2>1. lvAt[f] # lvAt[g]
    BY <1>5, LvMemStateIs DEF LvMemHas
  <2>2. lvAt[f] \in LvMemHeads(lvMem) /\ lvAt[g] \in LvMemHeads(lvMem) /\ lvAt[f] \in Nat /\ lvAt[g] \in Nat
    BY <1>5, LvMemEntryIs
  <2>3. LvMemShape(lvMem, LvMemHeads(lvMem))
    BY LvMemStateIs
  <2> QED BY <2>1, <2>2, <2>3 DEF LvMemShape
<1>6. ASSUME NEW f \in Handle, NEW g \in Handle, f # g
      PROVE  (LvMemSeesAt[f] .. LvMemSeesAt[f] + LvMemLen[f] - 1) \intersect (LvMemSeesAt[g] .. LvMemSeesAt[g] + LvMemLen[g] - 1) = {}
  <2>1. CASE lvAt[f] = Lv!None \/ lvAt[g] = Lv!None
    BY <2>1, LvMemEntryIs
  <2>2. CASE lvAt[f] # Lv!None /\ lvAt[g] # Lv!None
    BY <2>2, <1>5, <1>6, LvMemEntryIs
  <2> QED BY <2>1, <2>2
<1>7. HeapLies(LvMemSeesAt, LvMemLen, 1 .. LvCells)
  BY <1>4, <1>6 DEF HeapLies
<1>8. ASSUME NEW h \in Handle, lvAt[h] # Lv!None
      PROVE  \E s \in LvSizes : LvMemLen[h] = Lv!Units(s) + 1 \/ LvMemLen[h] = Lv!Units(s) + 2
  <2>1. PICK s \in LvSizes : lvMem.size[lvAt[h]] = Lv!Units(s) \/ lvMem.size[lvAt[h]] = Lv!Units(s) + 1
    BY <1>8, LvMemStateIs DEF LvMemHas
  <2>2. Lv!Units(s) \in Nat
    BY LvMemUnitsNat
  <2> QED BY <2>1, <2>2, <1>8, LvMemEntryIs
<1> QED BY <1>1, <1>3, <1>7, <1>8 DEF LvMemView

\* A request takes the fewest units that hold it and the header.
LEMMA LvMemNeeds ==
  ASSUME NEW s \in LvSizes
  PROVE  Lv!Units(s) + 1 \in Lv!Clients!Needs /\ Lv!Units(s) \in Nat
<1>1. s \in Nat /\ Lv!Units(s) \in Nat /\ Lv!Units(s) = (s + 3) \div 4
  BY LvMemUnitsNat DEF Lv!Units
<1>2. Lv!Units(s) + 1 \in 1 .. s + 1 /\ (Lv!Units(s) + 1) * 4 - 4 >= s /\ Lv!Units(s) * 4 - 4 < s
  BY <1>1
<1>3. Lv!Clients!Need(s) = Lv!Units(s) + 1
  BY <1>1, <1>2, HeapNeed DEF Lv!Clients!Need
<1> QED BY <1>1, <1>3 DEF Lv!Clients!Needs

\* If only h's block is another, then it is one that Heap grants, or was freed.
LvMemOnly(h) ==
  /\ LvMemView /\ LvMemView' /\ lvDenied' = <<>>
  /\ HeapSame(LvMemSeesAt, LvMemLen, LvMemSeesAt', LvMemLen', h)

LEMMA LvMemGrants ==
  ASSUME NEW h \in Handle, LvMemOnly(h), lvAt'[h] # Lv!None
  PROVE  Lv!Clients!Next
<1>1. PICK s \in LvSizes : LvMemLen'[h] = Lv!Units(s) + 1 \/ LvMemLen'[h] = Lv!Units(s) + 2
  BY DEF LvMemOnly, LvMemView
<1>2. Lv!Units(s) + 1 \in Lv!Clients!Needs /\ Lv!Units(s) \in Nat
  BY LvMemNeeds
<1>3. /\ LvMemSeesAt \in [Handle -> Nat] /\ LvMemLen \in [Handle -> Nat] /\ LvMemSees = HeapContent(LvMemLen)
      /\ LvMemSeesAt' \in [Handle -> Nat] /\ LvMemLen' \in [Handle -> Nat] /\ LvMemSees' = HeapContent(LvMemLen')
      /\ HeapLies(LvMemSeesAt', LvMemLen', 1 .. LvCells) /\ lvDenied' = <<>>
      /\ HeapSame(LvMemSeesAt, LvMemLen, LvMemSeesAt', LvMemLen', h)
  BY DEF LvMemOnly, LvMemView
<1>4. PICK n \in Nat : n = LvMemLen'[h]
  BY <1>3
<1>5. PICK b \in Nat : b = LvMemSeesAt'[h]
  BY <1>3
<1>6. n \in Lv!Units(s) + 1 .. Lv!Units(s) + 1 + 1 /\ n > 0
  BY <1>1, <1>2, <1>4
<1>7. /\ LvMemSeesAt' = HeapPut(LvMemSeesAt, h, b)
      /\ HeapContent(LvMemLen') = HeapPut(HeapContent(LvMemLen), h, HeapLonger(HeapContent(LvMemLen)[h], h, n))
      /\ b \in HeapRooms(LvMemSeesAt, HeapContent(LvMemLen), 1 .. LvCells, h, n)
  <2>1. h \in Handle /\ LvMemLen'[h] > 0
    BY <1>4, <1>6
  <2>2. /\ LvMemSeesAt' = HeapPut(LvMemSeesAt, h, LvMemSeesAt'[h])
        /\ HeapContent(LvMemLen') = HeapPut(HeapContent(LvMemLen), h, HeapLonger(HeapContent(LvMemLen)[h], h, LvMemLen'[h]))
        /\ LvMemSeesAt'[h] \in HeapRooms(LvMemSeesAt, HeapContent(LvMemLen), 1 .. LvCells, h, LvMemLen'[h])
    BY ONLY <1>3, <2>1, HeapGranted
  <2> QED BY <1>4, <1>5, <2>2, Zenon
<1>8. /\ LvMemSees' = HeapPut(LvMemSees, h, HeapLonger(LvMemSees[h], h, n))
      /\ b \in HeapRooms(LvMemSeesAt, LvMemSees, 1 .. LvCells, h, n)
  BY <1>3, <1>7, Zenon
<1>9. Lv!Clients!Rooms(h, n) = HeapRooms(LvMemSeesAt, LvMemSees, 1 .. LvCells, h, n)
  BY Zenon DEF LvMemSeesAt, LvMemSees, Lv!Clients!Rooms, Lv!Clients!Extent, HeapRooms, HeapExtent
<1>10. b \in Lv!Clients!Rooms(h, n)
  BY <1>8, <1>9, Zenon
<1>11. Lv!Clients!Grant(h, n)
  BY <1>3, <1>7, <1>8, <1>10, Zenon DEF LvMemSeesAt, LvMemSees, HeapPut, HeapLonger, Lv!Clients!Grant
<1> QED BY <1>2, <1>6, <1>11, Zenon DEF Lv!Clients!Next

LEMMA LvMemFreed ==
  ASSUME NEW h \in Handle, LvMemOnly(h), lvAt'[h] = Lv!None
  PROVE  Lv!Clients!Next
<1>1. /\ LvMemSeesAt \in [Handle -> Nat] /\ LvMemLen \in [Handle -> Nat] /\ LvMemSees = HeapContent(LvMemLen)
      /\ LvMemSeesAt' \in [Handle -> Nat] /\ LvMemLen' \in [Handle -> Nat] /\ LvMemSees' = HeapContent(LvMemLen')
      /\ lvDenied' = <<>>
      /\ HeapSame(LvMemSeesAt, LvMemLen, LvMemSeesAt', LvMemLen', h)
  BY DEF LvMemOnly, LvMemView
<1>2. LvMemSeesAt'[h] = 0 /\ LvMemLen'[h] = 0
  BY DEF LvMemSeesAt, LvMemLen, LvMemLong, Lv!None
<1>3. LvMemSeesAt' = HeapPut(LvMemSeesAt, h, 0) /\ LvMemSees' = HeapPut(LvMemSees, h, <<>>)
  <2>1. /\ LvMemSeesAt' = HeapPut(LvMemSeesAt, h, LvMemSeesAt'[h])
        /\ HeapContent(LvMemLen') = HeapPut(HeapContent(LvMemLen), h, <<>>)
    <3>1. HeapGone(LvMemSeesAt, LvMemLen, LvMemSeesAt', LvMemLen', h)
      BY <1>1, <1>2 DEF HeapGone
    <3> QED BY ONLY <3>1, HeapTaken
  <2> QED BY <1>1, <1>2, <2>1, Zenon
<1>4. Lv!Clients!Free(h)
  BY <1>1, <1>3, Zenon DEF LvMemSeesAt, LvMemSees, HeapPut, Lv!Clients!Free
<1> QED BY <1>4 DEF Lv!Clients!Next

\* What the clients have once they have written.
LvMemHoldsWith(m, a, wrote) ==
  \A g \in Handle : a[g] # Lv!None =>
    \A c \in a[g] + 1 .. a[g] + m.size[a[g]] : (IF c \in DOMAIN wrote THEN wrote[c] ELSE m.data[c]) = <<g, c - a[g] + 1>>

LEMMA LvMemSettledHolds ==
  ASSUME NEW m, NEW H, NEW a, NEW neat, NEW wrote, LvMemServes(m, H, a, neat, Lv!None), Lv!Settled(m, a, wrote),
         LvMemHoldsWith(m, a, wrote)
  PROVE  LvMemWritten' /\ lvAt' = a /\ LvMemLen' = LvMemLong(m, a) /\ lvDenied' = <<>>
<1> DEFINE body(g) == IF a[g] = Lv!None THEN {} ELSE a[g] + 1 .. a[g] + m.size[a[g]]
           kept    == (UNION {body(g) : g \in Handle}) \ H
           value(c) == IF c \in DOMAIN wrote THEN wrote[c]
                       ELSE IF c \in kept THEN m.data[c] ELSE Nobody
<1>1. m \in LvMemMemory /\ LvMemShape(m, H) /\ H \subseteq Lv!Cell /\ a \in [Handle -> Lv!Cell \union {Lv!None}]
  BY LvMemShapeIs DEF LvMemServes
<1>2. Lv!EntrySet(m) = H
  BY <1>1, LvMemEntriesAre
<1>3. /\ lvAt' = a /\ lvDenied' = <<>>
      /\ lvMem'.size = [c \in Lv!Cell |-> IF c \in H THEN m.size[c] ELSE Lv!None]
      /\ lvMem'.data = [c \in Lv!Cell |-> value(c)]
  BY <1>2 DEF Lv!Settled
<1>4. ASSUME NEW g \in Handle, a[g] # Lv!None
      PROVE  /\ a[g] \in H /\ a[g] \in Nat /\ m.size[a[g]] \in Nat /\ lvMem'.size[a[g]] = m.size[a[g]]
             /\ \A c \in a[g] + 1 .. a[g] + m.size[a[g]] : c \in Lv!Cell /\ c \in kept
  <2>1. a[g] \in H
    BY <1>4 DEF LvMemServes, LvMemHas
  <2>2. a[g] \in Nat /\ m.size[a[g]] \in Nat /\ a[g] + 1 + m.size[a[g]] \in H \union {LvCells} /\ H \subseteq 0 .. LvCells - 2
    BY <1>1, <2>1, LvMemShapeIs
  <2>3. lvMem'.size[a[g]] = m.size[a[g]]
    BY <1>1, <1>3, <2>1
  <2>4. ASSUME NEW c \in a[g] + 1 .. a[g] + m.size[a[g]]
        PROVE  c \in Lv!Cell /\ c \in kept
    <3>1. c \in Lv!Cell
      BY <2>2, <2>4, LvMemCells DEF Lv!Cell
    <3>2. c \notin H
      <4>1. c \in Nat /\ a[g] < c /\ ~(a[g] + 1 + m.size[a[g]] <= c)
        BY <2>2, <2>4
      <4> QED BY <4>1, <2>1, <1>1 DEF LvMemShape
    <3>3. c \in body(g)
      BY <1>4, <2>4
    <3> HIDE DEF body
    <3>4. body(g) \in {body(f) : f \in Handle}
      OBVIOUS
    <3>5. c \in UNION {body(f) : f \in Handle}
      BY <3>3, <3>4
    <3>6. c \in kept
      BY ONLY <3>2, <3>5
    <3> QED BY <3>1, <3>6
  <2> QED BY <2>1, <2>2, <2>3, <2>4
<1>5. ASSUME NEW g \in Handle, a[g] # Lv!None, NEW c \in a[g] + 1 .. a[g] + lvMem'.size[a[g]]
      PROVE  lvMem'.data[c] = <<g, c - a[g] + 1>>
  <2>1. c \in a[g] + 1 .. a[g] + m.size[a[g]]
    BY <1>4, <1>5
  <2>2. c \in Lv!Cell /\ c \in kept
    BY <1>4, <1>5, <2>1
  <2>3. (IF c \in DOMAIN wrote THEN wrote[c] ELSE m.data[c]) = <<g, c - a[g] + 1>>
    BY <1>5, <2>1 DEF LvMemHoldsWith
  <2> HIDE DEF kept
  <2> QED BY <1>3, <2>2, <2>3
<1> HIDE DEF value
<1>6. LvMemWritten'
  BY <1>3, <1>5 DEF LvMemWritten, LvMemHolds
<1>7. LvMemLen' = LvMemLong(m, a)
  <2>1. \A g \in Handle : a[g] # Lv!None => lvMem'.size[a[g]] = m.size[a[g]]
    BY <1>4
  <2> QED BY <2>1, <1>3 DEF LvMemLen, LvMemLong
<1> QED BY <1>3, <1>6, <1>7

\* h writes its entry e, but for the first k units, which it wrote before.
LEMMA LvMemWroteHolds ==
  ASSUME NEW m, NEW H, NEW a, NEW neat, LvMemServes(m, H, a, neat, Lv!None), NEW h \in Handle, NEW k \in Nat,
         a[h] # Lv!None,
         \A g \in Handle : g # h /\ a[g] # Lv!None =>
           \A c \in a[g] + 1 .. a[g] + m.size[a[g]] : m.data[c] = <<g, c - a[g] + 1>>,
         \A c \in a[h] + 1 .. a[h] + k : m.data[c] = <<h, c - a[h] + 1>>
  PROVE  LvMemHoldsWith(m, a, Lv!Wrote(m, h, a[h], k))
<1> DEFINE w == Lv!Wrote(m, h, a[h], k)
<1>1. DOMAIN w = a[h] + 1 + k .. a[h] + m.size[a[h]] /\ \A c \in DOMAIN w : w[c] = <<h, c - a[h] + 1>>
  BY DEF Lv!Wrote
<1> HIDE DEF w
<1>2. \A g \in Handle : a[g] # Lv!None => a[g] \in H /\ a[g] \in Nat /\ m.size[a[g]] \in Nat
  <2>1. LvMemShape(m, H)
    BY DEF LvMemServes
  <2>2. ASSUME NEW g \in Handle, a[g] # Lv!None
        PROVE  a[g] \in H
    BY <2>2 DEF LvMemServes, LvMemHas
  <2> QED BY <2>1, <2>2, LvMemShapeIs
<1>3. ASSUME NEW g \in Handle, a[g] # Lv!None, NEW c \in a[g] + 1 .. a[g] + m.size[a[g]]
      PROVE  (IF c \in DOMAIN w THEN w[c] ELSE m.data[c]) = <<g, c - a[g] + 1>>
  <2>1. CASE g = h
    <3>1. c \in DOMAIN w \/ c \in a[h] + 1 .. a[h] + k
      BY <2>1, <1>1, <1>2, <1>3
    <3> QED BY <3>1, <2>1, <1>1
  <2>2. CASE g # h
    <3>1. a[g] # a[h]
      BY <2>2, <1>3 DEF LvMemServes, LvMemHas
    <3>2. a[g] + 1 + m.size[a[g]] <= a[h] \/ a[h] + 1 + m.size[a[h]] <= a[g]
      BY <3>1, <1>2, <1>3 DEF LvMemServes, LvMemShape
    <3>3. c \notin a[h] + 1 + k .. a[h] + m.size[a[h]]
      BY <3>2, <1>2, <1>3
    <3>4. c \notin DOMAIN w
      BY <3>3, <1>1
    <3> QED BY <3>4, <2>2, <1>3
  <2> QED BY <2>1, <2>2
<1> QED BY <1>3 DEF LvMemHoldsWith, w

\* Whatever becomes of h's block is an operation of Heap.
LEMMA LvMemMoves ==
  ASSUME NEW h \in Handle, LvMemIInv, LvMemIInv', LvMemWritten, LvMemWritten', lvDenied' = <<>>,
         HeapSame(LvMemSeesAt, LvMemLen, LvMemSeesAt', LvMemLen', h)
  PROVE  Lv!Clients!Next
<1>1. LvMemView /\ LvMemView'
  BY LvMemSeen, PTL
<1>2. LvMemOnly(h)
  BY <1>1 DEF LvMemOnly
<1> QED BY <1>2, LvMemGrants, LvMemFreed

\* All but h's entry are as they were.
LvMemKept(m, a, h) ==
  /\ \A g \in Handle : g # h => a[g] = lvAt[g]
  /\ \A g \in Handle : g # h /\ lvAt[g] # Lv!None => m.size[lvAt[g]] = lvMem.size[lvAt[g]]

LEMMA LvMemSettledSeen ==
  ASSUME LvMemIInv, LvMemIInv', LvMemWritten, NEW h \in Handle,
         NEW m, NEW H, NEW a, NEW neat, NEW wrote, LvMemServes(m, H, a, neat, Lv!None), Lv!Settled(m, a, wrote),
         LvMemHoldsWith(m, a, wrote), LvMemKept(m, a, h)
  PROVE  LvMemWritten' /\ Lv!Clients!Next
<1>1. LvMemWritten' /\ lvAt' = a /\ LvMemLen' = LvMemLong(m, a) /\ lvDenied' = <<>>
  BY LvMemSettledHolds
<1>2. ASSUME NEW g \in Handle \ {h}
      PROVE  LvMemSeesAt'[g] = LvMemSeesAt[g] /\ LvMemLen'[g] = LvMemLen[g]
  BY <1>1, <1>2 DEF LvMemKept, LvMemSeesAt, LvMemLen, LvMemLong
<1>3. HeapSame(LvMemSeesAt, LvMemLen, LvMemSeesAt', LvMemLen', h)
  BY <1>2 DEF HeapSame
<1> QED BY <1>1, <1>3, LvMemMoves

\* An entry that is cut, joined or given to no one keeps what is in it.
LEMMA LvMemQuietHolds ==
  ASSUME LvMemWritten, NEW m, NEW a, m.data = lvMem.data,
         \A g \in Handle : a[g] # Lv!None => /\ a[g] = lvAt[g] /\ a[g] \in Nat
                                             /\ m.size[a[g]] \in Nat /\ lvMem.size[a[g]] \in Nat
                                             /\ m.size[a[g]] <= lvMem.size[a[g]]
  PROVE  LvMemHoldsWith(m, a, <<>>)
<1>1. ASSUME NEW g \in Handle, a[g] # Lv!None, NEW c \in a[g] + 1 .. a[g] + m.size[a[g]]
      PROVE  m.data[c] = <<g, c - a[g] + 1>>
  <2>1. a[g] = lvAt[g] /\ c \in a[g] + 1 .. a[g] + lvMem.size[a[g]]
    BY <1>1
  <2> QED BY <2>1, <1>1 DEF LvMemWritten, LvMemHolds
<1>2. DOMAIN <<>> = {}
  OBVIOUS
<1> QED BY <1>1, <1>2 DEF LvMemHoldsWith

LEMMA LvMemSizeNat ==
  ASSUME LvMemIInv, NEW g \in Handle, lvAt[g] # Lv!None
  PROVE  lvAt[g] \in Nat /\ lvMem.size[lvAt[g]] \in Nat /\ lvAt[g] \in LvMemHeads(lvMem) /\ lvAt[g] \in lvMem.used
         /\ \A f \in Handle : f # g => lvAt[f] # lvAt[g]
BY LvMemStateIs, LvMemShapeIs DEF LvMemHas

LEMMA LvMemDefragSeen ==
  ASSUME LvMemIInv, LvMemIInv', LvMemWritten, Lv!Defrag, NEW h \in Handle
  PROVE  LvMemWritten' /\ Lv!Clients!Next
<1>1. Lv!Settled(Lv!Defragged(lvMem), lvAt, <<>>)
  BY DEF Lv!Defrag
<1>2. PICK K : LvMemServes(Lv!Defragged(lvMem), K, lvAt, TRUE, Lv!None) /\ Lv!Defragged(lvMem).data = lvMem.data
  BY LvMemStateIs, LvMemDefragServes
<1>3. ASSUME NEW g \in Handle, lvAt[g] # Lv!None
      PROVE  Lv!Defragged(lvMem).size[lvAt[g]] = lvMem.size[lvAt[g]]
  <2>1. lvMem \in LvMemMemory /\ lvAt[g] \in Lv!Cell /\ lvAt[g] \in lvMem.used
    BY <1>3, LvMemSizeNat, LvMemStateIs DEF LvMemHeads
  <2> QED BY <2>1 DEF Lv!Defragged, LvMemMemory
<1>4. LvMemHoldsWith(Lv!Defragged(lvMem), lvAt, <<>>)
  <2> DEFINE m == Lv!Defragged(lvMem)
  <2>1. \A g \in Handle : lvAt[g] # Lv!None => lvAt[g] \in Nat /\ m.size[lvAt[g]] \in Nat /\ lvMem.size[lvAt[g]] \in Nat
                                               /\ m.size[lvAt[g]] <= lvMem.size[lvAt[g]]
    BY <1>3, LvMemSizeNat
  <2>2. m.data = lvMem.data
    BY <1>2
  <2> HIDE DEF m
  <2>3. LvMemHoldsWith(m, lvAt, <<>>)
    BY <2>1, <2>2, LvMemQuietHolds
  <2> QED BY <2>3 DEF m
<1>5. LvMemKept(Lv!Defragged(lvMem), lvAt, h)
  BY <1>3 DEF LvMemKept
<1> QED BY <1>1, <1>2, <1>4, <1>5, LvMemSettledSeen

LEMMA LvMemFreeSeen ==
  ASSUME LvMemIInv, LvMemIInv', LvMemWritten, NEW h \in Handle, Lv!Free(h)
  PROVE  LvMemWritten' /\ Lv!Clients!Next
<1> DEFINE b == [lvAt EXCEPT ![h] = Lv!None]
           m == Lv!Release(lvMem, lvAt[h])
<1>1. lvAt[h] # Lv!None /\ Lv!Settled(m, b, <<>>)
  BY DEF Lv!Free
<1>2. PICK K : LvMemServes(m, K, b, FALSE, Lv!None)
  BY <1>1, LvMemFreeServes
<1>3. m.data = lvMem.data /\ \A f \in Lv!Cell : f # lvAt[h] => m.size[f] = lvMem.size[f]
  BY LvMemStateIs DEF Lv!Release, LvMemMemory
<1>4. b[h] = Lv!None /\ \A g \in Handle : g # h => b[g] = lvAt[g]
  BY LvMemStateIs
<1> HIDE DEF b, m
<1>5. ASSUME NEW g \in Handle, g # h, lvAt[g] # Lv!None
      PROVE  m.size[lvAt[g]] = lvMem.size[lvAt[g]]
  <2>1. lvAt[g] \in Lv!Cell /\ lvAt[g] # lvAt[h]
    BY <1>5, LvMemSizeNat DEF LvMemHeads
  <2> QED BY <2>1, <1>3
<1>6. LvMemHoldsWith(m, b, <<>>)
  <2>1. \A g \in Handle : b[g] # Lv!None => b[g] = lvAt[g] /\ b[g] \in Nat /\ m.size[b[g]] \in Nat /\ lvMem.size[b[g]] \in Nat
                                            /\ m.size[b[g]] <= lvMem.size[b[g]]
    BY <1>4, <1>5, LvMemSizeNat
  <2> QED BY <2>1, <1>3, LvMemQuietHolds
<1>7. LvMemKept(m, b, h)
  BY <1>4, <1>5 DEF LvMemKept
<1> QED BY <1>1, <1>2, <1>6, <1>7, LvMemSettledSeen

LEMMA LvMemShrinkSeen ==
  ASSUME LvMemIInv, LvMemIInv', LvMemWritten, NEW h \in Handle, NEW s \in LvSizes, Lv!Shrink(h, s)
  PROVE  LvMemWritten' /\ Lv!Clients!Next
<1> DEFINE m == Lv!Trunc(lvMem, lvAt[h], Lv!Units(s))
           H == LvMemHeads(lvMem)
<1>1. /\ lvAt[h] # Lv!None /\ s < 4 * lvMem.size[lvAt[h]]
      /\ Lv!Settled(m, lvAt, <<>>)
  BY DEF Lv!Shrink
<1>2. lvAt[h] \in H /\ lvMem.size[lvAt[h]] \in Nat /\ Lv!Units(s) \in Nat
  BY <1>1, LvMemSizeNat, LvMemUnitsNat
<1>3. Lv!Units(s) <= lvMem.size[lvAt[h]]
  BY <1>1, <1>2, LvMemUnitsNat DEF Lv!Units
<1>4. PICK K : LvMemServes(m, K, lvAt, FALSE, Lv!None)
  BY <1>1, <1>3, LvMemStateIs, LvMemTruncServes
<1>5. PICK L : LvMemTruncated(lvMem, H, lvAt[h], Lv!Units(s), m, L)
  <2>1. lvMem \in LvMemMemory /\ LvMemShape(lvMem, H)
    BY LvMemStateIs
  <2> HIDE DEF H
  <2> QED BY <2>1, <1>2, <1>3, LvMemTruncIs
<1> HIDE DEF m, H
<1>6. ASSUME NEW g \in Handle, g # h, lvAt[g] # Lv!None
      PROVE  m.size[lvAt[g]] = lvMem.size[lvAt[g]]
  <2>1. lvAt[g] \in H \ {lvAt[h]}
    BY <1>6, LvMemSizeNat DEF H
  <2> QED BY <2>1, <1>5 DEF LvMemTruncated
<1>7. m.size[lvAt[h]] \in Nat /\ m.size[lvAt[h]] <= lvMem.size[lvAt[h]]
  <2>1. m.size[lvAt[h]] \in {Lv!Units(s), Lv!Units(s) + 1}
    BY <1>5 DEF LvMemTruncated
  <2>2. CASE m.size[lvAt[h]] = lvMem.size[lvAt[h]]
    BY <2>2, <1>2
  <2>3. CASE \E r \in Lv!Cell \ H : lvAt[h] + 1 + m.size[lvAt[h]] = r /\ r + 1 + m.size[r] = lvAt[h] + 1 + lvMem.size[lvAt[h]]
                                    /\ L = H \union {r}
    <3>1. PICK r \in Lv!Cell \ H : lvAt[h] + 1 + m.size[lvAt[h]] = r /\ r + 1 + m.size[r] = lvAt[h] + 1 + lvMem.size[lvAt[h]]
                                   /\ L = H \union {r}
      BY <2>3
    <3>2. m.size[r] \in Nat /\ r \in Nat
      <4>1. LvMemShape(m, L)
        BY <1>5 DEF LvMemTruncated
      <4> QED BY <4>1, <3>1, LvMemShapeIs
    <3>3. lvAt[h] \in Nat
      BY <1>1, LvMemSizeNat
    <3> QED BY <2>1, <3>1, <3>2, <3>3, <1>2
  <2> QED BY <2>2, <2>3, <1>5 DEF LvMemTruncated
<1>8. LvMemHoldsWith(m, lvAt, <<>>)
  <2>1. \A g \in Handle : lvAt[g] # Lv!None => lvAt[g] \in Nat /\ m.size[lvAt[g]] \in Nat /\ lvMem.size[lvAt[g]] \in Nat
                                            /\ m.size[lvAt[g]] <= lvMem.size[lvAt[g]]
    BY <1>6, <1>7, LvMemSizeNat
  <2>2. m.data = lvMem.data
    BY <1>5 DEF LvMemTruncated
  <2> QED BY <2>1, <2>2, LvMemQuietHolds
<1>9. LvMemKept(m, lvAt, h)
  BY <1>6 DEF LvMemKept
<1> QED BY <1>1, <1>4, <1>8, <1>9, LvMemSettledSeen

LEMMA LvMemShapeEnds ==
  ASSUME NEW m, NEW H, LvMemShape(m, H), NEW e \in H
  PROVE  e + 1 + m.size[e] <= LvCells
<1>1. e + 1 + m.size[e] \in H \union {LvCells} /\ H \subseteq 0 .. LvCells - 2
  BY LvMemShapeIs
<1>2. CASE e + 1 + m.size[e] = LvCells
  BY <1>2, LvMemCells
<1>3. CASE e + 1 + m.size[e] \in H
  <2>1. e + 1 + m.size[e] \in 0 .. LvCells - 2
    BY <1>1, <1>3
  <2> QED BY <2>1, LvMemCells
<1> QED BY <1>1, <1>2, <1>3

LEMMA LvMemMallocSeen ==
  ASSUME LvMemIInv, LvMemIInv', LvMemWritten, NEW h \in Handle, NEW s \in LvSizes, lvAt[h] = Lv!None,
         NEW e \in Lv!FirstFits(lvMem, Lv!Units(s)), Lv!Given(Lv!Alloc(lvMem, e, Lv!Units(s)), h, e, 0)
  PROVE  LvMemWritten' /\ Lv!Clients!Next
<1> DEFINE n == Lv!Units(s)
           m == Lv!Alloc(lvMem, e, n)
           b == [lvAt EXCEPT ![h] = e]
           H == LvMemHeads(lvMem)
<1>1. e \in H /\ e \notin lvMem.used /\ n <= lvMem.size[e] /\ n \in Nat /\ e \in Nat /\ e # Lv!None
  BY LvMemFitIs, LvMemStateIs, LvMemShapeIs, LvMemUnitsNat
<1>2. PICK K : /\ LvMemServes(m, K, b, lvTidy, Lv!None) /\ m.data = lvMem.data
               /\ \A f \in H : f # e => m.size[f] = lvMem.size[f]
  <2>1. LvMemServes(lvMem, H, lvAt, lvTidy, Lv!None) /\ lvMem.used \subseteq H
    BY LvMemStateIs
  <2> HIDE DEF H
  <2> QED BY <1>1, <2>1, LvMemAllocServes
<1>3. Lv!Settled(m, b, Lv!Wrote(m, h, e, 0))
  BY DEF Lv!Given
<1>4. b[h] = e /\ \A g \in Handle : g # h => b[g] = lvAt[g]
  BY LvMemStateIs
<1> HIDE DEF m, b, H, n
<1>5. ASSUME NEW g \in Handle, g # h, lvAt[g] # Lv!None
      PROVE  m.size[lvAt[g]] = lvMem.size[lvAt[g]]
  <2>1. lvAt[g] \in H /\ lvAt[g] # e
    BY <1>1, <1>5, LvMemSizeNat DEF H
  <2> QED BY <2>1, <1>2
<1>6. LvMemHoldsWith(m, b, Lv!Wrote(m, h, e, 0))
  <2>1. \A g \in Handle : g # h /\ b[g] # Lv!None =>
           \A c \in b[g] + 1 .. b[g] + m.size[b[g]] : m.data[c] = <<g, c - b[g] + 1>>
    BY <1>2, <1>4, <1>5 DEF LvMemWritten, LvMemHolds
  <2>2. \A c \in b[h] + 1 .. b[h] + 0 : m.data[c] = <<h, c - b[h] + 1>>
    BY <1>1, <1>4
  <2>3. LvMemHoldsWith(m, b, Lv!Wrote(m, h, b[h], 0))
    BY <1>1, <1>2, <1>4, <2>1, <2>2, LvMemWroteHolds
  <2> QED BY <1>4, <2>3
<1>7. LvMemKept(m, b, h)
  BY <1>4, <1>5 DEF LvMemKept
<1> QED BY <1>2, <1>3, <1>6, <1>7, LvMemSettledSeen

\* Only the old and the new entry are others than before.
LEMMA LvMemGrownIs ==
  ASSUME LvMemIInv, NEW h \in Handle, lvAt[h] # Lv!None, NEW s \in LvSizes, NEW e \in Lv!FirstFits(lvMem, Lv!Units(s)),
         lvMem.size[lvAt[h]] < Lv!Units(s), NEW r, r = LvMemGrown(h, e, Lv!Units(s))
  PROVE  /\ e \in Nat /\ e # Lv!None /\ \A g \in Handle : lvAt[g] # e
         /\ r.size[e] \in Nat /\ lvMem.size[lvAt[h]] <= r.size[e]
         /\ \A f \in LvMemHeads(lvMem) : f # e /\ f # lvAt[h] => r.size[f] = lvMem.size[f]
         /\ \A c \in Lv!Cell : r.data[c] = IF c \in e + 1 .. e + lvMem.size[lvAt[h]]
                                           THEN lvMem.data[lvAt[h] + (c - e)] ELSE lvMem.data[c]
<1> DEFINE n == Lv!Units(s)
           old == lvMem.size[lvAt[h]]
           H == LvMemHeads(lvMem)
           l == Lv!Alloc(lvMem, e, n)
           m == Lv!Copy(l, lvAt[h], e, old)
<1>1. e \in H /\ e \notin lvMem.used /\ n <= lvMem.size[e] /\ n \in Nat /\ e \in Nat /\ e # Lv!None
  BY LvMemFitIs, LvMemStateIs, LvMemShapeIs, LvMemUnitsNat
<1>2. lvAt[h] \in H /\ lvAt[h] \in Nat /\ old \in Nat /\ H \subseteq Lv!Cell
  BY LvMemSizeNat DEF LvMemHeads
<1>3. \A g \in Handle : lvAt[g] # e
  BY <1>1, LvMemSizeNat
<1>4. PICK L : LvMemTruncated(lvMem, H, e, n, Lv!Trunc(lvMem, e, n), L)
  <2>1. lvMem \in LvMemMemory /\ LvMemShape(lvMem, H)
    BY LvMemStateIs
  <2> HIDE DEF H
  <2> QED BY <2>1, <1>1, LvMemTruncIs
<1>5. /\ l.data = lvMem.data /\ l.size[e] \in {n, n + 1} /\ \A f \in H \ {e} : l.size[f] = lvMem.size[f]
      /\ l.size \in [Lv!Cell -> Lv!Cell \union {Lv!None}]
  <2>1. Lv!Trunc(lvMem, e, n) \in LvMemMemory
    BY <1>4 DEF LvMemTruncated
  <2>2. l.size = Lv!Trunc(lvMem, e, n).size /\ l.data = Lv!Trunc(lvMem, e, n).data
    BY <2>1 DEF Lv!Alloc, LvMemMemory
  <2> QED BY <1>4, <2>1, <2>2 DEF LvMemTruncated, LvMemMemory
<1>6. /\ m.size = l.size
      /\ \A c \in Lv!Cell : m.data[c] = IF c \in e + 1 .. e + old THEN l.data[lvAt[h] + (c - e)] ELSE l.data[c]
  <2>1. l \in LvMemMemory
    <3>1. Lv!Trunc(lvMem, e, n) \in LvMemMemory
      BY <1>4 DEF LvMemTruncated
    <3> QED BY <1>1, <1>2, <3>1 DEF Lv!Alloc, LvMemMemory
  <2> HIDE DEF l, old
  <2> QED BY <2>1 DEF Lv!Copy, LvMemMemory
<1>7. /\ r.data = m.data /\ r.size[e] = m.size[e]
      /\ \A f \in H : f # e /\ f # lvAt[h] => r.size[f] = m.size[f]
  <2>1. r = IF old = 0 THEN m ELSE Lv!Release(m, lvAt[h])
    BY DEF LvMemGrown
  <2>2. l \in LvMemMemory
    <3>1. Lv!Trunc(lvMem, e, n) \in LvMemMemory
      BY <1>4 DEF LvMemTruncated
    <3> QED BY <1>1, <1>2, <3>1 DEF Lv!Alloc, LvMemMemory
  <2>3. DOMAIN m.size = Lv!Cell /\ Lv!Release(m, lvAt[h]).data = m.data
        /\ Lv!Release(m, lvAt[h]).size = [m.size EXCEPT ![lvAt[h]] = Lv!JoinedSize(m, lvAt[h])]
    <3>1. m = [l EXCEPT !.data = m.data]
      BY <2>2 DEF Lv!Copy, LvMemMemory
    <3> HIDE DEF m, l
    <3> QED BY <2>2, <3>1, <1>5, <1>6 DEF Lv!Release, LvMemMemory
  <2> HIDE DEF m, H, old
  <2>4. lvAt[h] # e
    BY <1>3
  <2> QED BY <2>1, <2>3, <2>4, <1>1, <1>2
<1> HIDE DEF m, l
<1>8. r.size[e] \in Nat /\ old <= r.size[e]
  BY <1>1, <1>2, <1>5, <1>6, <1>7
<1> QED BY <1>1, <1>3, <1>5, <1>6, <1>7, <1>8

LEMMA LvMemGrowSeen ==
  ASSUME LvMemIInv, LvMemIInv', LvMemWritten, NEW h \in Handle, NEW s \in LvSizes, lvAt[h] # Lv!None,
         s > 4 * lvMem.size[lvAt[h]], NEW e \in Lv!FirstFits(lvMem, Lv!Units(s)),
         Lv!Given(LvMemGrown(h, e, Lv!Units(s)), h, e, lvMem.size[lvAt[h]])
  PROVE  LvMemWritten' /\ Lv!Clients!Next
<1> DEFINE n == Lv!Units(s)
           old == lvMem.size[lvAt[h]]
           r == LvMemGrown(h, e, n)
           b == [lvAt EXCEPT ![h] = e]
<1>1. old < n /\ old \in Nat /\ lvAt[h] \in Nat /\ lvAt[h] \in LvMemHeads(lvMem)
  BY LvMemSizeNat, LvMemUnitsNat DEF Lv!Units
<1>2. /\ e \in Nat /\ e # Lv!None /\ \A g \in Handle : lvAt[g] # e
      /\ r.size[e] \in Nat /\ old <= r.size[e]
      /\ \A f \in LvMemHeads(lvMem) : f # e /\ f # lvAt[h] => r.size[f] = lvMem.size[f]
      /\ \A c \in Lv!Cell : r.data[c] = IF c \in e + 1 .. e + old
                                        THEN lvMem.data[lvAt[h] + (c - e)] ELSE lvMem.data[c]
  BY <1>1, LvMemGrownIs
<1>3. PICK K : LvMemServes(r, K, b, FALSE, Lv!None)
  BY LvMemGrowServes
<1>4. Lv!Settled(r, b, Lv!Wrote(r, h, e, old))
  BY DEF Lv!Given
<1>5. b[h] = e /\ \A g \in Handle : g # h => b[g] = lvAt[g]
  BY LvMemStateIs
<1> HIDE DEF r, b, n, old
<1>6. ASSUME NEW g \in Handle, g # h, lvAt[g] # Lv!None
      PROVE  r.size[lvAt[g]] = lvMem.size[lvAt[g]] /\ lvAt[g] # e
  BY <1>2, <1>6, LvMemSizeNat
<1>7. LvMemShape(r, K) /\ e \in K /\ \A g \in Handle : b[g] # Lv!None => b[g] \in K
  <2>1. \A g \in Handle : b[g] # Lv!None => b[g] \in K
    BY <1>3 DEF LvMemServes, LvMemHas
  <2> QED BY <2>1, <1>2, <1>3, <1>5 DEF LvMemServes
<1>8. ASSUME NEW g \in Handle, g # h, lvAt[g] # Lv!None, NEW c \in lvAt[g] + 1 .. lvAt[g] + r.size[lvAt[g]]
      PROVE  r.data[c] = <<g, c - lvAt[g] + 1>>
  <2>1. lvAt[g] \in K /\ lvAt[g] \in Nat /\ r.size[lvAt[g]] \in Nat /\ lvAt[g] # e
    BY <1>5, <1>6, <1>7, <1>8, LvMemSizeNat
  <2>2. lvAt[g] + 1 + r.size[lvAt[g]] <= e \/ e + 1 + r.size[e] <= lvAt[g]
    BY <2>1, <1>2, <1>7 DEF LvMemShape
  <2>3. c \notin e + 1 .. e + old
    BY <2>1, <2>2, <1>1, <1>2, <1>8
  <2>4. c \in Lv!Cell
    <3>1. lvAt[g] + 1 + r.size[lvAt[g]] <= LvCells
      BY <2>1, <1>7, LvMemShapeEnds
    <3> QED BY <3>1, <2>1, <1>8, LvMemCells DEF Lv!Cell
  <2>5. lvMem.data[c] = <<g, c - lvAt[g] + 1>>
    BY <1>6, <1>8 DEF LvMemWritten, LvMemHolds
  <2> QED BY <2>3, <2>4, <2>5, <1>2
<1>9. ASSUME NEW c \in e + 1 .. e + old
      PROVE  r.data[c] = <<h, c - e + 1>>
  <2>1. c \in Lv!Cell
    <3>1. e + 1 + r.size[e] <= LvCells
      BY <1>7, LvMemShapeEnds
    <3> QED BY <3>1, <1>1, <1>2, <1>9, LvMemCells DEF Lv!Cell
  <2>2. PICK d \in lvAt[h] + 1 .. lvAt[h] + old : d = lvAt[h] + (c - e) /\ d - lvAt[h] + 1 = c - e + 1
    BY <1>1, <1>2, <1>9
  <2>3. lvMem.data[d] = <<h, d - lvAt[h] + 1>>
    BY DEF LvMemWritten, LvMemHolds, old
  <2> QED BY <2>1, <2>2, <2>3, <1>2, <1>9
<1>10. LvMemHoldsWith(r, b, Lv!Wrote(r, h, e, old))
  <2>1. \A g \in Handle : g # h /\ b[g] # Lv!None =>
           \A c \in b[g] + 1 .. b[g] + r.size[b[g]] : r.data[c] = <<g, c - b[g] + 1>>
    BY <1>5, <1>8
  <2>2. \A c \in b[h] + 1 .. b[h] + old : r.data[c] = <<h, c - b[h] + 1>>
    BY <1>5, <1>9
  <2>3. LvMemHoldsWith(r, b, Lv!Wrote(r, h, b[h], old))
    BY <1>1, <1>2, <1>3, <1>5, <2>1, <2>2, LvMemWroteHolds
  <2> QED BY <1>5, <2>3
<1>11. LvMemKept(r, b, h)
  BY <1>5, <1>6 DEF LvMemKept
<1> QED BY <1>3, <1>4, <1>10, <1>11, LvMemSettledSeen

LEMMA LvMemNothingSeen ==
  ASSUME \A h \in Handle : lvAt[h] = Lv!None
  PROVE  LvMemWritten /\ LvMemSeesAt = [h \in Handle |-> 0] /\ LvMemSees = [h \in Handle |-> <<>>]
<1>1. Lv!None + 1 = 0
  BY DEF Lv!None
<1> QED BY <1>1 DEF LvMemWritten, LvMemHolds, LvMemSeesAt, LvMemSees

LEMMA LvMemInitSeen == Lv!Init => LvMemWritten /\ Lv!Clients!Init
<1> SUFFICES ASSUME Lv!Init
             PROVE  LvMemWritten /\ Lv!Clients!Init
  OBVIOUS
<1>1. lvDenied = <<>> /\ \A h \in Handle : lvAt[h] = Lv!None
  BY DEF Lv!Init
<1>2. LvMemWritten /\ LvMemSeesAt = [h \in Handle |-> 0] /\ LvMemSees = [h \in Handle |-> <<>>]
  BY <1>1, LvMemNothingSeen
<1> QED BY <1>1, <1>2, Zenon DEF LvMemSeesAt, LvMemSees, Lv!Clients!Init

LEMMA LvMemDeinitSeen == Lv!Deinit => LvMemWritten' /\ Lv!Clients!Forget
<1> SUFFICES ASSUME Lv!Deinit
             PROVE  LvMemWritten' /\ Lv!Clients!Forget
  OBVIOUS
<1>1. lvDenied' = <<>> /\ (\A h \in Handle : lvAt[h] = Lv!None)'
  BY DEF Lv!Deinit
<1>2. (LvMemWritten /\ LvMemSeesAt = [h \in Handle |-> 0] /\ LvMemSees = [h \in Handle |-> <<>>])'
  BY <1>1, LvMemNothingSeen, PTL
<1> QED BY <1>1, <1>2, Zenon DEF LvMemSeesAt, LvMemSees, Lv!Clients!Forget

\* A heap no client has a pointer of can be set up anew.
LEMMA LvMemNobodySeen ==
  ASSUME Handle = {}, lvDenied' = <<>>
  PROVE  LvMemWritten' /\ Lv!Clients!Forget
<1>1. LvMemSeesAt' = [h \in Handle |-> 0] /\ LvMemSees' = [h \in Handle |-> <<>>]
  BY DEF LvMemSeesAt, LvMemSees
<1>2. LvMemWritten'
  BY DEF LvMemWritten, LvMemHolds
<1> QED BY <1>1, <1>2, Zenon DEF LvMemSeesAt, LvMemSees, Lv!Clients!Forget

LEMMA LvMemDeniedSeen ==
  ASSUME LvMemWritten, NEW h \in Handle, NEW s \in LvSizes, Lv!Denied(h, Lv!Units(s))
  PROVE  LvMemWritten' /\ Lv!Clients!Next
<1>1. lvDenied' = <<h, Lv!Units(s) + 1>> /\ lvMem' = lvMem /\ lvAt' = lvAt
  BY DEF Lv!Denied
<1>2. LvMemWritten' /\ LvMemSeesAt' = LvMemSeesAt /\ LvMemSees' = LvMemSees
  BY <1>1 DEF LvMemWritten, LvMemHolds, LvMemSeesAt, LvMemSees
<1>3. PICK n \in Lv!Clients!Needs : n = Lv!Units(s) + 1
  BY LvMemNeeds
<1>4. Lv!Clients!Deny(h, n)
  BY <1>1, <1>2, <1>3, Zenon DEF LvMemSeesAt, LvMemSees, Lv!Clients!Deny
<1> QED BY <1>2, <1>4 DEF Lv!Clients!Next

LEMMA LvMemStepsSeen ==
  LvMemIInv /\ LvMemIInv' /\ LvMemWritten /\ [Lv!Next]_Lv!vars => LvMemWritten' /\ [Lv!Clients!Next]_Lv!Clients!heap
<1> SUFFICES ASSUME LvMemIInv, LvMemIInv', LvMemWritten, [Lv!Next]_Lv!vars
             PROVE  LvMemWritten' /\ [Lv!Clients!Next]_Lv!Clients!heap
  OBVIOUS
<1>1. CASE UNCHANGED Lv!vars
  <2>1. lvMem' = lvMem /\ lvAt' = lvAt /\ lvDenied' = lvDenied
    BY <1>1 DEF Lv!vars
  <2>2. LvMemWritten' /\ LvMemSeesAt' = LvMemSeesAt /\ LvMemSees' = LvMemSees
    BY <2>1 DEF LvMemWritten, LvMemHolds, LvMemSeesAt, LvMemSees
  <2>3. UNCHANGED Lv!Clients!heap
    BY <2>1, <2>2, Zenon DEF LvMemSeesAt, LvMemSees, Lv!Clients!heap
  <2> QED BY <2>2, <2>3
<1>2. CASE Lv!Deinit
  BY <1>2, LvMemDeinitSeen DEF Lv!Clients!Next
<1>3. CASE Lv!Defrag
  <2>1. CASE Handle = {}
    <3>1. lvDenied' = <<>>
      BY <1>3 DEF Lv!Defrag, Lv!Settled
    <3> QED BY <2>1, <3>1, LvMemNobodySeen DEF Lv!Clients!Next
  <2>2. CASE Handle # {}
    BY <1>3, <2>2, LvMemDefragSeen
  <2> QED BY <2>1, <2>2
<1>4. ASSUME NEW h \in Handle, Lv!Free(h)
      PROVE  LvMemWritten' /\ Lv!Clients!Next
  BY <1>4, LvMemFreeSeen
<1>5. ASSUME NEW h \in Handle, NEW s \in LvSizes, Lv!Malloc(h, s)
      PROVE  LvMemWritten' /\ Lv!Clients!Next
  BY <1>5, LvMemMallocSeen, LvMemDeniedSeen DEF Lv!Malloc
<1>6. ASSUME NEW h \in Handle, NEW s \in LvSizes, Lv!Shrink(h, s)
      PROVE  LvMemWritten' /\ Lv!Clients!Next
  BY <1>6, LvMemShrinkSeen
<1>7. ASSUME NEW h \in Handle, NEW s \in LvSizes, Lv!Grow(h, s)
      PROVE  LvMemWritten' /\ Lv!Clients!Next
  <2>1. lvAt[h] # Lv!None /\ s > 4 * lvMem.size[lvAt[h]]
    BY <1>7 DEF Lv!Grow
  <2>2. CASE Lv!Denied(h, Lv!Units(s))
    BY <2>2, LvMemDeniedSeen
  <2>3. ASSUME NEW e \in Lv!FirstFits(lvMem, Lv!Units(s)),
               Lv!Given(LvMemGrown(h, e, Lv!Units(s)), h, e, lvMem.size[lvAt[h]])
        PROVE  LvMemWritten' /\ Lv!Clients!Next
    BY <2>1, <2>3, LvMemGrowSeen
  <2> QED BY <1>7, <2>2, <2>3 DEF Lv!Grow, LvMemGrown
<1> QED BY <1>1, <1>2, <1>3, <1>4, <1>5, <1>6, <1>7 DEF Lv!Next

\* The clients of lv_mem see a heap: what each has written stays and goes along
\* with lv_mem_realloc, and entries do not overlap, defragmented or not
\* (lv_mem.c:127-331).
THEOREM LvMemImplementsHeap == Lv!Spec => Lv!ImplementsHeap
<1>1. Lv!Init => LvMemIInv /\ LvMemWritten /\ Lv!Clients!Init
  BY LvMemInitSound, LvMemInitSeen
<1>2. LvMemIInv /\ [Lv!Next]_Lv!vars => LvMemIInv'
  BY LvMemInductive
<1>3. LvMemIInv /\ LvMemIInv' /\ LvMemWritten /\ [Lv!Next]_Lv!vars =>
        LvMemWritten' /\ [Lv!Clients!Next]_Lv!Clients!heap
  BY LvMemStepsSeen
<1> QED BY <1>1, <1>2, <1>3, PTL DEF Lv!Spec, Lv!ImplementsHeap, Lv!Clients!Spec

(***************************************************************************)
(* All five: the one in use takes a step of its own, and the others stay   *)
(* as they are.                                                            *)
(***************************************************************************)
AllInv == QMemIInv /\ UmmIInv /\ MmemIInv /\ LvMemIInv /\ TlsfIInv

LEMMA EachSteps ==
  ASSUME [Next]_<<which, umm, pool, lv, tlsf, mmem>>
  PROVE  /\ [Pool!Next]_Pool!vars /\ [Umm!Next]_Umm!vars /\ [Managed!Next]_Managed!vars
         /\ [Lv!Next]_Lv!vars /\ [TwoLevel!Next]_TwoLevel!vars
<1>1. UNCHANGED pool => UNCHANGED Pool!vars
  BY DEF pool, Pool!vars
<1>2. UNCHANGED umm => UNCHANGED Umm!vars
  BY DEF umm, Umm!vars
<1>3. UNCHANGED mmem => UNCHANGED Managed!vars
  BY DEF mmem, Managed!vars
<1>4. UNCHANGED lv => UNCHANGED Lv!vars
  BY DEF lv, Lv!vars
<1>5. UNCHANGED tlsf => UNCHANGED TwoLevel!vars
  BY DEF tlsf, TwoLevel!vars
<1>6. CASE UNCHANGED <<which, umm, pool, lv, tlsf, mmem>>
  BY <1>1, <1>2, <1>3, <1>4, <1>5, <1>6
<1>7. CASE Next
  BY <1>1, <1>2, <1>3, <1>4, <1>5, <1>7 DEF Next
<1> QED BY <1>6, <1>7

LEMMA AllInvariance == Spec => []AllInv
<1>1. Init => AllInv
  BY QMemInitSound, UmmInitSound, MmemInitSound, LvMemInitSound, TlsfStart DEF Init, AllInv
<1>2. ASSUME AllInv, [Next]_<<which, umm, pool, lv, tlsf, mmem>> PROVE AllInv'
  <2>1. /\ [Pool!Next]_Pool!vars /\ [Umm!Next]_Umm!vars /\ [Managed!Next]_Managed!vars
        /\ [Lv!Next]_Lv!vars /\ [TwoLevel!Next]_TwoLevel!vars
    BY <1>2, EachSteps
  <2>2. QMemIInv' /\ UmmIInv'
    BY <1>2, <2>1, QMemInductive, UmmInductive DEF AllInv
  <2>3. MmemIInv' /\ LvMemIInv' /\ TlsfIInv'
    BY <1>2, <2>1, MmemInductive, LvMemInductive, TlsfStep DEF AllInv
  <2> QED BY <2>2, <2>3 DEF AllInv
<1> QED BY <1>1, <1>2, PTL DEF Spec

\* What each allocator keeps in its memory, its bitmaps and lists, and the
\* clients' pointers are of the types they are declared to have.
THEOREM TypeCorrect == Spec => []TypeOK
<1>1. AllInv => TypeOK
  BY TlsfTypesAre DEF AllInv, TypeOK, QMemIInv, UmmIInv, MmemIInv, LvMemIInv
<1> QED BY <1>1, AllInvariance, PTL

\* The structures that an allocator keeps in the memory itself describe it, each
\* byte once, after any sequence of requests that split, join, move and free.
THEOREM IntegrityHolds == Spec => []Integrity
<1>1. AllInv => Integrity
  BY QMemIntegritySound, UmmIntegritySound, MmemIntegritySound, LvMemIntegritySound, TlsfIntegrityIs
  DEF AllInv, Integrity
<1> QED BY <1>1, AllInvariance, PTL

\* What is free and lies together is one block: always in umm_malloc,
\* qmemmang and tlsf, behind lv_mem_defrag in lv_mem.
THEOREM CoalescedHolds == Spec => []Coalesced
<1>1. AllInv => Coalesced
  BY QMemIntegritySound, UmmIntegritySound, LvMemIntegritySound, TlsfCoalescedIs
  DEF AllInv, Coalesced
<1> QED BY <1>1, AllInvariance, PTL
==============================================================================
