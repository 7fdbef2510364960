---------------------------- MODULE LvTaskProofs ----------------------------
(* Theorems of LvTask for every number of tasks, and of the functions of    *)
(* LvLl for every list.                                                     *)
EXTENDS LvTask, Sequences, FiniteSetTheorems, WellFoundedInduction, TLAPS

-----------------------------------------------------------------------------
(* The inductive invariant. *)

\* The i-th node of s, and NULL in front of the first and behind the last.
At(s, i) == IF i \in 1 .. Len(s) THEN s[i] ELSE Null

\* The list l consists of the nodes of s.
IsList(l, s) ==
  /\ \A i, j \in 1 .. Len(s) : i # j => s[i] # s[j]
  /\ l.head = At(s, 1) /\ l.tail = At(s, Len(s))
  /\ \A i \in 1 .. Len(s) : l.prev[s[i]] = At(s, i - 1) /\ l.next[s[i]] = At(s, i + 1)

Elements(s) == {s[i] : i \in 1 .. Len(s)}

Sorted(s, pr) == \A i, j \in 1 .. Len(s) : i < j => pr[s[i]] >= pr[s[j]]

\* What stands before a was looked at.
Passed(s, a) == \A i \in 1 .. Len(s) : (\A j \in 1 .. i : s[j] # a) => s[i] \in seen

Link == Node \union {Null, Junk}
Links == [head : Node \union {Null}, tail : Node \union {Null},
          prev : [Node -> Link], next : [Node -> Link]]

PcTyped ==
  \/ pc = Out
  \/ \E i \in Node \union {Null} : pc = Look(i)
  \/ pc \in [at : {"call"}, intr : Node \union {Null}, next : Node \union {Null},
             top : BOOLEAN, left : 0 .. MaxOps]

Typed ==
  /\ TypeOK /\ PcTyped
  /\ \A n \in mem : prio[n] \in 0 .. 5 /\ period[n] \in Periods \union {0}
  /\ pc.at = "call" /\ ~deleted => act \in mem

\* Where the handler stands, and where it goes on if the task that it called
\* is of the highest priority.
Handler(s) ==
  /\ pc.at = "look" => {act, pc.intr} \subseteq mem \union {Null} /\ Passed(s, act)
  /\ pc.at = "call" /\ pc.top /\ ~Stops =>
       {pc.next, pc.intr} \subseteq mem \union {Null} /\ Passed(s, pc.next)

Tasks(s) ==
  /\ IsList(ll, s) /\ Elements(s) = mem /\ Sorted(s, prio)
  /\ ~DeletesOthers => Handler(s)

IInv == Typed /\ \E s \in Seq(Node) : Tasks(s)

-----------------------------------------------------------------------------
(* Numbers and constants. *)

\* Every set of numbers that is not empty has a least one.
LEMMA Least ==
  ASSUME NEW S \in SUBSET Nat, S # {}
  PROVE  \E n \in S : \A m \in S : n <= m
<1> DEFINE T == {0 .. n : n \in S}
<1>1. T \subseteq FiniteSubsetsOf(Nat)
  <2> SUFFICES ASSUME NEW n \in S PROVE 0 .. n \in FiniteSubsetsOf(Nat)
    OBVIOUS
  <2>1. IsFiniteSet(0 .. n) /\ 0 .. n \subseteq Nat
    BY FS_Interval
  <2> QED BY <2>1 DEF FiniteSubsetsOf
<1>2. T # {}
  OBVIOUS
<1>3. \E x \in T : \A y \in T : ~(<<y, x>> \in StrictSubsetOrdering(Nat))
  <2> HIDE DEF T
  <2> QED BY <1>1, <1>2, WFMin, FS_StrictSubsetOrderingWellFounded
<1>4. PICK n \in S : \A m \in S : ~(<<0 .. m, 0 .. n>> \in StrictSubsetOrdering(Nat))
  BY <1>3
<1>5. ASSUME NEW m \in S, m < n PROVE FALSE
  <2>1. 0 .. m \subseteq 0 .. n /\ n \in 0 .. n /\ n \notin 0 .. m
    BY <1>5
  <2>2. <<0 .. m, 0 .. n>> \in StrictSubsetOrdering(Nat)
    BY <2>1 DEF StrictSubsetOrdering
  <2> QED BY <2>2, <1>4
<1> QED BY <1>5

LEMMA SetInduction ==
  ASSUME NEW S \in SUBSET Nat, 0 \in S, \A n \in S : n + 1 \in S
  PROVE  S = Nat
<1> SUFFICES ASSUME Nat \ S # {} PROVE FALSE
  OBVIOUS
<1>1. PICK n \in Nat \ S : \A m \in Nat \ S : n <= m
  BY Least
<1>2. n # 0 /\ n - 1 \in Nat
  BY <1>1
<1>3. n - 1 \in S
  BY <1>1, <1>2
<1> QED BY <1>3, <1>1, <1>2

\* A finite set of numbers that is not empty has a greatest one.
LEMMA Greatest ==
  ASSUME NEW S \in SUBSET Nat, S # {}, IsFiniteSet(S)
  PROVE  \E n \in S : \A m \in S : m <= n
<1> DEFINE Bounded(n) == \A f \in [1 .. n -> Nat] : \E b \in Nat : \A i \in 1 .. n : f[i] <= b
           B == {n \in Nat : Bounded(n)}
<1>1. 0 \in B
  <2>1. \A f \in [1 .. 0 -> Nat] : \A i \in 1 .. 0 : f[i] <= 0
    OBVIOUS
  <2> QED BY <2>1
<1>2. ASSUME NEW n \in B PROVE n + 1 \in B
  <2>0. n \in Nat /\ Bounded(n)
    OBVIOUS
  <2> SUFFICES Bounded(n + 1)
    <3> HIDE DEF Bounded
    <3> QED BY <2>0
  <2> SUFFICES ASSUME NEW f \in [1 .. n + 1 -> Nat]
               PROVE  \E b \in Nat : \A i \in 1 .. n + 1 : f[i] <= b
    OBVIOUS
  <2> DEFINE g == [i \in 1 .. n |-> f[i]]
  <2>1. g \in [1 .. n -> Nat]
    OBVIOUS
  <2>2. PICK b \in Nat : \A i \in 1 .. n : g[i] <= b
    BY <2>1
  <2>3. f[n + 1] \in Nat
    OBVIOUS
  <2>4. PICK c \in Nat : c >= b /\ c >= f[n + 1]
    <3>1. CASE b >= f[n + 1]
      BY <3>1, <2>2, <2>3
    <3>2. CASE b < f[n + 1]
      BY <3>2, <2>2, <2>3
    <3> QED BY <3>1, <3>2, <2>2, <2>3
  <2>5. \A i \in 1 .. n + 1 : f[i] <= c
    <3> TAKE i \in 1 .. n + 1
    <3>1. CASE i = n + 1
      BY <3>1, <2>4
    <3>2. CASE i \in 1 .. n
      <4>1. g[i] = f[i] /\ f[i] \in Nat
        BY <3>2
      <4> QED BY <4>1, <3>2, <2>2, <2>4
    <3> QED BY <3>1, <3>2
  <2> QED BY <2>5
<1>3. B = Nat
  <2> HIDE DEF B
  <2>1. B \in SUBSET Nat
    BY DEF B
  <2> QED BY <1>1, <1>2, <2>1, SetInduction
<1>4. PICK f \in Bijection(1 .. Cardinality(S), S) : Cardinality(S) \in Nat
  BY FS_CardinalityType DEF ExistsBijection
<1>5. f \in [1 .. Cardinality(S) -> S] /\ \A m \in S : \E i \in 1 .. Cardinality(S) : f[i] = m
  BY DEF Bijection, Surjection, Injection
<1>6. PICK b \in Nat : \A m \in S : m <= b
  <2> DEFINE k == Cardinality(S)
  <2>1. f \in [1 .. k -> Nat]
    BY <1>5
  <2>2. Bounded(k)
    <3> HIDE DEF k, Bounded
    <3>1. k \in B
      BY <1>3, <1>4 DEF k
    <3> QED BY <3>1
  <2> HIDE DEF k
  <2>3. PICK b \in Nat : \A i \in 1 .. k : f[i] <= b
    BY <2>1, <2>2
  <2> QED BY <2>3, <1>5 DEF k
<1> DEFINE C == {c \in Nat : \A m \in S : m <= c}
<1>7. PICK n \in C : \A c \in C : n <= c
  <2>1. b \in C /\ C \in SUBSET Nat
    BY <1>6
  <2> QED BY <2>1, Least
<1>8. n \in S
  <2> SUFFICES ASSUME n \notin S PROVE FALSE
    OBVIOUS
  <2>1. \A m \in S : m \in Nat /\ m < n
    BY <1>7
  <2>2. PICK m0 \in S : TRUE
    OBVIOUS
  <2>3. n \in Nat /\ n - 1 \in Nat /\ n - 1 < n
    BY <2>1, <2>2, <1>7
  <2>4. \A m \in S : m <= n - 1
    BY ONLY <2>1, <2>3
  <2>5. n - 1 \in C
    BY <2>3, <2>4
  <2> QED BY <2>3, <2>5, <1>7
<1> QED BY <1>7, <1>8

LEMMA Params ==
  /\ IsFiniteSet(Node) /\ Cardinality(Node) \in Nat /\ Null \notin Node /\ Junk \notin Node /\ Junk # Null
  /\ Prios \subseteq 0 .. 5 /\ Periods \subseteq Nat /\ MaxOps \in Nat /\ DeletesOthers \in BOOLEAN
BY TaskAssumption, FS_CardinalityType

LEMMA Span ==
  /\ Longest \in Nat
  /\ \A n \in Nat : Elapsed(n) \in 0 .. Longest
<1>1. Periods \union {0} \in SUBSET Nat /\ Periods \union {0} # {} /\ IsFiniteSet(Periods \union {0})
  BY TaskAssumption, FS_AddElement
<1>2. \E n \in Periods \union {0} : \A m \in Periods \union {0} : m <= n
  BY <1>1, Greatest
<1>3. Longest \in Nat
  BY <1>1, <1>2 DEF Longest
<1> QED BY <1>3 DEF Elapsed

-----------------------------------------------------------------------------
(* Walking along a list. *)

LEMMA AtType == ASSUME NEW s \in Seq(Node), NEW i PROVE At(s, i) \in Node \union {Null}
BY DEF At

LEMMA AtIn ==
  ASSUME NEW s \in Seq(Node), NEW i \in 1 .. Len(s)
  PROVE  At(s, i) = s[i] /\ s[i] \in Node /\ s[i] # Null
BY Params DEF At

LEMMA AtOut ==
  ASSUME NEW s \in Seq(Node), NEW i, i \notin 1 .. Len(s)
  PROVE  At(s, i) = Null
BY DEF At

\* No list is longer than there are nodes.
LEMMA Short ==
  ASSUME NEW s \in Seq(Node), \A i, j \in 1 .. Len(s) : i # j => s[i] # s[j]
  PROVE  Len(s) \in Nat /\ Len(s) <= Cardinality(Node)
<1>1. s \in Injection(1 .. Len(s), Node)
  BY DEF Injection, IsInjective
<1>2. Cardinality(1 .. Len(s)) <= Cardinality(Node) /\ Len(s) \in Nat
  BY <1>1, Params, FS_Injection
<1>3. Cardinality(1 .. Len(s)) = IF 1 > Len(s) THEN 0 ELSE Len(s) - 1 + 1
  BY <1>2, FS_Interval
<1> QED BY ONLY <1>2, <1>3

\* Where one finds the first node in S on a list, or its end.
FirstAt(s, S, f) ==
  /\ f \in 1 .. Len(s) + 1 /\ \A i \in 1 .. f - 1 : s[i] \notin S
  /\ f <= Len(s) => s[f] \in S

LEMMA FirstExists ==
  ASSUME NEW s \in Seq(Node), NEW S
  PROVE  \E f \in 1 .. Len(s) + 1 : FirstAt(s, S, f)
<1> DEFINE T == {i \in 1 .. Len(s) + 1 : i = Len(s) + 1 \/ s[i] \in S}
<1>1. T \in SUBSET Nat /\ Len(s) + 1 \in T /\ Len(s) \in Nat
  OBVIOUS
<1>2. PICK f \in T : \A m \in T : f <= m
  BY <1>1, Least
<1>3. \A i \in 1 .. f - 1 : s[i] \notin S
  BY <1>1, <1>2
<1> QED BY <1>1, <1>2, <1>3 DEF FirstAt

LEMMA FirstFound ==
  ASSUME NEW l, NEW s \in Seq(Node), IsList(l, s), NEW S, NEW f, FirstAt(s, S, f)
  PROVE  FirstIn(l, S) = At(s, f)
<1> DEFINE N == Cardinality(Node)
           Of(g) == g = [i \in 0 .. N |->
                           IF i = 0 THEN l.head
                           ELSE IF g[i - 1] \in Node \ S THEN l.next[g[i - 1]] ELSE g[i - 1]]
           w == [i \in 0 .. N |-> At(s, IF i + 1 < f THEN i + 1 ELSE f)]
<1>1. /\ N \in Nat /\ Len(s) \in Nat /\ Len(s) <= N /\ f \in 1 .. Len(s) + 1
      /\ \A i \in 1 .. f - 1 : s[i] \notin S
      /\ f <= Len(s) => s[f] \in S
  BY Short, Params DEF IsList, FirstAt
<1>2. /\ l.head = At(s, 1)
      /\ \A i \in 1 .. Len(s) : l.next[s[i]] = At(s, i + 1)
  BY DEF IsList
<1> HIDE DEF N
<1>3. w[0] = l.head
  <2>1. (IF 0 + 1 < f THEN 0 + 1 ELSE f) = 1 /\ 0 \in 0 .. N
    BY ONLY <1>1
  <2> QED BY <2>1, <1>2
<1>4. At(s, f) \notin Node \ S
  <2>1. CASE f \in 1 .. Len(s)
    BY <2>1, <1>1, AtIn
  <2>2. CASE f \notin 1 .. Len(s)
    BY <2>2, AtOut, Params
  <2> QED BY <2>1, <2>2
<1>5. \A i \in 1 .. N : w[i] = IF w[i - 1] \in Node \ S THEN l.next[w[i - 1]] ELSE w[i - 1]
  <2> TAKE i \in 1 .. N
  <2>1. i \in 0 .. N /\ i - 1 \in 0 .. N /\ i - 1 + 1 = i
    BY ONLY <1>1, i \in 1 .. N
  <2>2. CASE i < f
    <3>1. i \in 1 .. Len(s) /\ i \in 1 .. f - 1 /\ (IF i + 1 < f THEN i + 1 ELSE f) = i + 1
      BY ONLY <1>1, <2>2, i \in 1 .. N
    <3>2. w[i - 1] = At(s, i) /\ w[i] = At(s, i + 1)
      BY <2>1, <2>2, <3>1
    <3>3. At(s, i) = s[i] /\ s[i] \in Node \ S
      BY <3>1, <1>1, AtIn
    <3> QED BY <3>1, <3>2, <3>3, <1>2
  <2>3. CASE ~(i < f)
    <3>1. (IF i + 1 < f THEN i + 1 ELSE f) = f /\ (IF i < f THEN i ELSE f) = f
      BY ONLY <1>1, <2>3, i \in 1 .. N
    <3>2. w[i - 1] = At(s, f) /\ w[i] = At(s, f)
      BY <2>1, <3>1
    <3> QED BY <3>2, <1>4
  <2> QED BY <2>2, <2>3
<1>6. w[N] = At(s, f)
  <2>1. (IF N + 1 < f THEN N + 1 ELSE f) = f /\ N \in 0 .. N
    BY ONLY <1>1
  <2> QED BY <2>1
<1>7. \A i \in 0 .. N : i = 0 \/ i \in 1 .. N
  BY ONLY <1>1
<1>8. Of(w)
  <2>1. w = [i \in 0 .. N |-> w[i]]
    OBVIOUS
  <2>2. \A i \in 0 .. N : w[i] = IF i = 0 THEN l.head
                                  ELSE IF w[i - 1] \in Node \ S THEN l.next[w[i - 1]] ELSE w[i - 1]
    <3> HIDE DEF w
    <3> QED BY <1>3, <1>5, <1>7
  <2> HIDE DEF w
  <2> QED BY <2>1, <2>2, Zenon
<1> HIDE DEF w
<1>9. PICK g : Of(g) /\ FirstIn(l, S) = g[N]
  <2> DEFINE g == CHOOSE g : Of(g)
  <2>1. Of(g)
    <3> HIDE DEF Of
    <3> QED BY <1>8, Zenon
  <2>2. FirstIn(l, S) = g[N]
    BY Zenon DEF FirstIn, N
  <2> HIDE DEF g, Of
  <2> QED BY <2>1, <2>2
<1>10. \A i \in 0 .. N : g[i] = IF i = 0 THEN l.head
                               ELSE IF g[i - 1] \in Node \ S THEN l.next[g[i - 1]] ELSE g[i - 1]
  BY <1>9, Zenon
<1>11. \A i \in 0 .. N : g[i] = w[i]
  <2> DEFINE T == {i \in Nat : i <= N => g[i] = w[i]}
  <2>1. 0 \in T
    <3>1. 0 \in 0 .. N
      BY ONLY <1>1
    <3> QED BY <3>1, <1>3, <1>10
  <2>2. ASSUME NEW i \in T PROVE i + 1 \in T
    <3> SUFFICES ASSUME i + 1 <= N PROVE g[i + 1] = w[i + 1]
      OBVIOUS
    <3>1. i <= N /\ i + 1 \in 1 .. N /\ i + 1 \in 0 .. N /\ i + 1 # 0 /\ i + 1 - 1 = i
      BY ONLY <1>1, i + 1 <= N, i \in Nat
    <3>2. g[i] = w[i]
      BY <3>1
    <3> QED BY <3>1, <3>2, <1>5, <1>10
  <2>3. T = Nat
    <3> HIDE DEF T
    <3>1. T \in SUBSET Nat
      BY DEF T
    <3> QED BY <3>1, <2>1, <2>2, SetInduction
  <2> QED BY <2>3, <1>1
<1>12. N \in 0 .. N
  BY ONLY <1>1
<1> QED BY <1>6, <1>9, <1>11, <1>12

-----------------------------------------------------------------------------
(* A node more or less on a list. *)

\* s with n as its f-th node, and without its i-th node.
Ins(s, f, n) == [k \in 1 .. Len(s) + 1 |-> IF k < f THEN s[k] ELSE IF k = f THEN n ELSE s[k - 1]]
Del1(s, i) == [k \in 1 .. Len(s) - 1 |-> IF k < i THEN s[k] ELSE s[k + 1]]

\* m is l with n linked in before the f-th node of s.
Linked(l, m, s, f, n) ==
  /\ m \in Links
  /\ m.head = (IF f = 1 THEN n ELSE l.head) /\ m.tail = (IF f = Len(s) + 1 THEN n ELSE l.tail)
  /\ \A x \in Node :
       /\ m.next[x] = IF x = n THEN At(s, f) ELSE IF x = At(s, f - 1) THEN n ELSE l.next[x]
       /\ m.prev[x] = IF x = n THEN At(s, f - 1) ELSE IF x = At(s, f) THEN n ELSE l.prev[x]

\* m is l with the i-th node of s taken out, whose own links do not matter.
Unlinked(l, m, s, i) ==
  /\ m \in Links
  /\ m.head = (IF i = 1 THEN At(s, 2) ELSE l.head)
  /\ m.tail = (IF i = Len(s) THEN At(s, i - 1) ELSE l.tail)
  /\ \A x \in Node \ {s[i]} :
       /\ m.next[x] = IF x = At(s, i - 1) THEN At(s, i + 1) ELSE l.next[x]
       /\ m.prev[x] = IF x = At(s, i + 1) THEN At(s, i - 1) ELSE l.prev[x]

\* t is s with n as its f-th node, and s without its i-th node.
IsIns(t, s, f, n) ==
  /\ t \in Seq(Node) /\ Len(t) = Len(s) + 1
  /\ \A k \in 1 .. Len(s) + 1 : t[k] = IF k < f THEN s[k] ELSE IF k = f THEN n ELSE s[k - 1]
  /\ \A k \in 0 .. Len(s) + 2 :
       At(t, k) = IF k < f THEN At(s, k) ELSE IF k = f THEN n ELSE At(s, k - 1)
  /\ Elements(t) = Elements(s) \union {n}

IsDel(t, s, i) ==
  /\ t \in Seq(Node) /\ Len(t) = Len(s) - 1
  /\ \A k \in 1 .. Len(s) - 1 : t[k] = IF k < i THEN s[k] ELSE s[k + 1]
  /\ \A k \in 0 .. Len(s) : At(t, k) = IF k < i THEN At(s, k) ELSE At(s, k + 1)
  /\ Elements(t) = Elements(s) \ {s[i]}

LEMMA InsFacts ==
  ASSUME NEW s \in Seq(Node), NEW f \in 1 .. Len(s) + 1, NEW n \in Node
  PROVE  IsIns(Ins(s, f, n), s, f, n)
<1> DEFINE t == Ins(s, f, n)
           L == Len(s)
<1>1. L \in Nat /\ f \in 1 .. L + 1
  OBVIOUS
<1>2. \A k \in 1 .. L + 1 : (IF k < f THEN s[k] ELSE IF k = f THEN n ELSE s[k - 1]) \in Node
  <2> TAKE k \in 1 .. L + 1
  <2>1. (k < f => k \in 1 .. L) /\ (k > f => k - 1 \in 1 .. L) /\ (k < f \/ k = f \/ k > f)
    BY <1>1
  <2> QED BY <2>1
<1>3. /\ t \in Seq(Node) /\ Len(t) = L + 1
      /\ \A k \in 1 .. L + 1 : t[k] = IF k < f THEN s[k] ELSE IF k = f THEN n ELSE s[k - 1]
  BY <1>1, <1>2 DEF Ins
<1> HIDE DEF t, L
<1>4. ASSUME NEW k \in 0 .. L + 2
      PROVE  At(t, k) = IF k < f THEN At(s, k) ELSE IF k = f THEN n ELSE At(s, k - 1)
  <2>1. CASE k \in 1 .. L + 1
    <3>1. (k < f => k \in 1 .. L) /\ (k > f => k - 1 \in 1 .. L) /\ (k < f \/ k = f \/ k > f)
      BY ONLY <1>1, <2>1
    <3>2. At(t, k) = t[k]
      BY <2>1, <1>3 DEF At
    <3> QED BY <3>1, <3>2, <1>3, <2>1 DEF At, L
  <2>2. CASE k = 0
    <3>1. k < f /\ 0 \notin 1 .. L /\ 0 \notin 1 .. L + 1
      BY ONLY <1>1, <2>2
    <3> QED BY <3>1, <2>2, <1>3 DEF At, L
  <2>3. CASE k = L + 2
    <3>1. ~(k < f) /\ k # f /\ k - 1 = L + 1 /\ L + 1 \notin 1 .. L /\ L + 2 \notin 1 .. L + 1
      BY ONLY <1>1, <2>3
    <3> QED BY <3>1, <2>3, <1>3 DEF At, L
  <2>4. k \in 1 .. L + 1 \/ k = 0 \/ k = L + 2
    BY ONLY <1>1, k \in 0 .. L + 2
  <2> QED BY <2>1, <2>2, <2>3, <2>4
<1>5. Elements(t) = Elements(s) \union {n}
  <2>1. ASSUME NEW x \in Elements(t) PROVE x \in Elements(s) \union {n}
    <3>1. PICK k \in 1 .. L + 1 : x = t[k]
      BY <1>3 DEF Elements
    <3>2. (k < f => k \in 1 .. L) /\ (k > f => k - 1 \in 1 .. L) /\ (k < f \/ k = f \/ k > f)
      BY ONLY <1>1, <3>1
    <3> QED BY <3>1, <3>2, <1>3 DEF Elements, L
  <2>2. ASSUME NEW i \in 1 .. L PROVE s[i] \in Elements(t)
    <3>1. i \in 1 .. L + 1 /\ i + 1 \in 1 .. L + 1 /\ i + 1 - 1 = i
          /\ (i < f \/ (i + 1 # f /\ ~(i + 1 < f)))
      BY ONLY <1>1, i \in 1 .. L
    <3>2. t[i] = s[i] \/ t[i + 1] = s[i]
      BY <3>1, <1>3
    <3> QED BY <3>1, <3>2, <1>3 DEF Elements
  <2>3. n \in Elements(t)
    BY <1>1, <1>3 DEF Elements
  <2> QED BY <2>1, <2>2, <2>3 DEF Elements, L
<1> QED BY <1>3, <1>4, <1>5 DEF t, L, IsIns

LEMMA DelFacts ==
  ASSUME NEW s \in Seq(Node), NEW i \in 1 .. Len(s), \A j, k \in 1 .. Len(s) : j # k => s[j] # s[k]
  PROVE  IsDel(Del1(s, i), s, i)
<1> DEFINE t == Del1(s, i)
           L == Len(s)
<1>1. L \in Nat /\ i \in 1 .. L
  OBVIOUS
<1>2. \A k \in 1 .. L - 1 : (IF k < i THEN s[k] ELSE s[k + 1]) \in Node
  OBVIOUS
<1>3. /\ t \in Seq(Node) /\ Len(t) = L - 1
      /\ \A k \in 1 .. L - 1 : t[k] = IF k < i THEN s[k] ELSE s[k + 1]
  <2>1. L - 1 \in Nat
    BY <1>1
  <2> QED BY <1>2, <2>1 DEF Del1
<1> HIDE DEF t, L
<1>4. ASSUME NEW k \in 0 .. L PROVE At(t, k) = IF k < i THEN At(s, k) ELSE At(s, k + 1)
  <2>1. CASE k \in 1 .. L - 1
    <3>1. k \in 1 .. L /\ k + 1 \in 1 .. L
      BY ONLY <1>1, <2>1
    <3> QED BY <3>1, <2>1, <1>3 DEF At, L
  <2>2. CASE k = 0
    <3>1. k < i /\ 0 \notin 1 .. L /\ 0 \notin 1 .. L - 1
      BY ONLY <1>1, <2>2
    <3> QED BY <3>1, <2>2, <1>3 DEF At, L
  <2>3. CASE k = L
    <3>1. ~(k < i) /\ L + 1 \notin 1 .. L /\ L \notin 1 .. L - 1
      BY ONLY <1>1, <2>3
    <3> QED BY <3>1, <2>3, <1>3 DEF At, L
  <2>4. k \in 1 .. L - 1 \/ k = 0 \/ k = L
    BY ONLY <1>1, k \in 0 .. L
  <2> QED BY <2>1, <2>2, <2>3, <2>4
<1>5. Elements(t) = Elements(s) \ {s[i]}
  <2>1. ASSUME NEW k \in 1 .. L - 1 PROVE t[k] \in Elements(s) \ {s[i]}
    <3>1. k \in 1 .. L /\ k + 1 \in 1 .. L /\ (k < i => k # i) /\ (~(k < i) => k + 1 # i)
      BY ONLY <1>1, k \in 1 .. L - 1
    <3> QED BY <3>1, <1>3, <1>1 DEF Elements, L
  <2>2. ASSUME NEW j \in 1 .. L, j # i PROVE s[j] \in Elements(t)
    <3>1. (j < i /\ j \in 1 .. L - 1) \/ (j - 1 \in 1 .. L - 1 /\ ~(j - 1 < i) /\ j - 1 + 1 = j)
      BY ONLY <1>1, <2>2
    <3>2. (j \in 1 .. L - 1 /\ t[j] = s[j]) \/ (j - 1 \in 1 .. L - 1 /\ t[j - 1] = s[j])
      BY <3>1, <1>3
    <3> QED BY <3>2, <1>3 DEF Elements
  <2>3. ASSUME NEW x \in Elements(t) PROVE x \in Elements(s) \ {s[i]}
    BY <2>1, <1>3 DEF Elements
  <2>4. ASSUME NEW x \in Elements(s) \ {s[i]} PROVE x \in Elements(t)
    <3>1. PICK j \in 1 .. L : x = s[j]
      BY DEF Elements, L
    <3>2. j # i
      BY <3>1
    <3> QED BY <2>2, <3>1, <3>2
  <2> QED BY <2>3, <2>4
<1> QED BY <1>3, <1>4, <1>5 DEF t, L, IsDel

LEMMA InsList ==
  ASSUME NEW l, NEW s \in Seq(Node), IsList(l, s), NEW n \in Node, n \notin Elements(s),
         NEW f \in 1 .. Len(s) + 1, NEW m, Linked(l, m, s, f, n)
  PROVE  IsList(m, Ins(s, f, n))
<1> DEFINE t == Ins(s, f, n)
           L == Len(s)
<1>0. Len(s) \in Nat /\ IsIns(t, s, f, n)
  BY InsFacts
<1>1. /\ L \in Nat /\ f \in 1 .. L + 1 /\ Len(t) = L + 1
      /\ \A k \in 1 .. L + 1 : t[k] = IF k < f THEN s[k] ELSE IF k = f THEN n ELSE s[k - 1]
      /\ \A k \in 0 .. L + 2 : At(t, k) = IF k < f THEN At(s, k) ELSE IF k = f THEN n ELSE At(s, k - 1)
  BY <1>0 DEF IsIns
<1>2. /\ \A i, j \in 1 .. L : i # j => s[i] # s[j]
      /\ l.head = At(s, 1) /\ l.tail = At(s, L)
      /\ \A i \in 1 .. L : /\ l.prev[s[i]] = At(s, i - 1) /\ l.next[s[i]] = At(s, i + 1)
                           /\ s[i] \in Node /\ s[i] # n /\ At(s, i) = s[i]
  BY DEF IsList, Elements, At
<1>3. /\ m.head = (IF f = 1 THEN n ELSE l.head) /\ m.tail = (IF f = L + 1 THEN n ELSE l.tail)
      /\ \A x \in Node :
           /\ m.next[x] = IF x = n THEN At(s, f) ELSE IF x = At(s, f - 1) THEN n ELSE l.next[x]
           /\ m.prev[x] = IF x = n THEN At(s, f - 1) ELSE IF x = At(s, f) THEN n ELSE l.prev[x]
  BY DEF Linked
<1>4. \A i \in 1 .. L : \A k \in 0 .. L + 1 : At(s, k) = s[i] <=> k = i
  <2> TAKE i \in 1 .. L
  <2> TAKE k \in 0 .. L + 1
  <2>1. CASE k \in 1 .. L
    BY <2>1, <1>2
  <2>2. CASE k \notin 1 .. L
    BY <2>2, <1>2, AtOut, Params
  <2> QED BY <2>1, <2>2
<1> HIDE DEF t, L
<1>5. m.head = At(t, 1) /\ m.tail = At(t, Len(t))
  <2>1. 1 \in 0 .. L + 2 /\ L + 1 \in 0 .. L + 2 /\ L + 1 - 1 = L
        /\ (f # 1 => 1 < f) /\ ~(1 < 1) /\ (f # L + 1 => ~(L + 1 < f)) /\ (f = 1 => ~(1 < f))
        /\ ~(f < f)
    BY ONLY <1>1
  <2> QED BY <2>1, <1>1, <1>2, <1>3
<1>6. \A i, j \in 1 .. Len(t) : i # j => t[i] # t[j]
  <2> TAKE i, j \in 1 .. Len(t)
  <2>1. /\ (i < f => i \in 1 .. L) /\ (i > f => i - 1 \in 1 .. L) /\ (i < f \/ i = f \/ i > f)
        /\ (j < f => j \in 1 .. L) /\ (j > f => j - 1 \in 1 .. L) /\ (j < f \/ j = f \/ j > f)
        /\ (i # j => i - 1 # j - 1) /\ (i < f /\ j > f => i # j - 1) /\ (j < f /\ i > f => j # i - 1)
        /\ i \in 1 .. L + 1 /\ j \in 1 .. L + 1
        /\ (i > f => ~(i < f) /\ i # f) /\ (j > f => ~(j < f) /\ j # f)
    BY ONLY <1>1, i \in 1 .. Len(t), j \in 1 .. Len(t)
  <2>2. t[i] = (IF i < f THEN s[i] ELSE IF i = f THEN n ELSE s[i - 1])
        /\ t[j] = (IF j < f THEN s[j] ELSE IF j = f THEN n ELSE s[j - 1])
    BY <2>1, <1>1
  <2>3. CASE i < f
    BY <2>1, <2>2, <2>3, <1>2
  <2>4. CASE i = f
    BY <2>1, <2>2, <2>4, <1>2
  <2>5. CASE i > f
    BY <2>1, <2>2, <2>5, <1>2
  <2> QED BY <2>1, <2>3, <2>4, <2>5
<1>7. ASSUME NEW k \in 1 .. Len(t) PROVE m.prev[t[k]] = At(t, k - 1) /\ m.next[t[k]] = At(t, k + 1)
  <2>1. k \in 1 .. L + 1 /\ k - 1 \in 0 .. L + 2 /\ k + 1 \in 0 .. L + 2 /\ k + 1 - 1 = k
        /\ f - 1 \in 0 .. L + 1 /\ f \in 0 .. L + 1
    BY ONLY <1>1, k \in 1 .. Len(t)
  <2>2. CASE k < f
    <3>1. k \in 1 .. L /\ k - 1 < f /\ k # f /\ (k + 1 < f \/ k + 1 = f) /\ (k = f - 1 <=> k + 1 = f)
          /\ ~(f < f)
      BY ONLY <1>1, <2>1, <2>2
    <3>2. t[k] = s[k] /\ At(t, k - 1) = At(s, k - 1)
          /\ At(t, k + 1) = (IF k + 1 = f THEN n ELSE At(s, k + 1))
      BY <3>1, <2>1, <2>2, <1>1
    <3>3. (s[k] = At(s, f - 1) <=> k = f - 1) /\ s[k] # At(s, f)
      BY <3>1, <2>1, <1>4
    <3> QED BY <3>1, <3>2, <3>3, <1>2, <1>3
  <2>3. CASE k = f
    <3>1. k - 1 < f /\ ~(k < f) /\ ~(k + 1 < f) /\ k + 1 # f
      BY ONLY <1>1, <2>1, <2>3
    <3>2. t[k] = n /\ At(t, k - 1) = At(s, f - 1) /\ At(t, k + 1) = At(s, f)
      BY <3>1, <2>1, <2>3, <1>1
    <3> QED BY <3>2, <1>3
  <2>4. CASE k > f
    <3>1. /\ k - 1 \in 1 .. L /\ ~(k < f) /\ k # f /\ ~(k - 1 < f) /\ ~(k + 1 < f) /\ k + 1 # f
          /\ k - 1 # f - 1 /\ (k - 1 = f => k - 1 - 1 = f - 1) /\ k - 1 + 1 = k
      BY ONLY <1>1, <2>1, <2>4
    <3>2. t[k] = s[k - 1] /\ At(t, k - 1) = (IF k - 1 = f THEN n ELSE At(s, k - 1 - 1))
          /\ At(t, k + 1) = At(s, k)
      BY <3>1, <2>1, <1>1
    <3>3. (s[k - 1] = At(s, f) <=> k - 1 = f) /\ s[k - 1] # At(s, f - 1)
      BY <3>1, <2>1, <1>4
    <3>4. s[k - 1] \in Node /\ s[k - 1] # n /\ l.prev[s[k - 1]] = At(s, k - 1 - 1) /\ l.next[s[k - 1]] = At(s, k)
      BY <3>1, <1>2
    <3> QED BY <3>2, <3>3, <3>4, <1>3
  <2>5. k < f \/ k = f \/ k > f
    BY ONLY <1>1, <2>1
  <2> QED BY <2>2, <2>3, <2>4, <2>5
<1> QED BY <1>5, <1>6, <1>7 DEF IsList, t

LEMMA DelList ==
  ASSUME NEW l, NEW s \in Seq(Node), IsList(l, s), NEW i \in 1 .. Len(s),
         NEW m, Unlinked(l, m, s, i)
  PROVE  IsList(m, Del1(s, i))
<1> DEFINE t == Del1(s, i)
           L == Len(s)
<1>0. Len(s) \in Nat /\ IsDel(t, s, i)
  BY DelFacts DEF IsList
<1>1. /\ L \in Nat /\ i \in 1 .. L /\ Len(t) = L - 1
      /\ \A k \in 1 .. L - 1 : t[k] = IF k < i THEN s[k] ELSE s[k + 1]
      /\ \A k \in 0 .. L : At(t, k) = IF k < i THEN At(s, k) ELSE At(s, k + 1)
  BY <1>0 DEF IsDel
<1>2. /\ \A j, k \in 1 .. L : j # k => s[j] # s[k]
      /\ l.head = At(s, 1) /\ l.tail = At(s, L)
      /\ \A k \in 1 .. L : /\ l.prev[s[k]] = At(s, k - 1) /\ l.next[s[k]] = At(s, k + 1)
                           /\ s[k] \in Node /\ At(s, k) = s[k]
  BY DEF IsList, At
<1>3. /\ m.head = (IF i = 1 THEN At(s, 2) ELSE l.head)
      /\ m.tail = (IF i = L THEN At(s, i - 1) ELSE l.tail)
      /\ \A x \in Node \ {s[i]} :
           /\ m.next[x] = IF x = At(s, i - 1) THEN At(s, i + 1) ELSE l.next[x]
           /\ m.prev[x] = IF x = At(s, i + 1) THEN At(s, i - 1) ELSE l.prev[x]
  BY DEF Unlinked
<1>4. \A j \in 1 .. L : \A k \in 0 .. L + 1 : At(s, k) = s[j] <=> k = j
  <2> TAKE j \in 1 .. L
  <2> TAKE k \in 0 .. L + 1
  <2>1. CASE k \in 1 .. L
    BY <2>1, <1>2
  <2>2. CASE k \notin 1 .. L
    BY <2>2, <1>2, AtOut, Params
  <2> QED BY <2>1, <2>2
<1> HIDE DEF t, L
<1>5. m.head = At(t, 1) /\ m.tail = At(t, Len(t))
  <2>1. 1 \in 0 .. L /\ L - 1 \in 0 .. L /\ L - 1 + 1 = L
        /\ (i # 1 => 1 < i) /\ ~(1 < 1) /\ (i = L => L - 1 < i /\ L - 1 = i - 1)
        /\ (i # L => ~(L - 1 < i)) /\ 1 + 1 = 2
    BY ONLY <1>1
  <2> QED BY <2>1, <1>1, <1>2, <1>3
<1>6. \A j, k \in 1 .. Len(t) : j # k => t[j] # t[k]
  <2> TAKE j, k \in 1 .. Len(t)
  <2>1. /\ j \in 1 .. L - 1 /\ k \in 1 .. L - 1 /\ j \in 1 .. L /\ k \in 1 .. L
        /\ j + 1 \in 1 .. L /\ k + 1 \in 1 .. L /\ (j # k => j + 1 # k + 1)
        /\ (j < i /\ ~(k < i) => j # k + 1) /\ (k < i /\ ~(j < i) => k # j + 1)
    BY ONLY <1>1, j \in 1 .. Len(t), k \in 1 .. Len(t)
  <2>2. t[j] = (IF j < i THEN s[j] ELSE s[j + 1]) /\ t[k] = (IF k < i THEN s[k] ELSE s[k + 1])
    BY <2>1, <1>1
  <2>3. CASE j < i
    BY <2>1, <2>2, <2>3, <1>2
  <2>4. CASE ~(j < i)
    BY <2>1, <2>2, <2>4, <1>2
  <2> QED BY <2>3, <2>4
<1>7. ASSUME NEW k \in 1 .. Len(t) PROVE m.prev[t[k]] = At(t, k - 1) /\ m.next[t[k]] = At(t, k + 1)
  <2>1. k \in 1 .. L - 1 /\ k - 1 \in 0 .. L /\ k + 1 \in 0 .. L /\ k - 1 + 1 = k
        /\ i - 1 \in 0 .. L + 1 /\ i + 1 \in 0 .. L + 1 /\ k \in 1 .. L /\ k + 1 \in 1 .. L
        /\ k + 1 - 1 = k
    BY ONLY <1>1, k \in 1 .. Len(t)
  <2>2. CASE k < i
    <3>1. k - 1 < i /\ (k + 1 < i \/ k + 1 = i) /\ (k = i - 1 <=> k + 1 = i) /\ k # i + 1 /\ k # i
          /\ ~(i < i)
      BY ONLY <1>1, <2>1, <2>2
    <3>2. t[k] = s[k] /\ At(t, k - 1) = At(s, k - 1)
          /\ At(t, k + 1) = (IF k + 1 = i THEN At(s, i + 1) ELSE At(s, k + 1))
      BY <3>1, <2>1, <2>2, <1>1
    <3>3. (s[k] = At(s, i - 1) <=> k = i - 1) /\ s[k] # At(s, i + 1) /\ s[k] # s[i]
      BY <3>1, <2>1, <1>1, <1>2, <1>4
    <3>4. s[k] \in Node /\ l.prev[s[k]] = At(s, k - 1) /\ l.next[s[k]] = At(s, k + 1)
      BY <2>1, <1>2
    <3>5. /\ m.next[s[k]] = IF s[k] = At(s, i - 1) THEN At(s, i + 1) ELSE l.next[s[k]]
          /\ m.prev[s[k]] = IF s[k] = At(s, i + 1) THEN At(s, i - 1) ELSE l.prev[s[k]]
      BY <3>3, <3>4, <1>3
    <3> QED BY ONLY <3>1, <3>2, <3>3, <3>4, <3>5
  <2>3. CASE ~(k < i)
    <3>1. ~(k + 1 < i) /\ (k - 1 < i <=> k = i) /\ (k = i => k + 1 = i + 1) /\ (k # i => k + 1 # i + 1)
          /\ k + 1 # i - 1 /\ k + 1 # i
      BY ONLY <1>1, <2>1, <2>3
    <3>2. t[k] = s[k + 1] /\ At(t, k - 1) = (IF k = i THEN At(s, i - 1) ELSE At(s, k))
          /\ At(t, k + 1) = At(s, k + 1 + 1)
      BY <3>1, <2>1, <2>3, <1>1
    <3>3. (s[k + 1] = At(s, i + 1) <=> k = i) /\ s[k + 1] # At(s, i - 1) /\ s[k + 1] # s[i]
      BY <3>1, <2>1, <1>1, <1>2, <1>4
    <3>4. s[k + 1] \in Node /\ l.prev[s[k + 1]] = At(s, k) /\ l.next[s[k + 1]] = At(s, k + 1 + 1)
      <4>1. PICK j \in 1 .. L : j = k + 1 /\ j - 1 = k
        BY <2>1
      <4>2. s[j] \in Node /\ l.prev[s[j]] = At(s, j - 1) /\ l.next[s[j]] = At(s, j + 1)
        BY <1>2
      <4> QED BY ONLY <4>1, <4>2
    <3> QED BY <3>2, <3>3, <3>4, <1>3
  <2> QED BY <2>2, <2>3
<1> QED BY <1>5, <1>6, <1>7 DEF IsList, t

-----------------------------------------------------------------------------
(* The functions of lv_ll.c. *)

\* m is l but for one link, and but for the ends.
PrevIs(m, l, n, p) ==
  /\ m \in Links /\ m.head = l.head /\ m.tail = l.tail
  /\ \A x \in Node : m.next[x] = l.next[x] /\ m.prev[x] = IF x = n THEN p ELSE l.prev[x]

NextIs(m, l, n, p) ==
  /\ m \in Links /\ m.head = l.head /\ m.tail = l.tail
  /\ \A x \in Node : m.prev[x] = l.prev[x] /\ m.next[x] = IF x = n THEN p ELSE l.next[x]

EndsAre(m, l, h, t) ==
  m \in Links /\ m.head = h /\ m.tail = t /\ m.prev = l.prev /\ m.next = l.next

LEMMA SetPrevFacts ==
  ASSUME NEW l \in Links, NEW n \in Node \union {Null}, NEW p \in Link
  PROVE  PrevIs(SetPrev(l, n, p), l, n, p)
BY Params DEF SetPrev, Links, PrevIs

LEMMA SetNextFacts ==
  ASSUME NEW l \in Links, NEW n \in Node \union {Null}, NEW p \in Link
  PROVE  NextIs(SetNext(l, n, p), l, n, p)
BY Params DEF SetNext, Links, NextIs

LEMMA EndsFacts ==
  ASSUME NEW l \in Links, NEW h \in Node \union {Null}, NEW t \in Node \union {Null}
  PROVE  EndsAre([l EXCEPT !.head = h, !.tail = t], l, h, t)
BY DEF Links, EndsAre

BetweenIs(m, l, b, n, a) ==
  /\ m \in Links /\ m.head = l.head /\ m.tail = l.tail
  /\ \A x \in Node :
       /\ m.next[x] = IF x = n THEN a ELSE IF x = b THEN n ELSE l.next[x]
       /\ m.prev[x] = IF x = n THEN b ELSE IF x = a THEN n ELSE l.prev[x]

LEMMA BetweenFacts ==
  ASSUME NEW l \in Links, NEW b \in Node \union {Null}, NEW a \in Node \union {Null},
         NEW n \in Node, a # n, b # n
  PROVE  BetweenIs(Between(l, b, n, a), l, b, n, a)
<1>0. n \in Link /\ a \in Link /\ b \in Link /\ n \in Node \union {Null}
  BY DEF Link
<1>1. PICK l1 : l1 = SetNext(l, b, n)
  OBVIOUS
<1>2. PICK l2 : l2 = SetPrev(l1, n, b)
  OBVIOUS
<1>3. PICK l3 : l3 = SetPrev(l2, a, n)
  OBVIOUS
<1>4. PICK l4 : l4 = SetNext(l3, n, a)
  OBVIOUS
<1>5. l4 = Between(l, b, n, a)
  BY <1>1, <1>2, <1>3, <1>4 DEF Between
<1>6. NextIs(l1, l, b, n)
  BY <1>0, <1>1, SetNextFacts
<1>7. PrevIs(l2, l1, n, b)
  BY <1>0, <1>2, <1>6, SetPrevFacts DEF NextIs
<1>8. PrevIs(l3, l2, a, n)
  <2>1. l2 \in Links
    BY <1>7 DEF PrevIs
  <2> QED BY <2>1, <1>0, <1>3, SetPrevFacts
<1>9. NextIs(l4, l3, n, a)
  BY <1>0, <1>4, <1>8, SetNextFacts DEF PrevIs
<1>10. \A x \in Node : /\ l4.next[x] = IF x = n THEN a ELSE IF x = b THEN n ELSE l.next[x]
                       /\ l4.prev[x] = IF x = n THEN b ELSE IF x = a THEN n ELSE l.prev[x]
  BY <1>6, <1>7, <1>8, <1>9 DEF PrevIs, NextIs
<1>11. l4 \in Links /\ l4.head = l.head /\ l4.tail = l.tail
  BY <1>6, <1>7, <1>8, <1>9 DEF PrevIs, NextIs
<1> QED BY <1>5, <1>10, <1>11 DEF BetweenIs

\* What IsList says of a list in the terms of At.
LEMMA ListFacts ==
  ASSUME NEW l, NEW s \in Seq(Node), IsList(l, s)
  PROVE  /\ Len(s) \in Nat /\ l.head = At(s, 1) /\ l.tail = At(s, Len(s))
         /\ At(s, 0) = Null /\ At(s, Len(s) + 1) = Null
         /\ \A i \in 1 .. Len(s) :
              /\ s[i] \in Node /\ s[i] # Null /\ At(s, i) = s[i] /\ s[i] \in Elements(s)
              /\ l.prev[s[i]] = At(s, i - 1) /\ l.next[s[i]] = At(s, i + 1)
         /\ \A i \in 1 .. Len(s) : \A k : At(s, k) = s[i] <=> k = i
         /\ \A k : At(s, k) \in Elements(s) \union {Null} /\ At(s, k) \in Node \union {Null}
<1>1. Len(s) \in Nat
  OBVIOUS
<1>2. l.head = At(s, 1) /\ l.tail = At(s, Len(s))
  BY DEF IsList
<1>3. 0 \notin 1 .. Len(s) /\ Len(s) + 1 \notin 1 .. Len(s)
  BY <1>1
<1>4. \A i \in 1 .. Len(s) :
        /\ s[i] \in Node /\ s[i] # Null /\ At(s, i) = s[i] /\ s[i] \in Elements(s)
        /\ l.prev[s[i]] = At(s, i - 1) /\ l.next[s[i]] = At(s, i + 1)
  BY Params DEF IsList, At, Elements
<1>5. ASSUME NEW i \in 1 .. Len(s), NEW k PROVE At(s, k) = s[i] <=> k = i
  <2>1. CASE k \in 1 .. Len(s)
    BY <2>1, <1>4 DEF IsList
  <2>2. CASE k \notin 1 .. Len(s)
    BY <2>2, <1>4, AtOut
  <2> QED BY <2>1, <2>2
<1>6. \A k : At(s, k) \in Elements(s) \union {Null} /\ At(s, k) \in Node \union {Null}
  BY <1>4 DEF At
<1> QED BY <1>1, <1>2, <1>3, <1>4, <1>5, <1>6, AtOut

LEMMA InsTailLinks ==
  ASSUME NEW l \in Links, NEW s \in Seq(Node), IsList(l, s), NEW n \in Node, n \notin Elements(s)
  PROVE  Linked(l, InsTail(l, n), s, Len(s) + 1, n)
<1> DEFINE L == Len(s)
<1>1. /\ L \in Nat /\ l.head = At(s, 1) /\ l.tail = At(s, L) /\ At(s, L + 1) = Null
      /\ (L # 0 => At(s, 1) # Null) /\ (L = 0 => At(s, 1) = Null)
  <2>1. L # 0 => 1 \in 1 .. L
    OBVIOUS
  <2> QED BY <2>1, ListFacts
<1>2. l.tail \in Node \union {Null} /\ l.tail # n /\ l.head \in Node \union {Null}
  BY ListFacts, Params
<1> HIDE DEF L
<1>3. n \in Link /\ l.tail \in Link /\ Null \in Link /\ n \in Node \union {Null} /\ n # Null
  BY <1>2, Params DEF Link
<1>4. PICK l1 : l1 = SetNext(l, n, Null)
  OBVIOUS
<1>5. PICK l2 : l2 = SetPrev(l1, n, l.tail)
  OBVIOUS
<1>6. PICK l3 : l3 = SetNext(l2, l.tail, n)
  OBVIOUS
<1>7. NextIs(l1, l, n, Null)
  BY <1>3, <1>4, SetNextFacts
<1>8. PrevIs(l2, l1, n, l.tail)
  BY <1>3, <1>5, <1>7, SetPrevFacts DEF NextIs
<1>9. NextIs(l3, l2, l.tail, n)
  BY <1>2, <1>3, <1>6, <1>8, SetNextFacts DEF PrevIs
<1>10. PICK h : h = IF l.head = Null THEN n ELSE l.head
  OBVIOUS
<1>11. InsTail(l, n) = [l3 EXCEPT !.head = h, !.tail = n]
  <2>1. InsTail(l, n) = [l3 EXCEPT !.tail = n, !.head = IF @ = Null THEN n ELSE @]
    BY <1>4, <1>5, <1>6 DEF InsTail
  <2>2. l3.head = l.head
    BY <1>7, <1>8, <1>9 DEF PrevIs, NextIs
  <2> QED BY <2>1, <2>2, <1>9, <1>10 DEF NextIs, Links
<1>12. EndsAre(InsTail(l, n), l3, h, n)
  <2>1. h \in Node \union {Null} /\ n \in Node \union {Null} /\ l3 \in Links
    BY <1>9, <1>10, <1>2 DEF NextIs
  <2>2. EndsAre([l3 EXCEPT !.head = h, !.tail = n], l3, h, n)
    BY <2>1, EndsFacts
  <2> QED BY <2>2, <1>11
<1>13. \A x \in Node : /\ l3.next[x] = IF x = n THEN Null ELSE IF x = l.tail THEN n ELSE l.next[x]
                       /\ l3.prev[x] = IF x = n THEN l.tail ELSE l.prev[x]
  BY <1>2, <1>7, <1>8, <1>9 DEF PrevIs, NextIs
<1>14. L + 1 - 1 = L /\ (L + 1 = 1 <=> L = 0)
  BY ONLY <1>1
<1>15. h = IF L + 1 = 1 THEN n ELSE l.head
  BY <1>1, <1>10, <1>14
<1>16. \A x \in Node : x # At(s, L + 1)
  BY <1>1, Params
<1>17. Linked(l, InsTail(l, n), s, L + 1, n)
  BY <1>1, <1>12, <1>13, <1>14, <1>15, <1>16 DEF Linked, L, EndsAre
<1> QED BY <1>17 DEF L

LEMMA InsPrevLinks ==
  ASSUME NEW l \in Links, NEW s \in Seq(Node), IsList(l, s), NEW n \in Node, n \notin Elements(s),
         NEW f \in 1 .. Len(s)
  PROVE  Linked(l, InsPrev(l, n, s[f]), s, f, n)
<1> DEFINE L == Len(s)
           a == s[f]
           b == At(s, f - 1)
<1>1. /\ L \in Nat /\ f \in 1 .. L /\ l.head = At(s, 1) /\ l.tail = At(s, L) /\ At(s, 0) = Null
      /\ a \in Node /\ a # Null /\ a # n /\ At(s, f) = a /\ l.prev[a] = b
      /\ b \in Node \union {Null} /\ b # n /\ l.tail # Null /\ l.head # Null
      /\ (l.head = a <=> f = 1) /\ l.head \in Node /\ l.head # n /\ l.tail \in Node
  <2>1. L \in Nat /\ f \in 1 .. L /\ 1 \in 1 .. L /\ L \in 1 .. L
    OBVIOUS
  <2>2. /\ l.head = At(s, 1) /\ l.tail = At(s, L) /\ At(s, 0) = Null
        /\ At(s, 1) # Null /\ At(s, L) # Null /\ At(s, 1) \in Node /\ At(s, L) \in Node
        /\ At(s, 1) \in Elements(s) \union {Null}
        /\ a \in Node /\ a # Null /\ a \in Elements(s) /\ At(s, f) = a /\ l.prev[a] = b
        /\ (At(s, 1) = a <=> 1 = f)
    BY <2>1, ListFacts
  <2>3. b \in Elements(s) \union {Null} /\ b \in Node \union {Null}
    BY ListFacts
  <2> QED BY <2>1, <2>2, <2>3, Params
<1> HIDE DEF L, a, b
<1>2. n \in Link /\ l.head \in Link /\ Null \in Link /\ n \in Node \union {Null}
      /\ l.head \in Node \union {Null} /\ l.tail \in Node \union {Null} /\ n # Null
  BY <1>1, Params DEF Link
<1>3. f # L + 1
  BY ONLY <1>1
<1>4. CASE f = 1
  <2>1. PICK l1 : l1 = SetPrev(l, n, Null)
    OBVIOUS
  <2>2. PICK l2 : l2 = SetNext(l1, n, l.head)
    OBVIOUS
  <2>3. PICK l3 : l3 = SetPrev(l2, l.head, n)
    OBVIOUS
  <2>4. PrevIs(l1, l, n, Null)
    BY <1>2, <2>1, SetPrevFacts
  <2>5. NextIs(l2, l1, n, l.head)
    <3>1. l1 \in Links
      BY <2>4 DEF PrevIs
    <3> QED BY <1>2, <2>2, <3>1, SetNextFacts
  <2>6. PrevIs(l3, l2, l.head, n)
    <3>1. l2 \in Links
      BY <2>5 DEF NextIs
    <3> QED BY <1>2, <2>3, <3>1, SetPrevFacts
  <2>7. InsHead(l, n) = [l3 EXCEPT !.head = n, !.tail = l.tail]
    <3>1. InsHead(l, n) = [l3 EXCEPT !.head = n, !.tail = IF @ = Null THEN n ELSE @]
      BY <2>1, <2>2, <2>3 DEF InsHead
    <3>2. l3.tail = l.tail /\ l3 \in Links
      BY <2>4, <2>5, <2>6 DEF PrevIs, NextIs
    <3> QED BY <3>1, <3>2, <1>1 DEF Links
  <2>8. EndsAre(InsHead(l, n), l3, n, l.tail)
    <3>1. l3 \in Links
      BY <2>6 DEF PrevIs
    <3>2. EndsAre([l3 EXCEPT !.head = n, !.tail = l.tail], l3, n, l.tail)
      BY <3>1, <1>2, EndsFacts
    <3> QED BY <3>2, <2>7
  <2>9. \A x \in Node : /\ l3.next[x] = IF x = n THEN l.head ELSE l.next[x]
                        /\ l3.prev[x] = IF x = n THEN Null ELSE IF x = l.head THEN n ELSE l.prev[x]
    BY <1>1, <2>4, <2>5, <2>6 DEF PrevIs, NextIs
  <2>10. b = Null /\ f - 1 = 0
    BY <1>1, <1>4 DEF b
  <2>11. InsPrev(l, n, a) = InsHead(l, n)
    BY <1>1, <1>4 DEF InsPrev
  <2>12. \A x \in Node : x # b
    BY <2>10, Params
  <2>13. Linked(l, InsHead(l, n), s, f, n)
    BY <1>1, <1>3, <1>4, <2>8, <2>9, <2>10, <2>12 DEF Linked, L, a, b, EndsAre
  <2> QED BY <2>11, <2>13 DEF a
<1>5. CASE f # 1
  <2>1. InsPrev(l, n, a) = Between(l, b, n, a)
    BY <1>1, <1>5 DEF InsPrev
  <2>2. BetweenIs(Between(l, b, n, a), l, b, n, a)
    BY <1>1, BetweenFacts
  <2>3. Linked(l, Between(l, b, n, a), s, f, n)
    BY <1>1, <1>3, <1>5, <2>2 DEF Linked, L, b, BetweenIs
  <2> QED BY <2>1, <2>3 DEF a
<1> QED BY <1>4, <1>5

LEMMA RemLinks ==
  ASSUME NEW l \in Links, NEW s \in Seq(Node), IsList(l, s), NEW i \in 1 .. Len(s)
  PROVE  Unlinked(l, Rem(l, s[i]), s, i)
<1> DEFINE L == Len(s)
           n == s[i]
           p == At(s, i - 1)
           x == At(s, i + 1)
<1>1. /\ L \in Nat /\ i \in 1 .. L /\ l.head = At(s, 1) /\ l.tail = At(s, L)
      /\ n \in Node /\ l.prev[n] = p /\ l.next[n] = x
      /\ p \in Node \union {Null} /\ x \in Node \union {Null}
      /\ (l.head = n <=> i = 1) /\ (l.tail = n <=> i = L)
      /\ (p = Null <=> i = 1) /\ (x = Null <=> i = L)
      /\ l.head \in Node \union {Null} /\ l.tail \in Node \union {Null}
  <2>1. L \in Nat /\ i \in 1 .. L /\ (i # 1 => i - 1 \in 1 .. L) /\ (i # L => i + 1 \in 1 .. L)
        /\ (i = 1 => i - 1 = 0) /\ (i = L => i + 1 = L + 1)
    OBVIOUS
  <2>2. /\ l.head = At(s, 1) /\ l.tail = At(s, L) /\ At(s, 0) = Null /\ At(s, L + 1) = Null
        /\ n \in Node /\ l.prev[n] = p /\ l.next[n] = x
        /\ (At(s, 1) = n <=> 1 = i) /\ (At(s, L) = n <=> L = i)
    BY <2>1, ListFacts
  <2>3. p \in Node \union {Null} /\ x \in Node \union {Null}
    BY ListFacts
  <2>4. l.head \in Node \union {Null} /\ l.tail \in Node \union {Null}
    BY DEF Links
  <2>5. (i # 1 => p # Null) /\ (i # L => x # Null)
    BY <2>1, ListFacts
  <2> QED BY <2>1, <2>2, <2>3, <2>4, <2>5
<1> HIDE DEF L, n, p, x
<1>2. Null \in Link /\ p \in Link /\ x \in Link
  BY <1>1 DEF Link
<1>3. CASE i = 1
  <2>1. PICK m : m = SetPrev(l, x, Null)
    OBVIOUS
  <2>2. PrevIs(m, l, x, Null)
    BY <1>1, <1>2, <2>1, SetPrevFacts
  <2>3. PICK t : t = IF x = Null THEN Null ELSE l.tail
    OBVIOUS
  <2>4. Rem(l, n) = [m EXCEPT !.head = x, !.tail = t]
    <3>1. Rem(l, n) = [m EXCEPT !.head = x, !.tail = IF x = Null THEN Null ELSE @]
      BY <1>1, <1>3, <2>1 DEF Rem
    <3>2. m.tail = l.tail /\ m \in Links
      BY <2>2 DEF PrevIs
    <3> QED BY <3>1, <3>2, <2>3 DEF Links
  <2>5. EndsAre(Rem(l, n), m, x, t)
    <3>1. m \in Links /\ t \in Node \union {Null}
      BY <1>1, <2>2, <2>3 DEF PrevIs
    <3>2. EndsAre([m EXCEPT !.head = x, !.tail = t], m, x, t)
      BY <3>1, <1>1, EndsFacts
    <3> QED BY <3>2, <2>4
  <2>6. At(s, 2) = x /\ p = Null /\ \A y \in Node : y # p
    BY <1>1, <1>3, Params DEF x
  <2>7. t = IF i = L THEN p ELSE l.tail
    BY <1>1, <2>3, <2>6
  <2>8. Unlinked(l, Rem(l, n), s, i)
    BY <1>3, <2>2, <2>5, <2>6, <2>7 DEF Unlinked, L, p, x, EndsAre, PrevIs
  <2> QED BY <2>8 DEF n
<1>4. CASE i # 1 /\ i = L
  <2>1. PICK m : m = SetNext(l, p, Null)
    OBVIOUS
  <2>2. NextIs(m, l, p, Null)
    BY <1>1, <1>2, <2>1, SetNextFacts
  <2>4. Rem(l, n) = [m EXCEPT !.head = l.head, !.tail = p]
    <3>1. Rem(l, n) = [m EXCEPT !.tail = p, !.head = IF p = Null THEN Null ELSE @]
      BY <1>1, <1>4, <2>1 DEF Rem
    <3>2. m.head = l.head /\ m \in Links
      BY <2>2 DEF NextIs
    <3> QED BY <3>1, <3>2, <1>1, <1>4 DEF Links
  <2>5. EndsAre(Rem(l, n), m, l.head, p)
    <3>1. m \in Links
      BY <2>2 DEF NextIs
    <3>2. EndsAre([m EXCEPT !.head = l.head, !.tail = p], m, l.head, p)
      BY <3>1, <1>1, EndsFacts
    <3> QED BY <3>2, <2>4
  <2>6. x = Null /\ \A y \in Node : y # x
    BY <1>1, <1>4, Params
  <2>8. Unlinked(l, Rem(l, n), s, i)
    BY <1>4, <2>2, <2>5, <2>6 DEF Unlinked, L, p, x, EndsAre, NextIs
  <2> QED BY <2>8 DEF n
<1>5. CASE i # 1 /\ i # L
  <2>1. PICK m : m = SetNext(l, p, x)
    OBVIOUS
  <2>2. NextIs(m, l, p, x)
    BY <1>1, <1>2, <2>1, SetNextFacts
  <2>3. Rem(l, n) = SetPrev(m, x, p)
    BY <1>1, <1>5, <2>1 DEF Rem
  <2>4. PrevIs(Rem(l, n), m, x, p)
    <3>1. m \in Links
      BY <2>2 DEF NextIs
    <3> QED BY <3>1, <1>1, <1>2, <2>3, SetPrevFacts
  <2>5. Unlinked(l, Rem(l, n), s, i)
    BY <1>5, <2>2, <2>4 DEF Unlinked, L, p, x, PrevIs, NextIs
  <2> QED BY <2>5 DEF n
<1> QED BY <1>3, <1>4, <1>5

\* lv_ll_move_before, before the f-th node, where the node is already or is not.
LEMMA MoveStays ==
  ASSUME NEW l \in Links, NEW s \in Seq(Node), IsList(l, s), NEW i \in 1 .. Len(s)
  PROVE  MoveBefore(l, s[i], At(s, i + 1)) = l
<1>1. l.prev[At(s, i + 1)] = s[i] \/ At(s, i + 1) = Null
  <2>1. CASE i = Len(s)
    BY <2>1, ListFacts
  <2>2. CASE i # Len(s)
    <3>1. PICK j \in 1 .. Len(s) : j = i + 1 /\ j - 1 = i
      BY <2>2
    <3>2. At(s, j) = s[j] /\ l.prev[s[j]] = At(s, j - 1) /\ At(s, i) = s[i]
      BY ListFacts
    <3> QED BY <3>1, <3>2
  <2> QED BY <2>1, <2>2
<1>2. At(s, i + 1) = Null => l.tail = s[i]
  <2>1. CASE i = Len(s)
    BY <2>1, ListFacts
  <2>2. CASE i # Len(s)
    <3>1. i + 1 \in 1 .. Len(s)
      BY <2>2
    <3> QED BY <3>1, AtIn
  <2> QED BY <2>1, <2>2
<1> QED BY <1>1, <1>2 DEF MoveBefore

LEMMA MoveList ==
  ASSUME NEW l \in Links, NEW s \in Seq(Node), IsList(l, s), NEW i \in 1 .. Len(s),
         NEW f \in 1 .. Len(s) + 1, f # i, f # i + 1,
         NEW g, g = IF f < i THEN f ELSE f - 1
  PROVE  /\ MoveBefore(l, s[i], At(s, f)) \in Links
         /\ IsList(MoveBefore(l, s[i], At(s, f)), Ins(Del1(s, i), g, s[i]))
<1> DEFINE L == Len(s)
           n == s[i]
           a == At(s, f)
           b == At(s, f - 1)
           u == Del1(s, i)
           r == Rem(l, n)
           m == Between(r, b, n, a)
           w == [m EXCEPT !.tail = IF a = Null THEN n ELSE @, !.head = IF b = Null THEN n ELSE @]
<1>1. L \in Nat /\ i \in 1 .. L /\ f \in 1 .. L + 1 /\ n \in Node
      /\ \A j, k \in 1 .. L : j # k => s[j] # s[k]
  BY DEF IsList
<1>2. Unlinked(l, r, s, i)
  BY RemLinks
<1>3. r \in Links
  BY <1>2 DEF Unlinked
<1>4. IsDel(u, s, i)
  BY <1>1, DelFacts
<1>5. /\ u \in Seq(Node) /\ Len(u) = L - 1 /\ Elements(u) = Elements(s) \ {n}
      /\ \A k \in 0 .. L : At(u, k) = IF k < i THEN At(s, k) ELSE At(s, k + 1)
  BY <1>4 DEF IsDel
<1>6. IsList(r, u)
  BY <1>2, DelList
<1>7. a # n /\ b # n /\ a \in Node \union {Null} /\ b \in Node \union {Null}
  <2>1. \A k : At(s, k) = n <=> k = i
    BY ListFacts
  <2>2. f # i /\ f - 1 # i
    BY <1>1
  <2>3. a \in Node \union {Null} /\ b \in Node \union {Null}
    BY ListFacts
  <2> QED BY <2>1, <2>2, <2>3
<1>8. b = IF a = Null THEN l.tail ELSE l.prev[a]
  <2>1. CASE f = L + 1
    <3>1. a = Null /\ l.tail = At(s, L) /\ f - 1 = L
      BY <2>1, <1>1, ListFacts
    <3> QED BY <3>1
  <2>2. CASE f # L + 1
    <3>1. f \in 1 .. L
      BY <1>1, <2>2
    <3>2. a = s[f] /\ a # Null /\ l.prev[a] = b
      BY <3>1, ListFacts
    <3> QED BY <3>2
  <2> QED BY <2>1, <2>2
<1> HIDE DEF L, a, b, u, r, n
<1>9. MoveBefore(l, n, a) = w
  BY <1>7, <1>8 DEF MoveBefore, r
<1>10. BetweenIs(m, r, b, n, a)
  BY <1>1, <1>3, <1>7, BetweenFacts
<1>11. r.head \in Node \union {Null} /\ r.tail \in Node \union {Null}
  BY <1>3 DEF Links
<1>12. PICK h, t : h = (IF b = Null THEN n ELSE r.head) /\ t = (IF a = Null THEN n ELSE r.tail)
  OBVIOUS
<1>13. w = [m EXCEPT !.head = h, !.tail = t]
  <2>1. m \in Links /\ m.head = r.head /\ m.tail = r.tail
    BY <1>10 DEF BetweenIs
  <2> HIDE DEF m
  <2> QED BY <2>1, <1>12 DEF Links
<1>14. EndsAre(w, m, h, t)
  <2>1. m \in Links /\ h \in Node \union {Null} /\ t \in Node \union {Null}
    BY <1>1, <1>10, <1>11, <1>12 DEF BetweenIs
  <2> HIDE DEF m, w
  <2>2. EndsAre([m EXCEPT !.head = h, !.tail = t], m, h, t)
    BY <2>1, EndsFacts
  <2> QED BY <2>2, <1>13
<1>15. g \in 1 .. L /\ g \in 0 .. L /\ g - 1 \in 0 .. L /\ (g < i => g = f)
       /\ (~(g < i) => g + 1 = f) /\ (g - 1 < i => g - 1 = f - 1) /\ (~(g - 1 < i) => g - 1 + 1 = f - 1)
       /\ L - 1 + 1 = L
  BY ONLY <1>1, f # i, f # i + 1, g = IF f < i THEN f ELSE f - 1
<1>16. At(u, g) = a /\ At(u, g - 1) = b
  BY <1>5, <1>15 DEF a, b
<1>17. (b = Null <=> g = 1) /\ (a = Null <=> g = L)
  <2>1. Len(u) \in Nat /\ (g = 1 => g - 1 = 0) /\ (g # 1 => g - 1 \in 1 .. L - 1)
        /\ (g = L => g = L - 1 + 1) /\ (g # L => g \in 1 .. L - 1)
    BY ONLY <1>1, <1>5, <1>15
  <2>2. At(u, 0) = Null /\ At(u, Len(u) + 1) = Null /\ \A k \in 1 .. Len(u) : At(u, k) # Null
    <3>1. \A k \in 1 .. Len(u) : At(u, k) # Null
      BY <1>5, AtIn
    <3>2. 0 \notin 1 .. Len(u) /\ Len(u) + 1 \notin 1 .. Len(u)
      BY ONLY <2>1
    <3> QED BY <3>1, <3>2, <1>5, AtOut
  <2> QED BY <2>1, <2>2, <1>5, <1>16
<1>18. Linked(r, w, u, g, n)
  <2> HIDE DEF w, m
  <2> QED BY <1>5, <1>10, <1>12, <1>14, <1>15, <1>16, <1>17 DEF Linked, EndsAre, BetweenIs
<1>19. IsList(w, Ins(u, g, n)) /\ w \in Links
  <2> HIDE DEF w
  <2>1. g \in 1 .. Len(u) + 1 /\ n \notin Elements(u)
    BY <1>5, <1>15
  <2>2. w \in Links
    BY <1>18 DEF Linked
  <2> QED BY <2>1, <2>2, <1>1, <1>5, <1>6, <1>18, InsList
<1> QED BY <1>9, <1>19 DEF a, n, u

-----------------------------------------------------------------------------
(* The order of the list. *)

LEMMA DelSorted ==
  ASSUME NEW s \in Seq(Node), NEW i \in 1 .. Len(s), NEW t, IsDel(t, s, i), NEW pr, Sorted(s, pr)
  PROVE  Sorted(t, pr)
<1>1. SUFFICES ASSUME NEW j \in 1 .. Len(t), NEW k \in 1 .. Len(t), j < k
               PROVE  pr[t[j]] >= pr[t[k]]
  BY DEF Sorted
<1>2. /\ Len(t) = Len(s) - 1 /\ Len(s) \in Nat
      /\ t[j] = (IF j < i THEN s[j] ELSE s[j + 1]) /\ t[k] = (IF k < i THEN s[k] ELSE s[k + 1])
  BY DEF IsDel
<1>3. PICK x \in 1 .. Len(s) : x = IF j < i THEN j ELSE j + 1
  BY <1>2
<1>4. PICK y \in 1 .. Len(s) : y = IF k < i THEN k ELSE k + 1
  BY <1>2
<1>5. x < y
  BY <1>1, <1>3, <1>4
<1>6. t[j] = s[x] /\ t[k] = s[y]
  BY <1>2, <1>3, <1>4
<1> QED BY <1>5, <1>6 DEF Sorted

LEMMA InsSorted ==
  ASSUME NEW s \in Seq(Node), NEW f \in 1 .. Len(s) + 1, NEW n \in Node, n \notin Elements(s),
         NEW t, IsIns(t, s, f, n), NEW pr, NEW q, Sorted(s, pr), q[n] \in Int,
         \A k \in 1 .. Len(s) : q[s[k]] = pr[s[k]] /\ pr[s[k]] \in Int,
         \A k \in 1 .. Len(s) : (k < f => pr[s[k]] >= q[n]) /\ (k >= f => pr[s[k]] <= q[n])
  PROVE  Sorted(t, q)
<1>1. SUFFICES ASSUME NEW j \in 1 .. Len(t), NEW k \in 1 .. Len(t), j < k
               PROVE  q[t[j]] >= q[t[k]]
  BY DEF Sorted
<1>2. /\ Len(t) = Len(s) + 1 /\ Len(s) \in Nat
      /\ t[j] = (IF j < f THEN s[j] ELSE IF j = f THEN n ELSE s[j - 1])
      /\ t[k] = (IF k < f THEN s[k] ELSE IF k = f THEN n ELSE s[k - 1])
  BY DEF IsIns
<1>3. CASE j = f
  <2>1. PICK y \in 1 .. Len(s) : y = k - 1 /\ y >= f /\ ~(k < f) /\ k # f
    BY <1>1, <1>2, <1>3
  <2>2. t[j] = n /\ t[k] = s[y]
    BY <1>2, <1>3, <2>1
  <2>3. q[s[y]] <= q[n] /\ q[s[y]] \in Int
    BY <2>1
  <2> QED BY <2>2, <2>3
<1>4. CASE k = f
  <2>1. PICK x \in 1 .. Len(s) : x = j /\ x < f
    BY <1>1, <1>2, <1>4
  <2>2. t[j] = s[x] /\ t[k] = n
    BY <1>2, <1>4, <2>1
  <2>3. q[s[x]] >= q[n] /\ q[s[x]] \in Int
    BY <2>1
  <2> QED BY <2>2, <2>3
<1>5. CASE j # f /\ k # f
  <2>1. PICK x \in 1 .. Len(s) : x = IF j < f THEN j ELSE j - 1
    BY <1>2, <1>5
  <2>2. PICK y \in 1 .. Len(s) : y = IF k < f THEN k ELSE k - 1
    BY <1>2, <1>5
  <2>3. x < y
    BY <1>1, <1>5, <2>1, <2>2
  <2>4. t[j] = s[x] /\ t[k] = s[y]
    BY <1>2, <1>5, <2>1, <2>2
  <2> QED BY <2>3, <2>4 DEF Sorted
<1> QED BY <1>3, <1>4, <1>5

\* The list l is sound: it consists of the nodes of s, which are those of S, in
\* the order of the priorities pr.
Lists(l, s, S, pr) ==
  /\ l \in Links /\ s \in Seq(Node) /\ IsList(l, s) /\ Elements(s) = S /\ Sorted(s, pr)

LEMMA InsertedFacts ==
  ASSUME NEW l, NEW s, Lists(l, s, mem, prio), \A n \in mem : prio[n] \in 0 .. 5,
         NEW t \in Node, t \notin mem, NEW q, \A n \in mem : q[n] = prio[n], q[t] = DefPrio
  PROVE  \E r : Lists(Inserted(l, t), r, mem \union {t}, q)
<1>1. /\ l \in Links /\ s \in Seq(Node) /\ IsList(l, s) /\ Elements(s) = mem /\ Sorted(s, prio)
      /\ Len(s) \in Nat
  BY DEF Lists
<1> DEFINE S == {n \in mem : prio[n] <= DefPrio}
<1>2. PICK f \in 1 .. Len(s) + 1 : FirstAt(s, S, f)
  BY <1>1, FirstExists
<1>3. FirstIn(l, S) = At(s, f)
  BY <1>1, <1>2, FirstFound
<1>4. Linked(l, Inserted(l, t), s, f, t)
  <2>1. CASE f = Len(s) + 1
    <3>1. At(s, f) = Null
      BY <2>1, <1>1, ListFacts
    <3>2. Inserted(l, t) = InsTail(l, t)
      BY <3>1, <1>3 DEF Inserted
    <3> QED BY <3>2, <2>1, <1>1, InsTailLinks
  <2>2. CASE f # Len(s) + 1
    <3>1. f \in 1 .. Len(s)
      BY <2>2, <1>1
    <3>2. At(s, f) = s[f] /\ s[f] # Null
      BY <3>1, <1>1, ListFacts
    <3>3. Inserted(l, t) = InsPrev(l, t, s[f])
      BY <3>2, <1>3 DEF Inserted
    <3> QED BY <3>1, <3>3, <1>1, InsPrevLinks
  <2> QED BY <2>1, <2>2
<1> DEFINE r == Ins(s, f, t)
<1>5. IsList(Inserted(l, t), r) /\ Inserted(l, t) \in Links
  <2>1. Inserted(l, t) \in Links
    BY <1>4 DEF Linked
  <2> QED BY <2>1, <1>1, <1>4, InsList
<1>6. IsIns(r, s, f, t)
  BY <1>1, InsFacts
<1>7. \A k \in 1 .. Len(s) : s[k] \in mem /\ s[k] \in Elements(s)
  BY <1>1 DEF Elements
<1>8. \A k \in 1 .. Len(s) : (k < f => prio[s[k]] >= DefPrio) /\ (k >= f => prio[s[k]] <= DefPrio)
  <2> TAKE k \in 1 .. Len(s)
  <2>1. CASE k < f
    <3>1. k \in 1 .. f - 1
      BY <2>1, <1>1
    <3>2. s[k] \notin S /\ s[k] \in mem /\ prio[s[k]] \in 0 .. 5
      BY <3>1, <1>2, <1>7 DEF FirstAt
    <3> QED BY <3>2, <2>1 DEF DefPrio
  <2>2. CASE k >= f
    <3>1. f \in 1 .. Len(s) /\ (f = k \/ f < k)
      BY <2>2, <1>1
    <3>2. s[f] \in S
      BY <3>1, <1>2 DEF FirstAt
    <3>3. prio[s[f]] >= prio[s[k]] \/ s[f] = s[k]
      BY <3>1, <1>1 DEF Sorted
    <3>4. prio[s[k]] \in 0 .. 5 /\ prio[s[f]] \in 0 .. 5 /\ prio[s[f]] <= DefPrio
      BY <3>1, <3>2, <1>7
    <3> QED BY <3>3, <3>4, <2>2 DEF DefPrio
  <2> QED BY <2>1, <2>2, <1>1
<1> HIDE DEF r
<1>9. Sorted(r, q)
  <2>1. q[t] \in Int /\ t \notin Elements(s) /\ Sorted(s, prio)
    BY <1>1 DEF DefPrio
  <2>2. \A k \in 1 .. Len(s) : q[s[k]] = prio[s[k]] /\ prio[s[k]] \in Int
    BY <1>7
  <2>3. \A k \in 1 .. Len(s) : (k < f => prio[s[k]] >= q[t]) /\ (k >= f => prio[s[k]] <= q[t])
    BY <1>8
  <2> QED BY <2>1, <2>2, <2>3, <1>1, <1>6, InsSorted
<1>10. r \in Seq(Node) /\ Elements(r) = mem \union {t}
  BY <1>1, <1>6 DEF IsIns
<1> QED BY <1>5, <1>9, <1>10 DEF Lists

LEMMA MovedFacts ==
  ASSUME NEW l, NEW s, NEW pr, NEW t \in Node, Lists(l, s, mem \union {t}, pr),
         \A n \in mem \union {t} : pr[n] \in 0 .. 5, NEW p \in 0 .. 5,
         NEW q, \A n \in mem \union {t} : q[n] = IF n = t THEN p ELSE pr[n]
  PROVE  \E r : Lists(Moved(l, pr, t, p), r, mem \union {t}, q)
<1>1. /\ l \in Links /\ s \in Seq(Node) /\ IsList(l, s) /\ Elements(s) = mem \union {t} /\ Sorted(s, pr)
      /\ Len(s) \in Nat /\ \A j, k \in 1 .. Len(s) : j # k => s[j] # s[k]
  BY DEF Lists, IsList
<1> DEFINE S == {n \in mem \union {t} : pr[n] <= p}
<1>2. PICK f \in 1 .. Len(s) + 1 : FirstAt(s, S, f)
  BY <1>1, FirstExists
<1>3. FirstIn(l, S) = At(s, f)
  BY <1>1, <1>2, FirstFound
<1>4. PICK i \in 1 .. Len(s) : s[i] = t
  BY <1>1 DEF Elements
<1>5. \A k \in 1 .. Len(s) : s[k] \in mem \union {t} /\ pr[s[k]] \in 0 .. 5 /\ (s[k] = t <=> k = i)
  BY <1>1, <1>4 DEF Elements
<1>6. \A k \in 1 .. Len(s) : (k < f => pr[s[k]] >= p) /\ (k >= f => pr[s[k]] <= p)
  <2> TAKE k \in 1 .. Len(s)
  <2>1. CASE k < f
    <3>1. k \in 1 .. f - 1
      BY <2>1, <1>1
    <3>2. s[k] \notin S /\ s[k] \in mem \union {t} /\ pr[s[k]] \in 0 .. 5
      BY <3>1, <1>2, <1>5 DEF FirstAt
    <3> QED BY <3>2, <2>1
  <2>2. CASE k >= f
    <3>1. f \in 1 .. Len(s) /\ (f = k \/ f < k)
      BY <2>2, <1>1
    <3>2. s[f] \in S
      BY <3>1, <1>2 DEF FirstAt
    <3>3. pr[s[f]] >= pr[s[k]] \/ s[f] = s[k]
      BY <3>1, <1>1 DEF Sorted
    <3>4. pr[s[k]] \in 0 .. 5 /\ pr[s[f]] \in 0 .. 5 /\ pr[s[f]] <= p
      BY <3>1, <3>2, <1>5
    <3> QED BY <3>3, <3>4, <2>2
  <2> QED BY <2>1, <2>2, <1>1
<1>7. CASE p = pr[t] \/ f = i \/ f = i + 1
  <2>1. Moved(l, pr, t, p) = l
    <3>1. f = i => At(s, f) = t
      BY <1>1, <1>4, ListFacts
    <3>2. f = i + 1 => MoveBefore(l, t, At(s, f)) = l
      BY <1>1, <1>4, MoveStays
    <3> QED BY <3>1, <3>2, <1>3, <1>7 DEF Moved
  <2>2. Sorted(s, q)
    <3>1. SUFFICES ASSUME NEW j \in 1 .. Len(s), NEW k \in 1 .. Len(s), j < k
                   PROVE  q[s[j]] >= q[s[k]]
      BY DEF Sorted
    <3>2. /\ q[s[j]] = (IF j = i THEN p ELSE pr[s[j]]) /\ q[s[k]] = (IF k = i THEN p ELSE pr[s[k]])
          /\ pr[s[j]] \in 0 .. 5 /\ pr[s[k]] \in 0 .. 5 /\ pr[s[j]] >= pr[s[k]]
      BY <3>1, <1>1, <1>5 DEF Sorted
    <3>3. CASE p = pr[t]
      BY <3>2, <3>3, <1>4
    <3>4. CASE f = i \/ f = i + 1
      <4>1. (j < i => j < f) /\ (k > i => k >= f)
        BY <3>4, <1>1
      <4>2. (j < i => pr[s[j]] >= p) /\ (k > i => pr[s[k]] <= p)
        BY <4>1, <1>6
      <4> QED BY <4>2, <3>1, <3>2
    <3> QED BY <3>3, <3>4, <1>7
  <2> QED BY <2>1, <2>2, <1>1 DEF Lists
<1>8. CASE ~(p = pr[t] \/ f = i \/ f = i + 1)
  <2>1. Moved(l, pr, t, p) = MoveBefore(l, t, At(s, f))
    <3>1. At(s, f) # t
      BY <1>1, <1>4, <1>8, ListFacts
    <3> QED BY <3>1, <1>3, <1>8 DEF Moved
  <2> DEFINE u == Del1(s, i)
             g == IF f < i THEN f ELSE f - 1
             r == Ins(u, g, t)
  <2>2. Moved(l, pr, t, p) \in Links /\ IsList(Moved(l, pr, t, p), r)
    BY <2>1, <1>1, <1>4, <1>8, MoveList
  <2>3. IsDel(u, s, i)
    BY <1>1, DelFacts
  <2>4. /\ u \in Seq(Node) /\ Len(u) = Len(s) - 1 /\ Elements(u) = (mem \union {t}) \ {t}
        /\ \A k \in 1 .. Len(s) - 1 : u[k] = IF k < i THEN s[k] ELSE s[k + 1]
    BY <2>3, <1>1, <1>4 DEF IsDel
  <2>5. g \in 1 .. Len(s) /\ g \in 1 .. Len(u) + 1
    BY <2>4, <1>1, <1>8
  <2>6. t \notin Elements(u)
    BY <2>4
  <2>7. IsIns(r, u, g, t)
    BY <2>4, <2>5, InsFacts
  <2>8. Sorted(u, pr)
    BY <2>3, <1>1, DelSorted
  <2> HIDE DEF u, r
  <2>9. ASSUME NEW k \in 1 .. Len(u)
        PROVE  /\ q[u[k]] = pr[u[k]] /\ pr[u[k]] \in Int
               /\ (k < g => pr[u[k]] >= p) /\ (k >= g => pr[u[k]] <= p)
    <3>1. PICK j \in 1 .. Len(s) : j = IF k < i THEN k ELSE k + 1
      BY <2>4, <1>1
    <3>2. u[k] = s[j] /\ j # i
      BY <2>4, <3>1
    <3>3. (k < g => j < f) /\ (k >= g => j >= f)
      BY <2>4, <2>5, <3>1, <1>1, <1>8
    <3>4. q[s[j]] = pr[s[j]] /\ pr[s[j]] \in Int /\ (j < f => pr[s[j]] >= p) /\ (j >= f => pr[s[j]] <= p)
      BY <3>2, <1>5, <1>6
    <3> QED BY <3>2, <3>3, <3>4
  <2>10. Sorted(r, q)
    <3>1. q[t] = p /\ q[t] \in Int
      OBVIOUS
    <3>2. \A k \in 1 .. Len(u) : q[u[k]] = pr[u[k]] /\ pr[u[k]] \in Int
      BY <2>9
    <3>3. \A k \in 1 .. Len(u) : (k < g => pr[u[k]] >= q[t]) /\ (k >= g => pr[u[k]] <= q[t])
      BY <2>9, <3>1
    <3> HIDE DEF g
    <3> QED BY <3>1, <3>2, <3>3, <2>4, <2>5, <2>6, <2>7, <2>8, InsSorted
  <2>11. r \in Seq(Node) /\ Elements(r) = mem \union {t}
    BY <2>4, <2>7 DEF IsIns
  <2> QED BY <2>2, <2>10, <2>11 DEF Lists
<1> QED BY <1>7, <1>8

LEMMA ListsSame ==
  ASSUME NEW l, NEW s, NEW S, NEW pr, Lists(l, s, S, pr), NEW q, \A n \in S : q[n] = pr[n]
  PROVE  Lists(l, s, S, q)
<1>1. \A k \in 1 .. Len(s) : q[s[k]] = pr[s[k]]
  BY DEF Lists, Elements
<1> QED BY <1>1 DEF Lists, Sorted

LEMMA DeletedFacts ==
  ASSUME NEW l, NEW s, NEW S, NEW pr, Lists(l, s, S, pr), NEW t \in S, NEW q, \A n \in S \ {t} : q[n] = pr[n]
  PROVE  \E r : Lists([Rem(l, t) EXCEPT !.prev[t] = Junk, !.next[t] = Junk], r, S \ {t}, q)
<1>1. /\ l \in Links /\ s \in Seq(Node) /\ IsList(l, s) /\ Elements(s) = S /\ Sorted(s, pr)
      /\ \A j, k \in 1 .. Len(s) : j # k => s[j] # s[k]
  BY DEF Lists, IsList
<1>2. PICK i \in 1 .. Len(s) : s[i] = t
  BY <1>1 DEF Elements
<1>3. Unlinked(l, Rem(l, t), s, i)
  BY <1>1, <1>2, RemLinks
<1>4. PICK m : m = [Rem(l, t) EXCEPT !.prev[t] = Junk, !.next[t] = Junk]
  OBVIOUS
<1>5. Rem(l, t) \in Links
  BY <1>3 DEF Unlinked
<1>6. /\ m \in Links /\ m.head = Rem(l, t).head /\ m.tail = Rem(l, t).tail
      /\ \A x \in Node \ {t} : m.next[x] = Rem(l, t).next[x] /\ m.prev[x] = Rem(l, t).prev[x]
  BY <1>4, <1>5 DEF Links, Link
<1>7. Unlinked(l, m, s, i)
  BY <1>2, <1>3, <1>6 DEF Unlinked
<1>8. IsList(m, Del1(s, i))
  BY <1>1, <1>7, DelList
<1>9. IsDel(Del1(s, i), s, i)
  BY <1>1, DelFacts
<1>10. Sorted(Del1(s, i), pr)
  BY <1>1, <1>9, DelSorted
<1>11. Lists(m, Del1(s, i), S \ {t}, pr)
  BY <1>1, <1>2, <1>6, <1>8, <1>9, <1>10 DEF Lists, IsDel
<1>12. Lists(m, Del1(s, i), S \ {t}, q)
  BY <1>11, ListsSame
<1> QED BY <1>4, <1>12

-----------------------------------------------------------------------------
(* The steps. *)

LEMMA TasksLists ==
  ASSUME TypeOK, NEW s \in Seq(Node), Tasks(s)
  PROVE  Lists(ll, s, mem, prio)
BY DEF TypeOK, Tasks, Lists, Links, Link

LEMMA CallerFacts ==
  ASSUME Typed, Caller
  PROVE  /\ pc.at \in {"out", "call"} /\ pc'.at = pc.at /\ PcTyped'
         /\ pc.at = "out" => pc' = Out
         /\ pc.at = "call" => pc'.top = pc.top /\ pc'.next = pc.next /\ pc'.intr = pc.intr
<1>1. CASE pc = Out
  BY <1>1 DEF Caller, PcTyped, Out
<1>2. CASE pc # Out
  <2>1. pc.at = "call" /\ pc.left > 0 /\ pc' = [pc EXCEPT !.left = @ - 1]
    BY <1>2 DEF Caller
  <2>2. pc \in [at : {"call"}, intr : Node \union {Null}, next : Node \union {Null},
                top : BOOLEAN, left : 0 .. MaxOps]
    BY <1>2, <2>1 DEF Typed, PcTyped, Look
  <2>3. pc.left - 1 \in 0 .. MaxOps
    BY <2>1, <2>2, Params
  <2> QED BY <2>1, <2>2, <2>3 DEF PcTyped
<1> QED BY <1>1, <1>2

\* A call that leaves the list and the handler alone.
LEMMA CallerSame ==
  ASSUME Typed, NEW s \in Seq(Node), Tasks(s), Caller,
         ll' = ll, mem' = mem, prio' = prio, act' = act, seen' = seen, Stops => Stops'
  PROVE  Tasks(s)'
<1>1. /\ pc.at \in {"out", "call"} /\ pc'.at = pc.at
      /\ pc.at = "call" => pc'.top = pc.top /\ pc'.next = pc.next /\ pc'.intr = pc.intr
  BY CallerFacts
<1>2. Handler(s) => Handler(s)'
  BY <1>1 DEF Handler, Passed
<1> QED BY <1>2 DEF Tasks

LEMMA TickInv ==
  ASSUME Typed, NEW s \in Seq(Node), Tasks(s), Tick
  PROVE  Typed' /\ Tasks(s)'
<1>1. since' \in [Node -> 0 .. Longest]
  <2>1. \A n \in Node : (IF n \in mem THEN Elapsed(since[n] + 1) ELSE 0) \in 0 .. Longest
    <3> TAKE n \in Node
    <3>1. since[n] \in 0 .. Longest /\ Longest \in Nat
      BY Span DEF Typed, TypeOK
    <3>2. since[n] + 1 \in Nat /\ 0 \in 0 .. Longest
      BY ONLY <3>1
    <3>3. Elapsed(since[n] + 1) \in 0 .. Longest
      BY ONLY <3>2, Span
    <3> QED BY ONLY <3>2, <3>3
  <2> QED BY <2>1 DEF Tick
<1>2. Typed'
  BY <1>1 DEF Tick, Typed, TypeOK, PcTyped, flags
<1>3. Tasks(s)'
  BY DEF Tick, Tasks, Handler, Passed, Stops, flags
<1> QED BY <1>2, <1>3

LEMMA ReadyInv ==
  ASSUME Typed, NEW s \in Seq(Node), Tasks(s), NEW t \in Node, Ready(t) \/ Reset(t)
  PROVE  Typed' /\ Tasks(s)'
<1>0. Caller /\ t \in mem /\ UNCHANGED <<ll, mem, prio, period, once, run, flags, act, seen>>
  BY DEF Ready, Reset
<1>1. since' \in [Node -> 0 .. Longest]
  <2>1. Elapsed(period[t] + 1) \in 0 .. Longest /\ 0 \in 0 .. Longest
    <3>1. period[t] \in Periods \union {0}
      BY <1>0 DEF Typed
    <3>2. period[t] \in Nat
      <4>1. Periods \subseteq Nat
        BY Params
      <4>2. CASE period[t] \in Periods
        BY <4>1, <4>2
      <4>3. CASE period[t] = 0
        BY <4>3
      <4> QED BY <3>1, <4>2, <4>3
    <3>3. period[t] + 1 \in Nat
      BY ONLY <3>2
    <3>4. Longest \in Nat /\ Elapsed(period[t] + 1) \in 0 .. Longest
      BY ONLY <3>3, Span
    <3> QED BY ONLY <3>4
  <2> QED BY <2>1 DEF Ready, Reset, Typed, TypeOK
<1>2. PcTyped' /\ pc'.at = pc.at
  BY <1>0, CallerFacts
<1>3. TypeOK'
  BY <1>0, <1>1, <1>2 DEF Typed, TypeOK, PcTyped, Look, flags
<1>4. Typed'
  BY <1>0, <1>2, <1>3 DEF Typed, flags
<1>5. Tasks(s)'
  BY <1>0, CallerSame DEF Stops, flags
<1> QED BY <1>4, <1>5

LEMMA SetPeriodInv ==
  ASSUME Typed, NEW s \in Seq(Node), Tasks(s), NEW t \in Node, NEW per \in Periods, SetPeriod(t, per)
  PROVE  Typed' /\ Tasks(s)'
<1>0. /\ Caller /\ t \in mem /\ UNCHANGED <<ll, mem, prio, once, since, run, flags, act, seen>>
      /\ period' = [period EXCEPT ![t] = per]
  BY DEF SetPeriod
<1>2. PcTyped' /\ pc'.at = pc.at
  BY <1>0, CallerFacts
<1>3. TypeOK'
  BY <1>0, <1>2 DEF Typed, TypeOK, PcTyped, Look, flags
<1>4. Typed'
  BY <1>0, <1>2, <1>3 DEF Typed, TypeOK, flags
<1>5. Tasks(s)'
  BY <1>0, CallerSame DEF Stops, flags
<1> QED BY <1>4, <1>5

LEMMA OnceInv ==
  ASSUME Typed, NEW s \in Seq(Node), Tasks(s), NEW t \in Node, Once(t)
  PROVE  Typed' /\ Tasks(s)'
<1>0. /\ Caller /\ t \in mem /\ UNCHANGED <<ll, mem, prio, period, since, run, flags, act, seen>>
      /\ once' = [once EXCEPT ![t] = TRUE]
  BY DEF Once
<1>2. PcTyped' /\ pc'.at = pc.at
  BY <1>0, CallerFacts
<1>3. TypeOK'
  BY <1>0, <1>2 DEF Typed, TypeOK, PcTyped, Look, flags
<1>4. Typed'
  BY <1>0, <1>2, <1>3 DEF Typed, flags
<1>5. Stops => Stops'
  BY <1>0 DEF Stops, flags, Typed, TypeOK
<1>6. Tasks(s)'
  BY <1>0, <1>5, CallerSame
<1> QED BY <1>4, <1>6

LEMMA EnableInv ==
  ASSUME Typed, NEW s \in Seq(Node), Tasks(s), NEW en \in BOOLEAN, Enable(en)
  PROVE  Typed' /\ Tasks(s)'
<1>0. Caller /\ run' = en /\ UNCHANGED <<ll, mem, fields, flags, act, seen>>
  BY DEF Enable
<1>2. PcTyped' /\ pc'.at = pc.at
  BY <1>0, CallerFacts
<1>3. TypeOK'
  BY <1>0, <1>2 DEF Typed, TypeOK, PcTyped, Look, flags, fields
<1>4. Typed'
  BY <1>0, <1>2, <1>3 DEF Typed, flags, fields
<1>5. Tasks(s)'
  BY <1>0, CallerSame DEF Stops, flags, fields
<1> QED BY <1>4, <1>5

LEMMA CreateInv ==
  ASSUME Typed, NEW s \in Seq(Node), Tasks(s), NEW t \in Node, NEW per \in Periods \union {0},
         NEW p \in 0 .. 5, NEW o \in BOOLEAN, Create(t, per, p, o)
  PROVE  Typed' /\ \E r \in Seq(Node) : Tasks(r)'
<1>0. /\ Caller /\ t \notin mem /\ mem' = mem \union {t} /\ created' = TRUE
      /\ ll' = Moved(Inserted(ll, t), [prio EXCEPT ![t] = DefPrio], t, p)
      /\ prio' = [prio EXCEPT ![t] = p] /\ period' = [period EXCEPT ![t] = per]
      /\ once' = [once EXCEPT ![t] = o] /\ since' = [since EXCEPT ![t] = 0]
      /\ UNCHANGED <<run, deleted, act, seen>>
  BY DEF Create
<1>1. Lists(ll, s, mem, prio) /\ prio \in [Node -> 0 .. 5 \union {Junk}] /\ mem \subseteq Node
      /\ \A n \in mem : prio[n] \in 0 .. 5
  BY TasksLists DEF Typed, TypeOK
<1>2. PICK q : q = [prio EXCEPT ![t] = DefPrio]
  OBVIOUS
<1>3. q[t] = DefPrio /\ DefPrio \in 0 .. 5 /\ \A n \in mem : q[n] = prio[n]
  BY <1>0, <1>1, <1>2 DEF DefPrio
<1>4. PICK r1 : Lists(Inserted(ll, t), r1, mem \union {t}, q)
  BY <1>0, <1>1, <1>3, InsertedFacts
<1>5. \A n \in mem \union {t} : q[n] \in 0 .. 5 /\ prio'[n] = IF n = t THEN p ELSE q[n]
  <2>1. \A n \in mem : n # t /\ prio'[n] = prio[n] /\ prio[n] \in 0 .. 5
    BY <1>0, <1>1
  <2>2. prio'[t] = p
    BY <1>0, <1>1
  <2> QED BY <2>1, <2>2, <1>3
<1>6. PICK r : Lists(Moved(Inserted(ll, t), q, t, p), r, mem \union {t}, prio')
  <2>1. \A n \in mem \union {t} : q[n] \in 0 .. 5
    BY <1>5
  <2>2. \A n \in mem \union {t} : prio'[n] = IF n = t THEN p ELSE q[n]
    BY <1>5
  <2> QED BY <2>1, <2>2, <1>4, MovedFacts
<1>7. Lists(ll', r, mem', prio')
  BY <1>0, <1>2, <1>6
<1>8. PcTyped' /\ pc'.at \in {"out", "call"} /\ pc'.at = pc.at
  BY <1>0, CallerFacts
<1>9. TypeOK'
  <2>1. ll' \in Links
    BY <1>7 DEF Lists
  <2>2. 0 \in 0 .. Longest
    BY Span
  <2>3. /\ prio' \in [Node -> 0 .. 5 \union {Junk}] /\ period' \in [Node -> Periods \union {0, Junk}]
        /\ once' \in [Node -> BOOLEAN \union {Junk}] /\ since' \in [Node -> 0 .. Longest]
    BY <1>0, <2>2 DEF Typed, TypeOK
  <2>4. \/ pc' = Out
        \/ pc'.at = "look" /\ pc'.intr \in Node \union {Null}
        \/ /\ pc'.at = "call" /\ pc'.top \in BOOLEAN /\ pc'.left \in 0 .. MaxOps
           /\ pc'.intr \in Node \union {Null} /\ pc'.next \in Node \union {Null}
    BY <1>8 DEF PcTyped, Look
  <2> QED BY <1>0, <2>1, <2>3, <2>4 DEF Typed, TypeOK, Links, Link
<1>10. \A n \in mem' : prio'[n] \in 0 .. 5 /\ period'[n] \in Periods \union {0}
  BY <1>0, <1>1 DEF Typed, TypeOK
<1>11. Typed'
  BY <1>0, <1>8, <1>9, <1>10 DEF Typed
<1>12. r \in Seq(Node) /\ Tasks(r)'
  BY <1>0, <1>7, <1>8 DEF Lists, Tasks, Handler, Stops
<1> QED BY <1>11, <1>12

LEMMA DeleteInv ==
  ASSUME Typed, NEW s \in Seq(Node), Tasks(s), NEW t \in mem, Delete(t)
  PROVE  /\ \E r : Lists(ll', r, mem', prio')
         /\ mem' \subseteq Node
         /\ prio' \in [Node -> 0 .. 5 \union {Junk}]
         /\ period' \in [Node -> Periods \union {0, Junk}]
         /\ once' \in [Node -> BOOLEAN \union {Junk}]
         /\ since' \in [Node -> 0 .. Longest]
         /\ \A n \in mem' : n \in mem /\ prio'[n] \in 0 .. 5 /\ period'[n] \in Periods \union {0}
         /\ deleted' \in BOOLEAN /\ deleted' = (deleted \/ act = t)
<1>1. Lists(ll, s, mem, prio) /\ TypeOK /\ t \in Node
  BY TasksLists DEF Typed, TypeOK
<1>2. /\ mem' = mem \ {t} /\ ll' = [Rem(ll, t) EXCEPT !.prev[t] = Junk, !.next[t] = Junk]
      /\ prio' = [prio EXCEPT ![t] = Junk] /\ period' = [period EXCEPT ![t] = Junk]
      /\ once' = [once EXCEPT ![t] = Junk] /\ since' = [since EXCEPT ![t] = 0]
      /\ deleted' = (deleted \/ act = t)
  BY DEF Delete
<1>3. \A n \in mem \ {t} : prio'[n] = prio[n] /\ period'[n] = period[n]
  BY <1>1, <1>2 DEF TypeOK
<1>4. \E r : Lists(ll', r, mem', prio')
  <2>1. \A n \in mem \ {t} : prio'[n] = prio[n]
    BY <1>3
  <2>2. \E r : Lists([Rem(ll, t) EXCEPT !.prev[t] = Junk, !.next[t] = Junk], r, mem \ {t}, prio')
    BY <1>1, <2>1, DeletedFacts
  <2> QED BY <2>2, <1>2
<1>5. 0 \in 0 .. Longest
  BY Span
<1> QED BY <1>1, <1>2, <1>3, <1>4, <1>5 DEF Typed, TypeOK

LEMMA DelInv ==
  ASSUME Typed, NEW s \in Seq(Node), Tasks(s), NEW t \in Node, Del(t)
  PROVE  Typed' /\ \E r \in Seq(Node) : Tasks(r)'
<1>0. /\ Caller /\ t \in mem /\ Delete(t) /\ UNCHANGED <<run, created, act, seen>>
      /\ (pc.at = "call" /\ pc.top) => (DeletesOthers \/ t = act \/ Stops)
  BY DEF Del
<1>1. PICK r : Lists(ll', r, mem', prio')
  BY <1>0, DeleteInv
<1>2. /\ mem' \subseteq Node
      /\ prio' \in [Node -> 0 .. 5 \union {Junk}]
      /\ period' \in [Node -> Periods \union {0, Junk}]
      /\ once' \in [Node -> BOOLEAN \union {Junk}]
      /\ since' \in [Node -> 0 .. Longest]
      /\ \A n \in mem' : n \in mem /\ prio'[n] \in 0 .. 5 /\ period'[n] \in Periods \union {0}
      /\ deleted' \in BOOLEAN /\ deleted' = (deleted \/ act = t)
  BY <1>0, DeleteInv
<1>3. /\ pc.at \in {"out", "call"} /\ pc'.at = pc.at /\ PcTyped'
      /\ pc.at = "call" => pc'.top = pc.top
  BY <1>0, CallerFacts
<1>4. TypeOK'
  <2>1. ll' \in Links
    BY <1>1 DEF Lists
  <2>2. \/ pc' = Out
        \/ pc'.at = "look" /\ pc'.intr \in Node \union {Null}
        \/ /\ pc'.at = "call" /\ pc'.top \in BOOLEAN /\ pc'.left \in 0 .. MaxOps
           /\ pc'.intr \in Node \union {Null} /\ pc'.next \in Node \union {Null}
    BY <1>3 DEF PcTyped, Look
  <2> QED BY <1>0, <1>2, <2>1, <2>2 DEF Typed, TypeOK, Links, Link
<1>5. mem' = mem \ {t}
  BY <1>0 DEF Delete
<1>6. pc'.at = "call" /\ ~deleted' => act' \in mem'
  BY <1>0, <1>2, <1>3, <1>5 DEF Typed
<1>7. Typed'
  BY <1>2, <1>3, <1>4, <1>6 DEF Typed
<1>8. pc'.at = "call" /\ pc'.top /\ ~DeletesOthers => Stops'
  <2> SUFFICES ASSUME pc'.at = "call", pc'.top, ~DeletesOthers, ~(created' \/ deleted') PROVE once'[act'] = TRUE
    BY DEF Stops
  <2>1. act # t /\ act' = act /\ ~created /\ ~deleted
    BY <1>0, <1>2
  <2>2. once[act] = TRUE
    BY <2>1, <1>0, <1>3 DEF Stops
  <2>3. once'[act] = once[act]
    BY <1>0, <2>1 DEF Delete, Typed, TypeOK
  <2> QED BY <2>1, <2>2, <2>3
<1>9. r \in Seq(Node) /\ Tasks(r)'
  BY <1>1, <1>3, <1>8 DEF Lists, Tasks, Handler
<1> QED BY <1>7, <1>9

LEMMA SetPrioInv ==
  ASSUME Typed, NEW s \in Seq(Node), Tasks(s), NEW t \in Node, NEW p \in 0 .. 5, SetPrio(t, p)
  PROVE  Typed' /\ \E r \in Seq(Node) : Tasks(r)'
<1>0. /\ Caller /\ t \in mem /\ ll' = Moved(ll, prio, t, p) /\ prio' = [prio EXCEPT ![t] = p]
      /\ seen' = (IF pc = Out THEN seen ELSE mem)
      /\ UNCHANGED <<mem, period, once, since, run, flags, act>>
  BY DEF SetPrio
<1>1. Lists(ll, s, mem, prio) /\ prio \in [Node -> 0 .. 5 \union {Junk}] /\ mem \subseteq Node
      /\ mem \union {t} = mem /\ \A n \in mem : prio[n] \in 0 .. 5
  BY <1>0, TasksLists DEF Typed, TypeOK
<1>2. \A n \in mem \union {t} : prio[n] \in 0 .. 5
  BY <1>1
<1>3. \A n \in mem \union {t} : prio'[n] = IF n = t THEN p ELSE prio[n]
  BY <1>0, <1>1
<1>4. PICK r : Lists(ll', r, mem', prio')
  <2>1. \E r : Lists(Moved(ll, prio, t, p), r, mem \union {t}, prio')
    BY <1>1, <1>2, <1>3, MovedFacts
  <2> QED BY <2>1, <1>0, <1>1
<1>5. /\ pc.at \in {"out", "call"} /\ pc'.at = pc.at /\ PcTyped'
      /\ pc.at = "call" => pc'.top = pc.top /\ pc'.next = pc.next /\ pc'.intr = pc.intr
  BY <1>0, CallerFacts
<1>6. TypeOK'
  <2>1. ll' \in Links
    BY <1>4 DEF Lists
  <2> QED BY <1>0, <1>5, <2>1 DEF Typed, TypeOK, Links, Link, PcTyped, Look, flags
<1>7. \A n \in mem' : prio'[n] \in 0 .. 5 /\ period'[n] \in Periods \union {0}
  BY <1>0, <1>1 DEF Typed
<1>8. Typed'
  BY <1>0, <1>5, <1>6, <1>7 DEF Typed, flags
<1>9. Handler(s) => Handler(r)'
  <2>0. pc'.at # "look"
    BY <1>5
  <2> SUFFICES ASSUME Handler(s) PROVE Handler(r)'
    OBVIOUS
  <2>1. ASSUME pc'.at = "call", pc'.top, ~Stops'
        PROVE  {pc'.next, pc'.intr} \subseteq mem' \union {Null} /\ Passed(r, pc.next)'
    <3>1. ~Stops /\ pc.at = "call" /\ pc.top /\ pc'.next = pc.next /\ pc'.intr = pc.intr
      BY <2>1, <1>0, <1>5 DEF Stops, flags
    <3>2. {pc.next, pc.intr} \subseteq mem \union {Null}
      BY <3>1 DEF Handler
    <3>3. seen' = mem
      BY <1>0, <3>1 DEF Out
    <3>4. \A i \in 1 .. Len(r) : r[i] \in mem
      BY <1>0, <1>4 DEF Lists, Elements
    <3> QED BY <1>0, <3>1, <3>2, <3>3, <3>4 DEF Passed
  <2> QED BY <2>0, <2>1 DEF Handler
<1>10. r \in Seq(Node) /\ Tasks(r)'
  BY <1>4, <1>9 DEF Lists, Tasks
<1> QED BY <1>8, <1>10

LEMMA HeadFacts ==
  ASSUME NEW s \in Seq(Node), Tasks(s)
  PROVE  ll.head \in mem \union {Null} /\ \A k \in 1 .. Len(s) : (\A j \in 1 .. k : s[j] # ll.head) => FALSE
<1>1. ll.head = At(s, 1) /\ Elements(s) = mem /\ IsList(ll, s)
  BY DEF Tasks, IsList
<1>2. ll.head \in mem \union {Null}
  BY <1>1, ListFacts
<1>3. ASSUME NEW k \in 1 .. Len(s) PROVE \E j \in 1 .. k : s[j] = ll.head
  <2>1. 1 \in 1 .. k /\ 1 \in 1 .. Len(s)
    BY <1>3
  <2> QED BY <2>1, <1>1 DEF At
<1> QED BY <1>2, <1>3

\* The handler goes on from a to the next: that is the one behind a, and what
\* stands before it is what stood before a, and a.
LEMMA NextFacts ==
  ASSUME Typed, NEW s \in Seq(Node), Tasks(s), act \in mem, Passed(s, act), seen' = seen \union {act}
  PROVE  /\ ll.next[act] \in mem \union {Null}
         /\ \A k \in 1 .. Len(s) : (\A j \in 1 .. k : s[j] # ll.next[act]) => s[k] \in seen'
<1>1. IsList(ll, s) /\ Elements(s) = mem
  BY DEF Tasks
<1>2. PICK i \in 1 .. Len(s) : s[i] = act
  BY <1>1 DEF Elements
<1>3. ll.next[act] = At(s, i + 1) /\ At(s, i + 1) \in mem \union {Null}
  BY <1>1, <1>2, ListFacts
<1>4. ASSUME NEW k \in 1 .. Len(s), \A j \in 1 .. k : s[j] # ll.next[act] PROVE s[k] \in seen'
  <2>1. k <= i
    <3> SUFFICES ASSUME k > i PROVE FALSE
      BY <1>2
    <3>1. i + 1 \in 1 .. k /\ i + 1 \in 1 .. Len(s)
      BY <1>2
    <3>2. s[i + 1] = ll.next[act]
      BY <3>1, <1>3 DEF At
    <3> QED BY <3>1, <3>2, <1>4
  <2>2. CASE k = i
    BY <2>2, <1>2
  <2>3. CASE k # i
    <3>1. \A j \in 1 .. k : j \in 1 .. Len(s) /\ j # i
      BY <2>1, <2>3, <1>2
    <3>2. \A j \in 1 .. k : s[j] # act
      BY <3>1, <1>1, <1>2 DEF IsList
    <3> QED BY <3>2 DEF Passed
  <2> QED BY <2>2, <2>3
<1> QED BY <1>3, <1>4

LEMMA EnterInv ==
  ASSUME Typed, NEW s \in Seq(Node), Tasks(s), Enter
  PROVE  Typed' /\ Tasks(s)'
<1>0. /\ pc = Out /\ UNCHANGED <<ll, mem, fields, run>> /\ seen' = {}
      /\ created' = FALSE /\ deleted' = FALSE /\ act' = ll.head /\ pc' = Look(Null)
  BY DEF Enter, Pass
<1>1. ll.head \in Node \union {Null}
  BY DEF Typed, TypeOK
<1>2. Typed'
  BY <1>0, <1>1 DEF Typed, TypeOK, PcTyped, Look, fields
<1>3. Handler(s)'
  <2>1. ll.head \in mem \union {Null} /\ \A k \in 1 .. Len(s) : (\A j \in 1 .. k : s[j] # ll.head) => FALSE
    BY HeadFacts
  <2>2. Passed(s, act)'
    BY <2>1, <1>0 DEF Passed
  <2>3. pc'.at = "look" /\ pc'.intr = Null
    BY <1>0 DEF Look
  <2>4. {act', pc'.intr} \subseteq mem' \union {Null}
    BY <2>1, <2>3, <1>0 DEF fields
  <2> QED BY <2>2, <2>3, <2>4 DEF Handler
<1>4. Tasks(s)'
  BY <1>0, <1>3 DEF Tasks, fields
<1> QED BY <1>2, <1>4

LEMMA PassEndsInv ==
  ASSUME Typed, NEW s \in Seq(Node), Tasks(s), PassEnds
  PROVE  Typed' /\ Tasks(s)'
<1>0. /\ pc' = Out /\ seen' = {} /\ UNCHANGED <<ll, mem, fields, run, flags, act>>
  BY DEF PassEnds
<1>1. Typed'
  BY <1>0 DEF Typed, TypeOK, PcTyped, Out, fields, flags
<1>2. Tasks(s)'
  BY <1>0 DEF Tasks, Handler, Out, fields
<1> QED BY <1>1, <1>2

\* The handler stands at act, and goes on to the next.
LEMMA StepInv ==
  ASSUME Typed, NEW s \in Seq(Node), Tasks(s), SkipInterrupter \/ PassOver
  PROVE  Typed' /\ Tasks(s)'
<1>0. /\ pc.at = "look" /\ act \in mem /\ act' = ll.next[act] /\ seen' = seen \union {act}
      /\ UNCHANGED <<ll, mem, fields, run, flags>>
      /\ pc' = pc \/ pc' = Look(Null)
  BY DEF SkipInterrupter, PassOver, LookAt
<1>1. PICK j \in Node \union {Null} : pc = Look(j)
  BY <1>0 DEF Typed, PcTyped, Out
<1>2. PICK j2 \in Node \union {Null} : pc' = Look(j2) /\ (j2 = j \/ j2 = Null)
  BY <1>0, <1>1
<1>3. ll.next[act] \in Node \union {Null}
  <2>1. IsList(ll, s) /\ Elements(s) = mem
    BY DEF Tasks
  <2>2. PICK i \in 1 .. Len(s) : s[i] = act
    BY <2>1, <1>0 DEF Elements
  <2> QED BY <2>1, <2>2, ListFacts
<1>4. Typed'
  <2>1. PcTyped' /\ pc'.at = "look" /\ pc'.intr = j2
    BY <1>2 DEF PcTyped, Look
  <2>2. TypeOK'
    BY <1>0, <1>2, <1>3, <2>1 DEF Typed, TypeOK, fields, flags
  <2> QED BY <1>0, <2>1, <2>2 DEF Typed, fields, flags
<1>5. ASSUME ~DeletesOthers PROVE Handler(s)'
  <2>1. {act, pc.intr} \subseteq mem \union {Null} /\ Passed(s, act)
    BY <1>0, <1>5 DEF Tasks, Handler
  <2>2. /\ ll.next[act] \in mem \union {Null}
        /\ \A k \in 1 .. Len(s) : (\A i \in 1 .. k : s[i] # ll.next[act]) => s[k] \in seen'
    BY <1>0, <2>1, NextFacts
  <2>3. Passed(s, act)'
    BY <1>0, <2>2 DEF Passed
  <2>4. pc'.at = "look" /\ pc'.intr = j2 /\ pc.intr = j
    BY <1>1, <1>2 DEF Look
  <2>5. {act', pc'.intr} \subseteq mem' \union {Null}
    BY <2>1, <2>2, <2>4, <1>0, <1>2
  <2> QED BY <2>3, <2>4, <2>5 DEF Handler
<1>6. Tasks(s)'
  BY <1>0, <1>5 DEF Tasks, fields
<1> QED BY <1>4, <1>6

LEMMA ExecInv ==
  ASSUME Typed, NEW s \in Seq(Node), Tasks(s), Exec
  PROVE  Typed' /\ Tasks(s)'
<1>0. /\ pc.at = "look" /\ act \in mem /\ seen' = seen \union {act}
      /\ since' = [since EXCEPT ![act] = 0] /\ created' = FALSE /\ deleted' = FALSE
      /\ pc' = Call(pc.intr, ll.next[act], prio[act] = Highest)
      /\ UNCHANGED <<ll, mem, prio, period, once, run, act>>
  BY DEF Exec, LookAt
<1>1. PICK j \in Node \union {Null} : pc = Look(j)
  BY <1>0 DEF Typed, PcTyped, Out
<1>3. ll.next[act] \in Node \union {Null}
  <2>1. IsList(ll, s) /\ Elements(s) = mem
    BY DEF Tasks
  <2>2. PICK i \in 1 .. Len(s) : s[i] = act
    BY <2>1, <1>0 DEF Elements
  <2> QED BY <2>1, <2>2, ListFacts
<1>4. /\ pc'.at = "call" /\ pc'.intr = j /\ pc'.next = ll.next[act] /\ pc'.left = MaxOps
      /\ pc'.top = (prio[act] = Highest) /\ pc.intr = j
      /\ pc' \in [at : {"call"}, intr : Node \union {Null}, next : Node \union {Null},
                  top : BOOLEAN, left : 0 .. MaxOps]
  <2>1. (prio[act] = Highest) \in BOOLEAN /\ MaxOps \in 0 .. MaxOps
    BY Params
  <2> QED BY <1>0, <1>1, <1>3, <2>1 DEF Call, Look
<1>5. Typed'
  <2>1. PcTyped'
    BY <1>4 DEF PcTyped
  <2>2. since' \in [Node -> 0 .. Longest] /\ seen' \subseteq Node
    <3>1. 0 \in 0 .. Longest
      BY Span
    <3> QED BY <3>1, <1>0 DEF Typed, TypeOK
  <2>3. TypeOK'
    BY <1>0, <1>4, <2>2 DEF Typed, TypeOK
  <2> QED BY <1>0, <2>1, <2>3 DEF Typed
<1>6. ASSUME ~DeletesOthers PROVE Handler(s)'
  <2>1. {act, pc.intr} \subseteq mem \union {Null} /\ Passed(s, act)
    BY <1>0, <1>6 DEF Tasks, Handler
  <2>2. /\ ll.next[act] \in mem \union {Null}
        /\ \A k \in 1 .. Len(s) : (\A i \in 1 .. k : s[i] # ll.next[act]) => s[k] \in seen'
    BY <1>0, <2>1, NextFacts
  <2>3. Passed(s, pc.next)'
    BY <1>4, <2>2 DEF Passed
  <2>5. {pc'.next, pc'.intr} \subseteq mem' \union {Null}
    BY <2>1, <2>2, <1>4, <1>0
  <2> QED BY <2>3, <2>5, <1>4 DEF Handler
<1>7. Tasks(s)'
  BY <1>0, <1>6 DEF Tasks
<1> QED BY <1>5, <1>7

LEMMA ReturnInv ==
  ASSUME Typed, NEW s \in Seq(Node), Tasks(s), Return
  PROVE  Typed' /\ \E r \in Seq(Node) : Tasks(r)'
<1>0. /\ pc.at = "call" /\ UNCHANGED run
      /\ seen' = IF pc.top /\ ~Stops THEN seen ELSE {}
  BY DEF Return
<1>1. pc \in [at : {"call"}, intr : Node \union {Null}, next : Node \union {Null},
              top : BOOLEAN, left : 0 .. MaxOps]
  BY <1>0 DEF Typed, PcTyped, Out, Look
<1>2. CASE Stops
  <2>1. pc' = Out /\ UNCHANGED <<created, act>> /\ seen' = {}
    BY <1>0, <1>2 DEF Return
  <2>2. PcTyped' /\ pc'.at = "out"
    BY <2>1 DEF PcTyped, Out
  <2>3. CASE once[act] = TRUE /\ ~deleted
    <3>1. Delete(act) /\ act \in mem
      BY <2>3, <1>0 DEF Return, Typed
    <3>2. /\ \E r : Lists(ll', r, mem', prio')
          /\ mem' \subseteq Node
          /\ prio' \in [Node -> 0 .. 5 \union {Junk}]
          /\ period' \in [Node -> Periods \union {0, Junk}]
          /\ once' \in [Node -> BOOLEAN \union {Junk}]
          /\ since' \in [Node -> 0 .. Longest]
          /\ \A n \in mem' : n \in mem /\ prio'[n] \in 0 .. 5 /\ period'[n] \in Periods \union {0}
          /\ deleted' \in BOOLEAN
      BY <3>1, DeleteInv
    <3>3. PICK r : Lists(ll', r, mem', prio')
      BY <3>2
    <3>4. TypeOK'
      <4>1. ll' \in Links
        BY <3>3 DEF Lists
      <4> QED BY <1>0, <2>1, <3>2, <4>1 DEF Typed, TypeOK, Links, Link
    <3>5. Typed'
      BY <2>2, <3>2, <3>4 DEF Typed
    <3>6. r \in Seq(Node) /\ Tasks(r)'
      BY <2>2, <3>3 DEF Lists, Tasks, Handler
    <3> QED BY <3>5, <3>6
  <2>4. CASE ~(once[act] = TRUE /\ ~deleted)
    <3>1. UNCHANGED <<ll, mem, fields, deleted>>
      BY <2>4 DEF Return
    <3>2. Typed'
      BY <1>0, <2>1, <2>2, <3>1 DEF Typed, TypeOK, fields
    <3>3. Tasks(s)'
      BY <2>2, <3>1 DEF Tasks, Handler, fields
    <3> QED BY <3>2, <3>3
  <2> QED BY <2>3, <2>4
<1>3. CASE ~Stops
  <2>1. UNCHANGED <<ll, mem, fields>> /\ GoOn /\ ~deleted /\ act \in mem
    BY <1>0, <1>3 DEF Return, Stops, Typed
  <2>2. CASE pc.top
    <3>1. pc' = Look(pc.intr) /\ act' = pc.next /\ UNCHANGED flags /\ seen' = seen
      BY <1>0, <1>3, <2>1, <2>2 DEF GoOn
    <3>2. PcTyped' /\ pc'.at = "look" /\ pc'.intr = pc.intr
      BY <1>1, <3>1 DEF PcTyped, Look
    <3>3. UNCHANGED deleted
      BY <3>1 DEF flags
    <3>4. TypeOK'
      BY <1>0, <1>1, <2>1, <3>1, <3>2 DEF Typed, TypeOK, fields, flags
    <3>5. Typed'
      BY <2>1, <3>2, <3>4 DEF Typed, fields
    <3>6. Handler(s) => Handler(s)'
      BY <1>0, <1>3, <2>1, <2>2, <3>1, <3>2 DEF Handler, Passed
    <3>7. Tasks(s)'
      BY <2>1, <3>6 DEF Tasks, fields
    <3> QED BY <3>5, <3>7
  <2>3. CASE ~pc.top
    <3>1. /\ pc' = Look(act) /\ act' = ll.head /\ created' = FALSE /\ deleted' = FALSE /\ seen' = {}
      BY <1>0, <1>3, <2>1, <2>3 DEF GoOn, Pass
    <3>2. PcTyped' /\ pc'.at = "look" /\ pc'.intr = act /\ act \in Node
      BY <2>1, <3>1 DEF PcTyped, Look, Typed, TypeOK
    <3>3. ll.head \in mem \union {Null} /\ \A k \in 1 .. Len(s) : (\A j \in 1 .. k : s[j] # ll.head) => FALSE
      BY HeadFacts
    <3>4. TypeOK'
      BY <1>0, <2>1, <3>1, <3>2, <3>3 DEF Typed, TypeOK, fields
    <3>5. Typed'
      BY <2>1, <3>2, <3>4 DEF Typed, fields
    <3>6. Passed(s, act)'
      BY <3>1, <3>3 DEF Passed
    <3>7. Handler(s)'
      BY <2>1, <3>1, <3>2, <3>3, <3>6 DEF Handler, fields
    <3>8. Tasks(s)'
      BY <2>1, <3>7 DEF Tasks, fields
    <3> QED BY <3>5, <3>8
  <2> QED BY <2>2, <2>3
<1> QED BY <1>2, <1>3

LEMMA InitInv == Init => IInv
<1> SUFFICES ASSUME Init PROVE IInv
  OBVIOUS
<1>1. Typed
  <2>1. 0 \in 0 .. Longest
    BY Span
  <2>2. /\ ll = [head |-> Null, tail |-> Null,
                 prev |-> [n \in Node |-> Null], next |-> [n \in Node |-> Null]]
        /\ mem = {} /\ seen = {} /\ act = Null /\ pc = Out /\ pc.at = "out"
        /\ run = TRUE /\ created = FALSE /\ deleted = FALSE
    BY DEF Init, Empty, Out
  <2>3. /\ prio \in [Node -> 0 .. 5 \union {Junk}] /\ period \in [Node -> Periods \union {0, Junk}]
        /\ once \in [Node -> BOOLEAN \union {Junk}] /\ since \in [Node -> 0 .. Longest]
    BY <2>1 DEF Init
  <2>4. TypeOK
    BY <2>2, <2>3 DEF TypeOK
  <2> QED BY <2>2, <2>4 DEF Typed, PcTyped
<1>2. Tasks(<<>>) /\ <<>> \in Seq(Node)
  BY DEF Init, Tasks, Handler, IsList, At, Elements, Sorted, Empty, Out
<1> QED BY <1>1, <1>2 DEF IInv

LEMMA NextInv == IInv /\ [Next]_vars => IInv'
<1> SUFFICES ASSUME IInv, [Next]_vars PROVE IInv'
  OBVIOUS
<1>1. Typed
  BY DEF IInv
<1>2. PICK s \in Seq(Node) : Tasks(s)
  BY DEF IInv
<1>3. ASSUME Typed' /\ \E r \in Seq(Node) : Tasks(r)' PROVE IInv'
  BY <1>3 DEF IInv
<1>4. CASE Tick
  BY <1>1, <1>2, <1>3, <1>4, TickInv
<1>5. ASSUME NEW t \in Node, NEW p \in Prios, SetPrio(t, p) PROVE IInv'
  <2>1. p \in 0 .. 5
    BY Params
  <2> QED BY <1>1, <1>2, <1>3, <1>5, <2>1, SetPrioInv
<1>6. ASSUME NEW t \in Node, NEW p \in Prios, NEW per \in Periods, Create(t, per, p, FALSE) PROVE IInv'
  <2>1. p \in 0 .. 5 /\ per \in Periods \union {0} /\ FALSE \in BOOLEAN
    BY Params
  <2> QED BY <1>1, <1>2, <1>3, <1>6, <2>1, CreateInv
<1>7. ASSUME NEW t \in Node, AsyncCall(t) PROVE IInv'
  <2>1. Create(t, 0, Highest, TRUE)
    BY <1>7 DEF AsyncCall
  <2>2. Highest \in 0 .. 5 /\ 0 \in Periods \union {0} /\ TRUE \in BOOLEAN
    BY DEF Highest
  <2> QED BY <1>1, <1>2, <1>3, <2>1, <2>2, CreateInv
<1>8. ASSUME NEW t \in Node, Del(t) PROVE IInv'
  BY <1>1, <1>2, <1>3, <1>8, DelInv
<1>9. ASSUME NEW t \in Node, Once(t) PROVE IInv'
  BY <1>1, <1>2, <1>3, <1>9, OnceInv
<1>10. ASSUME NEW t \in Node, Ready(t) \/ Reset(t) PROVE IInv'
  BY <1>1, <1>2, <1>3, <1>10, ReadyInv
<1>11. ASSUME NEW t \in Node, NEW per \in Periods, SetPeriod(t, per) PROVE IInv'
  BY <1>1, <1>2, <1>3, <1>11, SetPeriodInv
<1>12. ASSUME NEW en \in BOOLEAN, Enable(en) PROVE IInv'
  BY <1>1, <1>2, <1>3, <1>12, EnableInv
<1>13. CASE Enter
  BY <1>1, <1>2, <1>3, <1>13, EnterInv
<1>14. CASE PassEnds
  BY <1>1, <1>2, <1>3, <1>14, PassEndsInv
<1>15. CASE SkipInterrupter \/ PassOver
  BY <1>1, <1>2, <1>3, <1>15, StepInv
<1>16. CASE Exec
  BY <1>1, <1>2, <1>3, <1>16, ExecInv
<1>17. CASE Return
  BY <1>1, <1>2, <1>3, <1>17, ReturnInv
<1>18. CASE UNCHANGED vars
  <2>1. Typed'
    BY <1>1, <1>18 DEF Typed, TypeOK, PcTyped, vars, fields, flags
  <2>2. Tasks(s)'
    BY <1>2, <1>18 DEF Tasks, Handler, Passed, Stops, vars, fields, flags
  <2> QED BY <2>1, <2>2, <1>3
<1> QED BY <1>4, <1>5, <1>6, <1>7, <1>8, <1>9, <1>10, <1>11, <1>12, <1>13, <1>14, <1>15, <1>16,
           <1>17, <1>18 DEF Next

LEMMA Invariance == Spec => []IInv
BY InitInv, NextInv, PTL DEF Spec

-----------------------------------------------------------------------------
(* The theorems. *)

\* The fields of the tasks, the ends and the links of their list and the place
\* of lv_task_handler are of their types after every call of lv_task.c.
THEOREM TypeCorrect == Spec => []TypeOK
<1>1. IInv => TypeOK
  BY DEF IInv, Typed
<1> QED BY <1>1, Invariance, PTL

LEMMA SoundFromList ==
  ASSUME NEW s \in Seq(Node), TypeOK, Tasks(s)
  PROVE  ListSound
<1>1. /\ IsList(ll, s) /\ Elements(s) = mem /\ Sorted(s, prio) /\ Len(s) \in Nat
      /\ \A j, k \in 1 .. Len(s) : j # k => s[j] # s[k]
  BY DEF Tasks, IsList
<1>2. Reached(ll) = mem
  <2>1. ASSUME NEW n \in Node PROVE FirstIn(ll, {n}) = n <=> n \in mem
    <3>1. PICK f \in 1 .. Len(s) + 1 : FirstAt(s, {n}, f)
      BY FirstExists
    <3>2. FirstIn(ll, {n}) = At(s, f)
      BY <1>1, <3>1, FirstFound
    <3>3. CASE f = Len(s) + 1
      <4>1. At(s, f) = Null
        BY <3>3, <1>1, ListFacts
      <4>2. \A k \in 1 .. Len(s) : s[k] # n
        <5> TAKE k \in 1 .. Len(s)
        <5>1. k \in 1 .. f - 1
          BY <3>3, <1>1
        <5> QED BY <5>1, <3>1 DEF FirstAt
      <4>3. n \notin mem
        BY <4>2, <1>1 DEF Elements
      <4> QED BY <3>2, <4>1, <4>3, Params
    <3>4. CASE f # Len(s) + 1
      <4>1. f \in 1 .. Len(s) /\ f <= Len(s)
        BY <3>4, <1>1
      <4>2. s[f] = n /\ At(s, f) = s[f]
        BY <4>1, <3>1 DEF FirstAt, At
      <4> QED BY <3>2, <4>1, <4>2, <1>1 DEF Elements
    <3> QED BY <3>3, <3>4
  <2> QED BY <2>1 DEF Reached, TypeOK
<1>3. ll.head = At(s, 1) /\ ll.tail = At(s, Len(s)) /\ At(s, 0) = Null /\ At(s, Len(s) + 1) = Null
  BY <1>1, ListFacts
<1>4. \A i \in 1 .. Len(s) : /\ s[i] # Null /\ At(s, i) = s[i]
                             /\ ll.prev[s[i]] = At(s, i - 1) /\ ll.next[s[i]] = At(s, i + 1)
  BY <1>1, ListFacts
<1>5. CASE Len(s) = 0
  <2>1. At(s, 1) = Null /\ At(s, Len(s)) = Null
    BY <1>3, <1>5
  <2>2. mem = {}
    BY <1>1, <1>5 DEF Elements
  <2> QED BY <1>2, <1>3, <2>1, <2>2 DEF ListSound
<1>6. CASE Len(s) # 0
  <2>1. 1 \in 1 .. Len(s) /\ Len(s) \in 1 .. Len(s)
    BY <1>1, <1>6
  <2>2. /\ ll.head = s[1] /\ ll.tail = s[Len(s)] /\ ll.head # Null /\ ll.tail # Null
        /\ ll.prev[ll.head] = Null /\ ll.next[ll.tail] = Null
    BY <2>1, <1>3, <1>4
  <2>3. ASSUME NEW n \in mem, ll.next[n] # Null
        PROVE  ll.prev[ll.next[n]] = n /\ prio[n] >= prio[ll.next[n]]
    <3>1. PICK i \in 1 .. Len(s) : s[i] = n
      BY <1>1 DEF Elements
    <3>2. ll.next[n] = At(s, i + 1)
      BY <3>1, <1>4
    <3>3. PICK k \in 1 .. Len(s) : k = i + 1 /\ k - 1 = i /\ i < k
      BY <3>2, <2>3 DEF At
    <3>4. ll.next[n] = s[k] /\ ll.prev[s[k]] = At(s, k - 1) /\ At(s, i) = n
      BY <3>1, <3>2, <3>3, <1>4
    <3>5. prio[s[i]] >= prio[s[k]]
      BY <3>3, <1>1 DEF Sorted
    <3> QED BY <3>1, <3>3, <3>4, <3>5
  <2> QED BY <1>2, <2>2, <2>3 DEF ListSound
<1> QED BY <1>5, <1>6

\* After every call, one that a task makes while it is called or not, the list
\* of lv_ll.c holds the tasks that exist and no other, sorted by priority as
\* lv_task_handler takes them, and reads the same from both ends.
THEOREM ListStaysSound == Spec => []ListSound
<1>1. IInv => ListSound
  BY SoundFromList DEF IInv, Typed
<1> QED BY <1>1, Invariance, PTL

\* If no task of the highest priority deletes others and stays, the task at
\* which lv_task_handler is about to look, and the interrupter with whose
\* priority it compares, have not been freed.
THEOREM NoneDangling == ASSUME ~DeletesOthers PROVE Spec => []NoDangling
<1>1. IInv => NoDangling
  BY DEF IInv, Tasks, Handler, NoDangling
<1> QED BY <1>1, Invariance, PTL

\* If no task of the highest priority deletes others and stays, a task is
\* called only when all of a higher priority were looked at since one below
\* the highest priority was called, whatever tasks do to the list meanwhile.
THEOREM PriorityKept == ASSUME ~DeletesOthers PROVE Spec => PriorityRespected
<1> DEFINE A == (pc.at = "look" /\ pc'.at = "call") => \A u \in mem : prio[u] > prio[act] => u \in seen
<1>1. IInv /\ [Next]_vars => [A]_vars
  <2> SUFFICES ASSUME IInv, Next, pc.at = "look", pc'.at = "call", NEW u \in mem, prio[u] > prio[act]
               PROVE  u \in seen
    OBVIOUS
  <2>1. PICK s \in Seq(Node) : Tasks(s)
    BY DEF IInv
  <2>2. Exec
    <3>1. ~Caller
      BY DEF Caller, Out
    <3>2. ~PassEnds /\ ~SkipInterrupter /\ ~PassOver /\ ~Enter /\ ~Return /\ ~Tick
      BY DEF PassEnds, SkipInterrupter, PassOver, Enter, Return, Tick, Out, Look, Pass
    <3> QED BY <3>1, <3>2 DEF Next, SetPrio, Create, AsyncCall, Del, Once, Ready, Reset, SetPeriod, Enable
  <2>3. act \in mem /\ Passed(s, act) /\ Elements(s) = mem /\ Sorted(s, prio)
        /\ \A n \in mem : prio[n] \in 0 .. 5
    BY <2>1, <2>2 DEF IInv, Typed, Tasks, Handler, Exec, LookAt
  <2>4. PICK i \in 1 .. Len(s) : s[i] = u
    BY <2>3 DEF Elements
  <2>5. ASSUME NEW j \in 1 .. i, s[j] = act PROVE FALSE
    <3>1. j \in 1 .. Len(s) /\ (j < i \/ j = i)
      BY <2>4
    <3>2. prio[s[j]] >= prio[s[i]]
      BY <3>1, <2>3, <2>4 DEF Sorted
    <3> QED BY <3>2, <2>3, <2>4, <2>5
  <2>6. s[i] \in seen
    BY <2>3, <2>5 DEF Passed
  <2> QED BY <2>4, <2>6
<1>2. Spec => [][Next]_vars
  BY PTL DEF Spec
<1> QED BY <1>1, <1>2, Invariance, PTL DEF PriorityRespected
=============================================================================
